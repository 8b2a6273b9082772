--------------------------- MODULE QPTPoolProofs ----------------------------
(***************************************************************************)
(* Theorems about QPTPool, for every number of threads, every set of work  *)
(* items and every way they enqueue one another.                           *)
(***************************************************************************)
EXTENDS QPTPool, FoldTheorems

USE ThreadsAssumption

-----------------------------------------------------------------------------
(* The inductive invariant.                                                 *)

\* An enqueue in progress has a work item in its hands, and a Token, which
\* cannot be written to a swap file, always goes to a waiting queue.
EnqueueInv ==
    /\ \A p \in Procs : pc[p] \in {"enqueue", "here", "target", "place"} =>
                            new_work[p] \in Work
    /\ \A p \in Procs : new_work[p] = Token => queue[p] = "WAIT"

\* Only threads that were started run, and they run only between a start and
\* the end of the stop that joins them.
StartedInv ==
    /\ \A w \in Workers : w >= started => pc[w] \in {"idle", "gone"}
    /\ pc[Main] \in {"stop_wake", "join"} => state = "STOPPING"
    /\ (state # "RUNNING" /\ pc[Main] \notin {"stop_wake", "join"}) =>
            \A w \in Workers : pc[w] \in {"idle", "gone"}

\* A thread that looks for work to steal has been told how much to take.
StealInv ==
    \A w \in Workers : pc[w] \in {"steal_waiting", "steal_claimed"} => props.num > 0

IInv == TypeOK /\ EnqueueInv /\ StartedInv /\ StealInv

-----------------------------------------------------------------------------
(* Facts about the operators of QPTPool.                                    *)

\* A worker is never main(), nobody is Free.
LEMMA Distinct ==
    /\ 0 \in Workers
    /\ \A w \in Workers : w # Main /\ w # Free /\ w \in Procs
    /\ Main \in Procs /\ Main # Free
  BY DEF Workers, Procs

\* The neighbour a thief looks at is a thread of the pool.
LEMMA NeighborType ==
    ASSUME TypeOK, NEW w \in Workers
    PROVE  /\ Neighbor(w) \in Workers
           /\ (steal_from[w] + 1) % NThreads \in Workers
  <1> DEFINE m == steal_from[w] + idx[w]
             n == steal_from[w] + 1
  <1>0. steal_from \in [Workers -> Workers] /\ idx \in [Procs -> Workers]
    BY DEF TypeOK, TurnTypes, ThreadTypes
  <1>1. steal_from[w] \in Workers /\ idx[w] \in Workers
    BY <1>0, Distinct
  <1>2. \A k \in Nat : k % NThreads \in 0 .. NThreads - 1
    BY NThreads \in Nat \ {0}, SMT
  <1>3. m \in Nat /\ n \in Nat
    BY <1>1 DEF Workers
  <1> HIDE DEF m, n
  <1>4. m % NThreads \in Workers /\ n % NThreads \in Workers
    BY <1>2, <1>3 DEF Workers
  <1> QED  BY <1>4 DEF Neighbor, m, n

\* A thief takes at least one item and at most all of them.
LEMMA TakeType ==
    ASSUME TypeOK, props.num > 0, NEW n \in Nat \ {0}
    PROVE  Take(n) \in 1 .. n
  <1>1. props.num \in Nat /\ props.denom \in Nat \ {0}
    BY DEF TypeOK, PoolTypes, PropType
  <1>2. n * props.num \in Nat
    BY <1>1
  <1>3. \A a \in Nat, b \in Nat \ {0} : a \div b \in Nat
    BY SMT
  <1> QED  BY <1>1, <1>2, <1>3 DEF Take

\* What is taken and what is left behind are queues again.
LEMMA StealType ==
    ASSUME TypeOK, props.num > 0, NEW q \in Seq(Work), q # <<>>
    PROVE  First(q) \in Seq(Work) /\ Rest(q) \in Seq(Work)
  <1>1. Len(q) \in Nat \ {0}
    BY EmptySeq, LenProperties
  <1>2. Take(Len(q)) \in 1 .. Len(q)
    BY <1>1, TakeType
  <1> DEFINE k == Take(Len(q))
  <1>3. SubSeq(q, 1, k) \in Seq(Work)
    BY <1>1, <1>2, SubSeqProperties
  <1>4. SubSeq(q, k + 1, Len(q)) \in Seq(Work)
    BY <1>1, <1>2, SubSeqProperties
  <1> QED  BY <1>3, <1>4 DEF First, Rest

\* A Token is work, and not NULL.
LEMMA TokenFacts == Token \in Work /\ Token # NoItem
  BY ItemsAssumption DEF Work

\* A loop over the threads of the pool stays within them.
LEMMA NextIndex ==
    ASSUME NEW i \in Workers
    PROVE  (IF i + 1 = NThreads THEN 0 ELSE i + 1) \in Workers
  BY DEF Workers

\* The round robin and the user's function choose a thread of the pool.
LEMMA NextQueueType ==
    ASSUME NEW i \in Workers
    PROVE  NextQueue(i) \subseteq Workers
  BY NextIndex DEF NextQueue

\* What an enqueue leaves behind for the next one.
LEMMA ReturnType ==
    ASSUME TypeOK, NEW p \in Procs, NEW awake, Return(p, awake)
    PROVE  EnqTypes'
  <1>1. (IF MoreTokens(p) THEN target[p] + 1 ELSE 0) \in Workers
    BY DEF MoreTokens, TypeOK, EnqTypes, Workers
  <1>2. target' \in [Procs -> Workers]
    BY <1>1 DEF Return, TypeOK, EnqTypes
  <1>3. new_work' \in [Procs -> Work \cup {NoItem}]
    BY DEF Return, TypeOK, EnqTypes
  <1>4. queue' \in [Procs -> {"auto", "WAIT", "SWAP"}]
    BY DEF Return, TypeOK, EnqTypes
  <1> QED  BY <1>2, <1>3, <1>4 DEF EnqTypes

\* Only an item of the client is written to a swap file.
LEMMA SwappedIsItem ==
    ASSUME IInv, NEW p \in Procs, pc[p] = "place", GoesToSwap(p)
    PROVE  new_work[p] \in Items
  <1>1. new_work[p] \in Work /\ (new_work[p] = Token => queue[p] = "WAIT")
    BY DEF IInv, EnqueueInv
  <1>2. queue[p] # "WAIT"
    BY DEF GoesToSwap
  <1> QED  BY <1>1, <1>2 DEF Work

-----------------------------------------------------------------------------
(* Type correctness.                                                        *)

\* What an action leaves alone keeps its type.
LEMMA Unchanged ==
    ASSUME TypeOK
    PROVE  /\ UNCHANGED <<pc, idx>> => ThreadTypes'
           /\ UNCHANGED lockVars => LockTypes'
           /\ UNCHANGED queueVars => QueueTypes'
           /\ UNCHANGED turnVars => TurnTypes'
           /\ UNCHANGED swapVars => SwapTypes'
           /\ UNCHANGED poolVars => PoolTypes'
           /\ UNCHANGED itemVars => ItemTypes'
           /\ UNCHANGED enqVars => EnqTypes'
           /\ UNCHANGED mainVars => MainTypes'
           /\ UNCHANGED statVars => StatTypes'
           /\ UNCHANGED histVars => HistTypes'
  <1>1. UNCHANGED <<pc, idx>> => ThreadTypes'
    BY DEF TypeOK, ThreadTypes
  <1>2. UNCHANGED lockVars => LockTypes'
    BY DEF TypeOK, lockVars, LockTypes
  <1>3. UNCHANGED queueVars => QueueTypes'
    BY DEF TypeOK, queueVars, QueueTypes
  <1>4. UNCHANGED turnVars => TurnTypes'
    BY DEF TypeOK, turnVars, TurnTypes
  <1>5. UNCHANGED swapVars => SwapTypes'
    BY DEF TypeOK, swapVars, SwapTypes
  <1>6. UNCHANGED poolVars => PoolTypes'
    BY DEF TypeOK, poolVars, PoolTypes
  <1>7. UNCHANGED itemVars => ItemTypes'
    BY DEF TypeOK, itemVars, ItemTypes
  <1>8. UNCHANGED enqVars => EnqTypes'
    BY DEF TypeOK, enqVars, EnqTypes
  <1>9. UNCHANGED mainVars => MainTypes'
    BY DEF TypeOK, mainVars, MainTypes
  <1>10. UNCHANGED statVars => StatTypes'
    BY DEF TypeOK, statVars, StatTypes
  <1>11. UNCHANGED histVars => HistTypes'
    BY DEF TypeOK, histVars, HistTypes
  <1> QED  BY <1>1, <1>2, <1>3, <1>4, <1>5, <1>6, <1>7, <1>8, <1>9, <1>10, <1>11

\* A thread that goes on, with its loop index in range, keeps its type.
LEMMA WorkerMoves ==
    ASSUME TypeOK, NEW w \in Workers, NEW l \in WorkerPC \cup EnqueuePC, Goto(w, l),
           \/ UNCHANGED idx
           \/ \E n \in Workers : idx' = [idx EXCEPT ![w] = n]
    PROVE  ThreadTypes'
  <1>1. idx' \in [Procs -> Workers]
    BY Distinct DEF TypeOK, ThreadTypes
  <1>2. /\ pc' = [pc EXCEPT ![w] = l]
        /\ pc \in [Procs -> WorkerPC \cup EnqueuePC \cup MainPC]
        /\ pc[Main] \in EnqueuePC \cup MainPC
        /\ \A v \in Workers : pc[v] \in WorkerPC \cup EnqueuePC
    BY DEF Goto, TypeOK, ThreadTypes
  <1> QED  BY <1>1, <1>2, Distinct DEF ThreadTypes

\* main() goes on to a place it can be at.
LEMMA MainMoves ==
    ASSUME TypeOK, NEW l \in EnqueuePC \cup MainPC, Goto(Main, l),
           \/ UNCHANGED idx
           \/ \E n \in Workers : idx' = [idx EXCEPT ![Main] = n]
    PROVE  ThreadTypes'
  <1>1. idx' \in [Procs -> Workers]
    BY Distinct DEF TypeOK, ThreadTypes
  <1>2. /\ pc' = [pc EXCEPT ![Main] = l]
        /\ pc \in [Procs -> WorkerPC \cup EnqueuePC \cup MainPC]
        /\ pc[Main] \in EnqueuePC \cup MainPC
        /\ \A v \in Workers : pc[v] \in WorkerPC \cup EnqueuePC
    BY DEF Goto, TypeOK, ThreadTypes
  <1> QED  BY <1>1, <1>2, Distinct DEF ThreadTypes

\* The two locks a worker takes.
LEMMA WorkerLocks ==
    ASSUME TypeOK, NEW w \in Workers, NEW v \in Workers, NEW h \in Procs \cup {Free}
    PROVE  /\ UNCHANGED tmutex /\ pmutex' = h => LockTypes'
           /\ UNCHANGED pmutex /\ tmutex' = [tmutex EXCEPT ![v] = h] => LockTypes'
           /\ pmutex' = Free /\ tmutex' = [tmutex EXCEPT ![v] = h] => LockTypes'
  BY DEF TypeOK, LockTypes

\* Every step of the pool preserves the types.
LEMMA TypeStep ==
    ASSUME IInv, [Next]_vars
    PROVE  TypeOK'
  <1> USE DEF IInv
  <1>1. ASSUME NEW p \in Procs, Enqueue(p)
       PROVE  TypeOK'
    <2>1. ThreadTypes'
      BY <1>1, Distinct DEF Enqueue, TypeOK, ThreadTypes, Return, Goto, EnqueuePC,
         WorkerPC, MainPC
    <2>2. TurnTypes'
      <3>1. Own(p) \in Workers
        BY Distinct DEF Own, Procs
      <3>2. NextQueue(next_queue[Own(p)]) \subseteq Workers
        BY <3>1, NextQueueType DEF TypeOK, TurnTypes
      <3> QED  BY <1>1, <3>1, <3>2 DEF Enqueue, TypeOK, TurnTypes, turnVars
    <2>3. EnqTypes'
      <3>1. CASE StoppedOnError
        BY <1>1, <3>1, ReturnType DEF Enqueue
      <3>2. CASE ~StoppedOnError
        BY <1>1, <3>2, Distinct DEF Enqueue, TypeOK, EnqTypes, TurnTypes, Own, Procs
      <3> QED  BY <3>1, <3>2
    <2> QED  BY <1>1, <2>1, <2>2, <2>3, Unchanged DEF Enqueue, TypeOK
  <1>2. ASSUME NEW p \in Procs, LockTarget(p)
       PROVE  TypeOK'
    <2>1. ThreadTypes'
      BY <1>2 DEF LockTarget, TypeOK, ThreadTypes, Goto, EnqueuePC
    <2>2. LockTypes'
      BY <1>2 DEF LockTarget, TypeOK, LockTypes
    <2> QED  BY <1>2, <2>1, <2>2, Unchanged DEF LockTarget, TypeOK
  <1>3. ASSUME NEW p \in Procs, LockHere(p)
       PROVE  TypeOK'
    <2>1. ThreadTypes'
      BY <1>3, Distinct DEF LockHere, TypeOK, ThreadTypes, Return, Goto, EnqueuePC,
         WorkerPC, MainPC
    <2>2. LockTypes'
      BY <1>3 DEF LockHere, TypeOK, LockTypes, EnqTypes
    <2>3. EnqTypes'
      BY <1>3, ReturnType, Unchanged DEF LockHere
    <2> QED  BY <1>3, <2>1, <2>2, <2>3, Unchanged DEF LockHere, TypeOK
  <1>4. ASSUME NEW p \in Procs, PlaceInMemory(p)
       PROVE  TypeOK'
    <2>1. ThreadTypes'
      BY <1>4 DEF PlaceInMemory, TypeOK, ThreadTypes, Goto, EnqueuePC
    <2>2. QueueTypes'
      BY <1>4, AppendProperties DEF PlaceInMemory, TypeOK, QueueTypes, EnqTypes,
         EnqueueInv
    <2>3. PoolTypes'
      BY <1>4 DEF PlaceInMemory, TypeOK, PoolTypes
    <2>4. HistTypes'
      BY <1>4 DEF PlaceInMemory, TypeOK, HistTypes, Accepted, EnqueueInv, Work
    <2> QED  BY <1>4, <2>1, <2>2, <2>3, <2>4, Unchanged DEF PlaceInMemory, TypeOK
  <1>5. ASSUME NEW p \in Procs, PlaceInSwap(p)
       PROVE  TypeOK'
    <2>1. ThreadTypes'
      BY <1>5 DEF PlaceInSwap, TypeOK, ThreadTypes, Goto, EnqueuePC
    <2>2. SwapTypes'
      BY <1>5, SwappedIsItem, AppendProperties DEF PlaceInSwap, TypeOK, SwapTypes,
         EnqTypes
    <2>3. PoolTypes'
      BY <1>5 DEF PlaceInSwap, TypeOK, PoolTypes
    <2>4. HistTypes'
      BY <1>5 DEF PlaceInSwap, TypeOK, HistTypes, Accepted, EnqueueInv, Work
    <2> QED  BY <1>5, <2>1, <2>2, <2>3, <2>4, Unchanged DEF PlaceInSwap, TypeOK
  <1>6. ASSUME NEW p \in Procs, PlaceFails(p)
       PROVE  TypeOK'
    <2>1. ThreadTypes'
      BY <1>6 DEF PlaceFails, TypeOK, ThreadTypes, Goto, EnqueuePC
    <2>2. HistTypes'
      BY <1>6 DEF PlaceFails, TypeOK, HistTypes
    <2> QED  BY <1>6, <2>1, <2>2, Unchanged DEF PlaceFails, TypeOK
  <1>7. ASSUME NEW p \in Procs, WakeTarget(p)
       PROVE  TypeOK'
    <2>1. ThreadTypes'
      <3>1. Woken(target[p]) \in [Procs -> WorkerPC \cup EnqueuePC \cup MainPC]
        BY DEF TypeOK, ThreadTypes, Woken, WorkerPC
      <3>2. pc' \in [Procs -> WorkerPC \cup EnqueuePC \cup MainPC]
        BY <1>7, <3>1, Distinct DEF WakeTarget, Return, EnqueuePC, WorkerPC, MainPC
      <3>3. \A q \in Procs : q # p => pc'[q] \in {pc[q], "woken"} /\ (q = Main => pc'[q] = pc[q])
        BY <1>7, <3>1, Distinct DEF WakeTarget, Return, Woken, TypeOK, ThreadTypes, EnqTypes
      <3>4. IF p = Main THEN pc'[p] \in EnqueuePC \cup MainPC ELSE pc'[p] \in WorkerPC
        BY <1>7, <3>1 DEF WakeTarget, Return, MoreTokens, EnqueuePC, WorkerPC, MainPC
      <3>5. pc'[Main] \in EnqueuePC \cup MainPC
        BY <3>3, <3>4, Distinct DEF TypeOK, ThreadTypes
      <3>6. \A w \in Workers : pc'[w] \in WorkerPC \cup EnqueuePC
        BY <3>3, <3>4, Distinct DEF TypeOK, ThreadTypes, WorkerPC
      <3> QED  BY <1>7, <3>2, <3>5, <3>6 DEF WakeTarget, TypeOK, ThreadTypes
    <2>2. LockTypes'
      BY <1>7 DEF WakeTarget, TypeOK, LockTypes, EnqTypes
    <2>3. EnqTypes'
      BY <1>7, Distinct DEF WakeTarget, TypeOK, EnqTypes, Return, MoreTokens, Workers
    <2> QED  BY <1>7, <2>1, <2>2, <2>3, Unchanged DEF WakeTarget, TypeOK
  <1>8. ASSUME NEW w \in Workers, LockThread(w)
       PROVE  TypeOK'
    <2>1. ThreadTypes'
      BY <1>8, WorkerMoves DEF LockThread, Goto, WorkerPC
    <2>2. LockTypes'
      BY <1>8, Distinct, WorkerLocks DEF LockThread
    <2> QED  BY <1>8, <2>1, <2>2, Unchanged DEF LockThread, TypeOK
  <1>9. ASSUME NEW w \in Workers, LockPool(w)
       PROVE  TypeOK'
    <2>1. ThreadTypes'
      BY <1>9, WorkerMoves, Distinct DEF LockPool, WorkerPC
    <2>2. LockTypes'
      BY <1>9, Distinct, WorkerLocks DEF LockPool
    <2> QED  BY <1>9, <2>1, <2>2, Unchanged DEF LockPool, TypeOK
  <1>10. ASSUME NEW w \in Workers, StealNothing(w)
        PROVE  TypeOK'
    <2>1. ThreadTypes'
      <3>1. idx[w] \in Workers
        BY Distinct DEF TypeOK, ThreadTypes
      <3>2. \E n \in Workers : idx' = [idx EXCEPT ![w] = n]
        BY <1>10, <3>1, NextIndex DEF StealNothing
      <3>3. \E l \in WorkerPC \cup EnqueuePC : Goto(w, l)
        BY <1>10 DEF StealNothing, Goto, WorkerPC
      <3> QED  BY <3>2, <3>3, WorkerMoves
    <2>2. TurnTypes'
      BY <1>10, NeighborType, Distinct DEF StealNothing, TypeOK, TurnTypes,
         AdvanceStealFrom
    <2> QED  BY <1>10, <2>1, <2>2, Unchanged DEF StealNothing, TypeOK
  <1>11. ASSUME NEW w \in Workers, StealWaiting(w)
        PROVE  TypeOK'
    <2>1. ThreadTypes'
      BY <1>11, WorkerMoves, Distinct DEF StealWaiting, WorkerPC
    <2>2. TurnTypes'
      BY <1>11, NeighborType DEF StealWaiting, TypeOK, TurnTypes, AdvanceStealFrom
    <2>3. QueueTypes'
      BY <1>11, NeighborType, StealType, ConcatProperties DEF StealWaiting, TypeOK,
         QueueTypes, StealInv
    <2> QED  BY <1>11, <2>1, <2>2, <2>3, Unchanged DEF StealWaiting, TypeOK
  <1>12. ASSUME NEW w \in Workers, StealClaimed(w)
        PROVE  TypeOK'
    <2>1. ThreadTypes'
      BY <1>12, WorkerMoves, Distinct DEF StealClaimed, WorkerPC
    <2>2. TurnTypes'
      BY <1>12, NeighborType DEF StealClaimed, TypeOK, TurnTypes, AdvanceStealFrom
    <2>3. QueueTypes'
      BY <1>12, NeighborType, StealType, ConcatProperties DEF StealClaimed, TypeOK,
         QueueTypes, StealInv
    <2> QED  BY <1>12, <2>1, <2>2, <2>3, Unchanged DEF StealClaimed, TypeOK
  <1>13. ASSUME NEW w \in Workers, Sleep(w)
        PROVE  TypeOK'
    <2>1. ThreadTypes'
      BY <1>13, WorkerMoves DEF Sleep, WorkerPC
    <2>2. LockTypes'
      BY <1>13, Distinct, WorkerLocks DEF Sleep
    <2> QED  BY <1>13, <2>1, <2>2, Unchanged DEF Sleep, TypeOK
  <1>14. ASSUME NEW w \in Workers, SpuriousWakeup(w)
        PROVE  TypeOK'
    <2>1. ThreadTypes'
      BY <1>14, WorkerMoves DEF SpuriousWakeup, WorkerPC
    <2> QED  BY <1>14, <2>1, Unchanged DEF SpuriousWakeup, TypeOK
  <1>15. ASSUME NEW w \in Workers, Reacquire(w)
        PROVE  TypeOK'
    <2>1. ThreadTypes'
      BY <1>15, WorkerMoves DEF Reacquire, WorkerPC
    <2>2. LockTypes'
      BY <1>15, Distinct, WorkerLocks DEF Reacquire
    <2> QED  BY <1>15, <2>1, <2>2, Unchanged DEF Reacquire, TypeOK
  <1>16. ASSUME NEW w \in Workers, Relock(w)
        PROVE  TypeOK'
    <2>1. ThreadTypes'
      BY <1>16, WorkerMoves DEF Relock, WorkerPC
    <2>2. LockTypes'
      BY <1>16, Distinct, WorkerLocks DEF Relock
    <2> QED  BY <1>16, <2>1, <2>2, Unchanged DEF Relock, TypeOK
  <1>17. ASSUME NEW w \in Workers, Leave(w)
        PROVE  TypeOK'
    <2>1. ThreadTypes'
      BY <1>17, WorkerMoves, Distinct DEF Leave, WorkerPC
    <2>2. LockTypes'
      BY <1>17, Distinct, WorkerLocks DEF Leave
    <2> QED  BY <1>17, <2>1, <2>2, Unchanged DEF Leave, TypeOK
  <1>18. ASSUME NEW w \in Workers, Proceed(w)
        PROVE  TypeOK'
    <2>1. ThreadTypes'
      BY <1>18, WorkerMoves DEF Proceed, WorkerPC
    <2>2. LockTypes'
      BY <1>18, Distinct, WorkerLocks DEF Proceed
    <2> QED  BY <1>18, <2>1, <2>2, Unchanged DEF Proceed, TypeOK
  <1>19. ASSUME NEW w \in Workers, ClaimWork(w)
        PROVE  TypeOK'
    <2>1. ThreadTypes'
      BY <1>19, WorkerMoves DEF ClaimWork, WorkerPC
    <2>2. LockTypes'
      BY <1>19, WorkerLocks DEF ClaimWork
    <2>3. QueueTypes'
      BY <1>19, ConcatProperties DEF ClaimWork, TypeOK, QueueTypes
    <2> QED  BY <1>19, <2>1, <2>2, <2>3, Unchanged DEF ClaimWork, TypeOK
  <1>20. ASSUME NEW w \in Workers, PopWork(w)
        PROVE  TypeOK'
    <2>1. ThreadTypes'
      BY <1>20, WorkerMoves DEF PopWork, WorkerPC
    <2>2. QueueTypes'
      BY <1>20, HeadTailProperties DEF PopWork, TypeOK, QueueTypes
    <2>3. ItemTypes'
      BY <1>20, HeadTailProperties, ItemsAssumption DEF PopWork, TypeOK, QueueTypes,
         ItemTypes, Work
    <2>4. HistTypes'
      BY <1>20, HeadTailProperties DEF PopWork, TypeOK, QueueTypes, HistTypes, Work
    <2> QED  BY <1>20, <2>1, <2>2, <2>3, <2>4, Unchanged DEF PopWork, TypeOK
  <1>21. ASSUME NEW w \in Workers, PopNothing(w)
        PROVE  TypeOK'
    <2>1. ThreadTypes'
      BY <1>21, WorkerMoves DEF PopNothing, WorkerPC
    <2> QED  BY <1>21, <2>1, Unchanged DEF PopNothing, TypeOK
  <1>22. ASSUME NEW w \in Workers, Spawn(w)
        PROVE  TypeOK'
    <2>1. ThreadTypes'
      BY <1>22, WorkerMoves DEF Spawn, EnqueuePC
    <2>2. ItemTypes'
      BY <1>22, HeadTailProperties DEF Spawn, TypeOK, ItemTypes
    <2>3. EnqTypes'
      BY <1>22, HeadTailProperties, Distinct DEF Spawn, TypeOK, EnqTypes, ItemTypes, Work
    <2> QED  BY <1>22, <2>1, <2>2, <2>3, Unchanged DEF Spawn, TypeOK
  <1>23. ASSUME NEW w \in Workers, RunSucceeds(w)
        PROVE  TypeOK'
    <2>1. ThreadTypes'
      BY <1>23, WorkerMoves DEF RunSucceeds, WorkerPC
    <2>2. ItemTypes'
      BY <1>23 DEF RunSucceeds, TypeOK, ItemTypes, Processed
    <2>3. StatTypes'
      BY <1>23, BoundsAssumption DEF RunSucceeds, TypeOK, StatTypes, Processed, Cap
    <2> QED  BY <1>23, <2>1, <2>2, <2>3, Unchanged DEF RunSucceeds, TypeOK
  <1>24. ASSUME NEW w \in Workers, RunFails(w)
        PROVE  TypeOK'
    <2>1. ThreadTypes'
      BY <1>24, WorkerMoves DEF RunFails, WorkerPC
    <2>2. ItemTypes'
      BY <1>24 DEF RunFails, TypeOK, ItemTypes, Processed
    <2>3. StatTypes'
      BY <1>24, BoundsAssumption DEF RunFails, TypeOK, StatTypes, Processed, Cap
    <2> QED  BY <1>24, <2>1, <2>2, <2>3, Unchanged DEF RunFails, TypeOK
  <1>25. ASSUME NEW w \in Workers, SetErrored(w)
        PROVE  TypeOK'
    <2>1. ThreadTypes'
      BY <1>25, WorkerMoves DEF SetErrored, WorkerPC
    <2>2. PoolTypes'
      BY <1>25 DEF SetErrored, TypeOK, PoolTypes
    <2> QED  BY <1>25, <2>1, <2>2, Unchanged DEF SetErrored, TypeOK
  <1>26. ASSUME NEW w \in Workers, Account(w)
        PROVE  TypeOK'
    <2>1. ThreadTypes'
      BY <1>26, Distinct DEF Account, TypeOK, ThreadTypes, MainWoken, WorkerPC, MainPC
    <2>2. PoolTypes'
      BY <1>26 DEF Account, TypeOK, PoolTypes, ItemTypes
    <2>3. ItemTypes'
      BY <1>26 DEF Account, TypeOK, ItemTypes
    <2>4. StatTypes'
      BY <1>26, BoundsAssumption DEF Account, TypeOK, StatTypes, ItemTypes, Cap
    <2> QED  BY <1>26, <2>1, <2>2, <2>3, <2>4, Unchanged DEF Account, TypeOK
  <1>27. ASSUME NEW w \in Workers, ExitBroadcast(w)
        PROVE  TypeOK'
    <2>1. ThreadTypes'
      BY <1>27, Distinct DEF ExitBroadcast, TypeOK, ThreadTypes, Woken, WorkerPC, Workers
    <2> QED  BY <1>27, <2>1, Unchanged DEF ExitBroadcast, TypeOK
  <1>28. ASSUME NEW w \in Workers, SwapEmpty(w)
        PROVE  TypeOK'
    <2>1. ThreadTypes'
      BY <1>28, WorkerMoves DEF SwapEmpty, WorkerPC
    <2>2. SwapTypes'
      BY <1>28 DEF SwapEmpty, TypeOK, SwapTypes
    <2>3. ItemTypes'
      BY <1>28 DEF SwapEmpty, TypeOK, ItemTypes, Processed
    <2>4. StatTypes'
      BY <1>28, BoundsAssumption DEF SwapEmpty, TypeOK, StatTypes, Processed, Cap
    <2> QED  BY <1>28, <2>1, <2>2, <2>3, <2>4, Unchanged DEF SwapEmpty, TypeOK
  <1>29. ASSUME NEW w \in Workers, SwapPrep(w)
        PROVE  TypeOK'
    <2>1. ThreadTypes'
      BY <1>29, WorkerMoves DEF SwapPrep, WorkerPC
    <2>2. SwapTypes'
      BY <1>29 DEF SwapPrep, TypeOK, SwapTypes
    <2> QED  BY <1>29, <2>1, <2>2, Unchanged DEF SwapPrep, TypeOK
  <1>30. ASSUME NEW w \in Workers, SwapPrepFails(w)
        PROVE  TypeOK'
    <2>1. ThreadTypes'
      BY <1>30, WorkerMoves DEF SwapPrepFails, WorkerPC
    <2>2. SwapTypes'
      BY <1>30 DEF SwapPrepFails, TypeOK, SwapTypes
    <2>3. ItemTypes'
      BY <1>30 DEF SwapPrepFails, TypeOK, ItemTypes, Processed
    <2>4. StatTypes'
      BY <1>30, BoundsAssumption DEF SwapPrepFails, TypeOK, StatTypes, Processed, Cap
    <2>5. HistTypes'
      BY <1>30 DEF SwapPrepFails, TypeOK, HistTypes
    <2> QED  BY <1>30, <2>1, <2>2, <2>3, <2>4, <2>5, Unchanged DEF SwapPrepFails, TypeOK
  <1>31. ASSUME NEW w \in Workers, SwapRead(w)
        PROVE  TypeOK'
    <2>1. ThreadTypes'
      BY <1>31, WorkerMoves DEF SwapRead, EnqueuePC
    <2>2. SwapTypes'
      BY <1>31, HeadTailProperties DEF SwapRead, TypeOK, SwapTypes
    <2>3. ItemTypes'
      BY <1>31 DEF SwapRead, TypeOK, ItemTypes
    <2>4. EnqTypes'
      BY <1>31, HeadTailProperties, Distinct DEF SwapRead, TypeOK, EnqTypes, SwapTypes,
         Work
    <2> QED  BY <1>31, <2>1, <2>2, <2>3, <2>4, Unchanged DEF SwapRead, TypeOK
  <1>32. ASSUME NEW w \in Workers, SwapDone(w)
        PROVE  TypeOK'
    <2>1. ThreadTypes'
      BY <1>32, WorkerMoves DEF SwapDone, WorkerPC
    <2>2. PoolTypes'
      BY <1>32 DEF SwapDone, TypeOK, PoolTypes, ItemTypes
    <2>3. ItemTypes'
      BY <1>32 DEF SwapDone, TypeOK, ItemTypes, Processed
    <2>4. StatTypes'
      BY <1>32, BoundsAssumption DEF SwapDone, TypeOK, StatTypes, Processed, Cap
    <2> QED  BY <1>32, <2>1, <2>2, <2>3, <2>4, Unchanged DEF SwapDone, TypeOK
  <1>33. ASSUME NEW s \in Settings, Set(s[1], s[2])
        PROVE  TypeOK'
    <2>1. SwapTypes'
      <3>1. UNCHANGED swap_read
        BY <1>33 DEF Set
      <3>2. CASE UNCHANGED <<swap_write, swap_open>>
        BY <3>1, <3>2, Unchanged DEF swapVars
      <3>3. CASE ~UNCHANGED <<swap_write, swap_open>>
        <4>1. swap_write' = [w \in Workers |-> <<>>]
          BY <1>33, <3>3 DEF Set
        <4>2. swap_open' \in [Workers -> BOOLEAN]
          BY <1>33, <3>3 DEF Set
        <4> QED  BY <3>1, <4>1, <4>2 DEF TypeOK, SwapTypes
      <3> QED  BY <3>2, <3>3
    <2>2. PoolTypes'
      <3>1. /\ s[1] \in Settable /\ s[2] \in PropType
            /\ s[2].num > 0 => s[2].denom > 0
        BY PropsAssumption
      <3>2. props' \in PropType /\ (props'.num > 0 => props'.denom > 0)
        BY <1>33, <3>1 DEF Set, TypeOK, PoolTypes, PropType, Settable
      <3>3. /\ swapped' \in Int
            /\ UNCHANGED <<state, incomplete, errored>>
        BY <1>33 DEF Set, TypeOK, PoolTypes
      <3> QED  BY <3>2, <3>3 DEF TypeOK, PoolTypes
    <2> QED  BY <1>33, <2>1, <2>2, Unchanged DEF Set, TypeOK
  <1>34. ASSUME NEW i \in Items, UserEnqueue(i)
        PROVE  TypeOK'
    <2>1. ThreadTypes'
      BY <1>34, MainMoves DEF UserEnqueue, EnqueuePC
    <2>2. EnqTypes'
      BY <1>34, Distinct DEF UserEnqueue, TypeOK, EnqTypes, Work
    <2> QED  BY <1>34, <2>1, <2>2, Unchanged DEF UserEnqueue, TypeOK
  <1>35. ASSUME NEW i \in Items, NEW q \in {"WAIT", "SWAP"}, UserEnqueueHere(i, q)
        PROVE  TypeOK'
    <2>1. ThreadTypes'
      BY <1>35, MainMoves DEF UserEnqueueHere, EnqueuePC
    <2>2. EnqTypes'
      BY <1>35, Distinct, ItemsAssumption DEF UserEnqueueHere, TypeOK, EnqTypes, Work
    <2> QED  BY <1>35, <2>1, <2>2, Unchanged DEF UserEnqueueHere, TypeOK
  <1>36. ASSUME NEW k \in 0 .. NThreads, Start(k)
        PROVE  TypeOK'
    <2>1. ThreadTypes'
      BY <1>36, Distinct DEF Start, TypeOK, ThreadTypes, WorkerPC, MainPC
    <2>2. PoolTypes'
      BY <1>36 DEF Start, TypeOK, PoolTypes
    <2>3. MainTypes'
      BY <1>36, BoundsAssumption DEF Start, TypeOK, MainTypes
    <2> QED  BY <1>36, <2>1, <2>2, <2>3, Unchanged DEF Start, TypeOK
  <1>37. ASSUME NEW c \in {"wait_mem", "wait", "stop"}, NEW n \in LteCounts \cup {0}, UserWait(c, n)
        PROVE  TypeOK'
    <2>1. ThreadTypes'
      BY <1>37, MainMoves DEF UserWait, MainPC
    <2>2. MainTypes'
      BY <1>37, BoundsAssumption DEF UserWait, TypeOK, MainTypes
    <2> QED  BY <1>37, <2>1, <2>2, Unchanged DEF UserWait, TypeOK
  <1>38. ASSUME WaitMem
        PROVE  TypeOK'
    <2>1. ThreadTypes'
      BY <1>38, MainMoves DEF WaitMem, MainPC
    <2>2. MainTypes'
      BY <1>38 DEF WaitMem, TypeOK, MainTypes
    <2> QED  BY <1>38, <2>1, <2>2, Unchanged DEF WaitMem, TypeOK
  <1>39. ASSUME SpuriousMainWakeup
        PROVE  TypeOK'
    <2>1. ThreadTypes'
      BY <1>39, MainMoves DEF SpuriousMainWakeup, MainPC
    <2> QED  BY <1>39, <2>1, Unchanged DEF SpuriousMainWakeup, TypeOK
  <1>40. ASSUME SwapRound
        PROVE  TypeOK'
    <2>1. ThreadTypes'
      BY <1>40, MainMoves DEF SwapRound, EnqueuePC
    <2>2. EnqTypes'
      BY <1>40, Distinct DEF SwapRound, TypeOK, EnqTypes, Work
    <2> QED  BY <1>40, <2>1, <2>2, Unchanged DEF SwapRound, TypeOK
  <1>41. ASSUME WaitReturns
        PROVE  TypeOK'
    <2>1. ThreadTypes'
      BY <1>41, MainMoves DEF WaitReturns, MainPC
    <2>2. MainTypes'
      BY <1>41 DEF WaitReturns, TypeOK, MainTypes
    <2> QED  BY <1>41, <2>1, <2>2, Unchanged DEF WaitReturns, TypeOK
  <1>42. ASSUME SetStopping
        PROVE  TypeOK'
    <2>1. ThreadTypes'
      BY <1>42, MainMoves, Distinct DEF SetStopping, MainPC
    <2>2. PoolTypes'
      BY <1>42 DEF SetStopping, TypeOK, PoolTypes
    <2> QED  BY <1>42, <2>1, <2>2, Unchanged DEF SetStopping, TypeOK
  <1>43. ASSUME StopBroadcast
        PROVE  TypeOK'
    <2>1. ThreadTypes'
      BY <1>43, Distinct DEF StopBroadcast, TypeOK, ThreadTypes, Woken, WorkerPC,
         MainPC, Workers
    <2> QED  BY <1>43, <2>1, Unchanged DEF StopBroadcast, TypeOK
  <1>44. ASSUME Join
        PROVE  TypeOK'
    <2>1. ThreadTypes'
      BY <1>44, MainMoves DEF Join, MainPC
    <2>2. MainTypes'
      BY <1>44 DEF Join, TypeOK, MainTypes
    <2> QED  BY <1>44, <2>1, <2>2, Unchanged DEF Join, TypeOK
  <1>45. ASSUME Destroy
        PROVE  TypeOK'
    <2>1. ThreadTypes'
      BY <1>45, MainMoves DEF Destroy, MainPC
    <2>2. QueueTypes'
      BY <1>45 DEF Destroy, QueueTypes
    <2>3. SwapTypes'
      BY <1>45 DEF Destroy, SwapTypes
    <2>4. StatTypes'
      BY <1>45, BoundsAssumption DEF Destroy, StatTypes
    <2> QED  BY <1>45, <2>1, <2>2, <2>3, <2>4, Unchanged DEF Destroy, TypeOK
  <1>46. CASE UNCHANGED vars
    BY <1>46, Unchanged DEF TypeOK, vars
  <1> QED
    BY <1>1, <1>2, <1>3, <1>4, <1>5, <1>6, <1>7, <1>8, <1>9, <1>10, <1>11, <1>12, <1>13,
       <1>14, <1>15, <1>16, <1>17, <1>18, <1>19, <1>20, <1>21, <1>22, <1>23, <1>24,
       <1>25, <1>26, <1>27, <1>28, <1>29, <1>30, <1>31, <1>32, <1>33, <1>34, <1>35,
       <1>36, <1>37, <1>38, <1>39, <1>40, <1>41, <1>42, <1>43, <1>44, <1>45, <1>46
    DEF Next, EnqueueSteps, WorkerSteps, WaitSteps, UserSteps, Terminated

-----------------------------------------------------------------------------
(* The rest of the inductive invariant.                                     *)

\* An enqueue in progress keeps its work item, and a Token its queue.
LEMMA EnqueueStep ==
    ASSUME IInv, [Next]_vars
    PROVE  EnqueueInv'
  <1>1. ASSUME NEW p \in Procs, Enqueue(p)
       PROVE  EnqueueInv'
    BY <1>1, TokenFacts DEF Enqueue, Goto, EnqueueInv, TypeOK, ThreadTypes, EnqTypes,
       Return, IInv
  <1>2. ASSUME NEW p \in Procs, LockTarget(p)
       PROVE  EnqueueInv'
    BY <1>2 DEF LockTarget, Goto, EnqueueInv, enqVars, IInv
  <1>3. ASSUME NEW p \in Procs, LockHere(p)
       PROVE  EnqueueInv'
    BY <1>3, TokenFacts DEF LockHere, Goto, EnqueueInv, TypeOK, ThreadTypes, EnqTypes,
       enqVars, Return, IInv
  <1>4. ASSUME NEW p \in Procs, PlaceInMemory(p)
       PROVE  EnqueueInv'
    BY <1>4 DEF PlaceInMemory, Goto, EnqueueInv, enqVars, IInv
  <1>5. ASSUME NEW p \in Procs, PlaceInSwap(p)
       PROVE  EnqueueInv'
    BY <1>5 DEF PlaceInSwap, Goto, EnqueueInv, enqVars, IInv
  <1>6. ASSUME NEW p \in Procs, PlaceFails(p)
       PROVE  EnqueueInv'
    BY <1>6 DEF PlaceFails, Goto, EnqueueInv, enqVars, IInv
  <1>7. ASSUME NEW p \in Procs, WakeTarget(p)
       PROVE  EnqueueInv'
    BY <1>7, TokenFacts DEF WakeTarget, Goto, EnqueueInv, TypeOK, ThreadTypes, EnqTypes,
       enqVars, Return, MoreTokens, Woken, IInv
  <1>8. ASSUME NEW w \in Workers, LockThread(w)
       PROVE  EnqueueInv'
    BY <1>8 DEF LockThread, Goto, EnqueueInv, enqVars, IInv
  <1>9. ASSUME NEW w \in Workers, LockPool(w)
       PROVE  EnqueueInv'
    BY <1>9 DEF LockPool, Goto, EnqueueInv, enqVars, IInv
  <1>10. ASSUME NEW w \in Workers, StealNothing(w)
        PROVE  EnqueueInv'
    BY <1>10 DEF StealNothing, Goto, EnqueueInv, enqVars, IInv
  <1>11. ASSUME NEW w \in Workers, StealWaiting(w)
        PROVE  EnqueueInv'
    BY <1>11 DEF StealWaiting, Goto, EnqueueInv, enqVars, IInv
  <1>12. ASSUME NEW w \in Workers, StealClaimed(w)
        PROVE  EnqueueInv'
    BY <1>12 DEF StealClaimed, Goto, EnqueueInv, enqVars, IInv
  <1>13. ASSUME NEW w \in Workers, Sleep(w)
        PROVE  EnqueueInv'
    BY <1>13 DEF Sleep, Goto, EnqueueInv, enqVars, IInv
  <1>14. ASSUME NEW w \in Workers, SpuriousWakeup(w)
        PROVE  EnqueueInv'
    BY <1>14 DEF SpuriousWakeup, Goto, EnqueueInv, enqVars, IInv
  <1>15. ASSUME NEW w \in Workers, Reacquire(w)
        PROVE  EnqueueInv'
    BY <1>15 DEF Reacquire, Goto, EnqueueInv, enqVars, IInv
  <1>16. ASSUME NEW w \in Workers, Relock(w)
        PROVE  EnqueueInv'
    BY <1>16 DEF Relock, Goto, EnqueueInv, enqVars, IInv
  <1>17. ASSUME NEW w \in Workers, Leave(w)
        PROVE  EnqueueInv'
    BY <1>17 DEF Leave, Goto, EnqueueInv, enqVars, IInv
  <1>18. ASSUME NEW w \in Workers, Proceed(w)
        PROVE  EnqueueInv'
    BY <1>18 DEF Proceed, Goto, EnqueueInv, enqVars, IInv
  <1>19. ASSUME NEW w \in Workers, ClaimWork(w)
        PROVE  EnqueueInv'
    BY <1>19 DEF ClaimWork, Goto, EnqueueInv, enqVars, IInv
  <1>20. ASSUME NEW w \in Workers, PopWork(w)
        PROVE  EnqueueInv'
    BY <1>20 DEF PopWork, Goto, EnqueueInv, enqVars, IInv
  <1>21. ASSUME NEW w \in Workers, PopNothing(w)
        PROVE  EnqueueInv'
    BY <1>21 DEF PopNothing, Goto, EnqueueInv, enqVars, IInv
  <1>22. ASSUME NEW w \in Workers, Spawn(w)
        PROVE  EnqueueInv'
    <2>1. Head(todo[w]) \in Items
      BY <1>22, HeadTailProperties DEF IInv, Spawn, TypeOK, ItemTypes
    <2>2. Head(todo[w]) \in Work /\ Head(todo[w]) # Token
      BY <2>1, ItemsAssumption DEF Work
    <2> QED
      BY <1>22, <2>2, Distinct DEF IInv, Spawn, Goto, EnqueueInv, TypeOK, ThreadTypes,
         EnqTypes
  <1>23. ASSUME NEW w \in Workers, RunSucceeds(w)
        PROVE  EnqueueInv'
    BY <1>23 DEF RunSucceeds, Goto, EnqueueInv, enqVars, IInv
  <1>24. ASSUME NEW w \in Workers, RunFails(w)
        PROVE  EnqueueInv'
    BY <1>24 DEF RunFails, Goto, EnqueueInv, enqVars, IInv
  <1>25. ASSUME NEW w \in Workers, SetErrored(w)
        PROVE  EnqueueInv'
    BY <1>25 DEF SetErrored, Goto, EnqueueInv, enqVars, IInv
  <1>26. ASSUME NEW w \in Workers, Account(w)
        PROVE  EnqueueInv'
    BY <1>26 DEF Account, Goto, EnqueueInv, TypeOK, ThreadTypes, enqVars, MainWoken,
       IInv
  <1>27. ASSUME NEW w \in Workers, ExitBroadcast(w)
        PROVE  EnqueueInv'
    BY <1>27 DEF ExitBroadcast, Goto, EnqueueInv, TypeOK, ThreadTypes, enqVars, Woken,
       IInv
  <1>28. ASSUME NEW w \in Workers, SwapEmpty(w)
        PROVE  EnqueueInv'
    BY <1>28 DEF SwapEmpty, Goto, EnqueueInv, enqVars, IInv
  <1>29. ASSUME NEW w \in Workers, SwapPrep(w)
        PROVE  EnqueueInv'
    BY <1>29 DEF SwapPrep, Goto, EnqueueInv, enqVars, IInv
  <1>30. ASSUME NEW w \in Workers, SwapPrepFails(w)
        PROVE  EnqueueInv'
    BY <1>30 DEF SwapPrepFails, Goto, EnqueueInv, enqVars, IInv
  <1>31. ASSUME NEW w \in Workers, SwapRead(w)
        PROVE  EnqueueInv'
    <2>1. Head(swap_read[w]) \in Items
      BY <1>31, HeadTailProperties DEF IInv, SwapRead, TypeOK, SwapTypes
    <2>2. Head(swap_read[w]) \in Work /\ Head(swap_read[w]) # Token
      BY <2>1, ItemsAssumption DEF Work
    <2> QED
      BY <1>31, <2>2, Distinct DEF IInv, SwapRead, Goto, EnqueueInv, TypeOK,
         ThreadTypes, EnqTypes
  <1>32. ASSUME NEW w \in Workers, SwapDone(w)
        PROVE  EnqueueInv'
    BY <1>32 DEF SwapDone, Goto, EnqueueInv, enqVars, IInv
  <1>33. ASSUME NEW s \in Settings, Set(s[1], s[2])
        PROVE  EnqueueInv'
    BY <1>33 DEF Set, Goto, EnqueueInv, enqVars, IInv
  <1>34. ASSUME NEW i \in Items, UserEnqueue(i)
        PROVE  EnqueueInv'
    <2>1. i \in Work /\ i # Token
      BY ItemsAssumption DEF Work
    <2> QED
      BY <1>34, <2>1, Distinct DEF IInv, UserEnqueue, Goto, EnqueueInv, TypeOK,
         ThreadTypes, EnqTypes
  <1>35. ASSUME NEW i \in Items, NEW q \in {"WAIT", "SWAP"}, UserEnqueueHere(i, q)
        PROVE  EnqueueInv'
    <2>1. i \in Work /\ i # Token
      BY ItemsAssumption DEF Work
    <2> QED
      BY <1>35, <2>1, Distinct DEF IInv, UserEnqueueHere, Goto, EnqueueInv, TypeOK,
         ThreadTypes, EnqTypes
  <1>36. ASSUME NEW k \in 0 .. NThreads, Start(k)
        PROVE  EnqueueInv'
    BY <1>36 DEF Start, Goto, EnqueueInv, enqVars, IInv
  <1>37. ASSUME NEW c \in {"wait_mem", "wait", "stop"}, NEW n \in LteCounts \cup {0}, UserWait(c, n)
        PROVE  EnqueueInv'
    BY <1>37 DEF UserWait, Goto, EnqueueInv, enqVars, IInv
  <1>38. ASSUME WaitMem
        PROVE  EnqueueInv'
    BY <1>38 DEF WaitMem, Goto, EnqueueInv, enqVars, IInv
  <1>39. ASSUME SpuriousMainWakeup
        PROVE  EnqueueInv'
    BY <1>39 DEF SpuriousMainWakeup, Goto, EnqueueInv, enqVars, IInv
  <1>40. ASSUME SwapRound
        PROVE  EnqueueInv'
    BY <1>40, Distinct DEF IInv, SwapRound, Goto, EnqueueInv, TypeOK, ThreadTypes,
       EnqTypes, Work
  <1>41. ASSUME WaitReturns
        PROVE  EnqueueInv'
    BY <1>41 DEF WaitReturns, Goto, EnqueueInv, enqVars, IInv
  <1>42. ASSUME SetStopping
        PROVE  EnqueueInv'
    BY <1>42 DEF SetStopping, Goto, EnqueueInv, enqVars, IInv
  <1>43. ASSUME StopBroadcast
        PROVE  EnqueueInv'
    BY <1>43 DEF StopBroadcast, Goto, EnqueueInv, TypeOK, ThreadTypes, enqVars, Woken,
       IInv
  <1>44. ASSUME Join
        PROVE  EnqueueInv'
    BY <1>44 DEF Join, Goto, EnqueueInv, enqVars, IInv
  <1>45. ASSUME Destroy
        PROVE  EnqueueInv'
    BY <1>45 DEF Destroy, Goto, EnqueueInv, enqVars, IInv
  <1>46. CASE UNCHANGED vars
    BY <1>46 DEF IInv, EnqueueInv, vars, enqVars
  <1> QED
    BY <1>1, <1>2, <1>3, <1>4, <1>5, <1>6, <1>7, <1>8, <1>9, <1>10, <1>11, <1>12,
       <1>13, <1>14, <1>15, <1>16, <1>17, <1>18, <1>19, <1>20, <1>21, <1>22, <1>23,
       <1>24, <1>25, <1>26, <1>27, <1>28, <1>29, <1>30, <1>31, <1>32, <1>33, <1>34,
       <1>35, <1>36, <1>37, <1>38, <1>39, <1>40, <1>41, <1>42, <1>43, <1>44, <1>45,
       <1>46
    DEF Next, EnqueueSteps, WorkerSteps, WaitSteps, UserSteps, Terminated

\* Threads run only between a start and the join that ends them.
LEMMA StartedStep ==
    ASSUME IInv, [Next]_vars
    PROVE  StartedInv'
  <1>1. ASSUME NEW p \in Procs, Enqueue(p)
       PROVE  StartedInv'
    BY <1>1, Distinct DEF Enqueue, Goto, StartedInv, TypeOK, ThreadTypes, poolVars,
       mainVars, Return, IInv
  <1>2. ASSUME NEW p \in Procs, LockTarget(p)
       PROVE  StartedInv'
    BY <1>2 DEF LockTarget, Goto, StartedInv, poolVars, mainVars, IInv
  <1>3. ASSUME NEW p \in Procs, LockHere(p)
       PROVE  StartedInv'
    BY <1>3, Distinct DEF LockHere, Goto, StartedInv, TypeOK, ThreadTypes, poolVars,
       mainVars, Return, IInv
  <1>4. ASSUME NEW p \in Procs, PlaceInMemory(p)
       PROVE  StartedInv'
    BY <1>4 DEF PlaceInMemory, Goto, StartedInv, mainVars, IInv
  <1>5. ASSUME NEW p \in Procs, PlaceInSwap(p)
       PROVE  StartedInv'
    BY <1>5 DEF PlaceInSwap, Goto, StartedInv, mainVars, IInv
  <1>6. ASSUME NEW p \in Procs, PlaceFails(p)
       PROVE  StartedInv'
    BY <1>6 DEF PlaceFails, Goto, StartedInv, poolVars, mainVars, IInv
  <1>7. ASSUME NEW p \in Procs, WakeTarget(p)
       PROVE  StartedInv'
    BY <1>7, Distinct DEF WakeTarget, Goto, StartedInv, TypeOK, ThreadTypes, poolVars,
       mainVars, Return, Woken, IInv
  <1>8. ASSUME NEW w \in Workers, LockThread(w)
       PROVE  StartedInv'
    BY <1>8 DEF LockThread, Goto, StartedInv, poolVars, mainVars, IInv
  <1>9. ASSUME NEW w \in Workers, LockPool(w)
       PROVE  StartedInv'
    BY <1>9 DEF LockPool, Goto, StartedInv, poolVars, mainVars, IInv
  <1>10. ASSUME NEW w \in Workers, StealNothing(w)
        PROVE  StartedInv'
    BY <1>10 DEF StealNothing, Goto, StartedInv, poolVars, mainVars, IInv
  <1>11. ASSUME NEW w \in Workers, StealWaiting(w)
        PROVE  StartedInv'
    BY <1>11 DEF StealWaiting, Goto, StartedInv, poolVars, mainVars, IInv
  <1>12. ASSUME NEW w \in Workers, StealClaimed(w)
        PROVE  StartedInv'
    BY <1>12 DEF StealClaimed, Goto, StartedInv, poolVars, mainVars, IInv
  <1>13. ASSUME NEW w \in Workers, Sleep(w)
        PROVE  StartedInv'
    BY <1>13 DEF Sleep, Goto, StartedInv, poolVars, mainVars, IInv
  <1>14. ASSUME NEW w \in Workers, SpuriousWakeup(w)
        PROVE  StartedInv'
    BY <1>14 DEF SpuriousWakeup, Goto, StartedInv, poolVars, mainVars, IInv
  <1>15. ASSUME NEW w \in Workers, Reacquire(w)
        PROVE  StartedInv'
    BY <1>15 DEF Reacquire, Goto, StartedInv, poolVars, mainVars, IInv
  <1>16. ASSUME NEW w \in Workers, Relock(w)
        PROVE  StartedInv'
    BY <1>16 DEF Relock, Goto, StartedInv, poolVars, mainVars, IInv
  <1>17. ASSUME NEW w \in Workers, Leave(w)
        PROVE  StartedInv'
    BY <1>17 DEF Leave, Goto, StartedInv, poolVars, mainVars, IInv
  <1>18. ASSUME NEW w \in Workers, Proceed(w)
        PROVE  StartedInv'
    BY <1>18 DEF Proceed, Goto, StartedInv, poolVars, mainVars, IInv
  <1>19. ASSUME NEW w \in Workers, ClaimWork(w)
        PROVE  StartedInv'
    BY <1>19 DEF ClaimWork, Goto, StartedInv, poolVars, mainVars, IInv
  <1>20. ASSUME NEW w \in Workers, PopWork(w)
        PROVE  StartedInv'
    BY <1>20 DEF PopWork, Goto, StartedInv, poolVars, mainVars, IInv
  <1>21. ASSUME NEW w \in Workers, PopNothing(w)
        PROVE  StartedInv'
    BY <1>21 DEF PopNothing, Goto, StartedInv, poolVars, mainVars, IInv
  <1>22. ASSUME NEW w \in Workers, Spawn(w)
        PROVE  StartedInv'
    BY <1>22 DEF Spawn, Goto, StartedInv, poolVars, mainVars, IInv
  <1>23. ASSUME NEW w \in Workers, RunSucceeds(w)
        PROVE  StartedInv'
    BY <1>23 DEF RunSucceeds, Goto, StartedInv, poolVars, mainVars, IInv
  <1>24. ASSUME NEW w \in Workers, RunFails(w)
        PROVE  StartedInv'
    BY <1>24 DEF RunFails, Goto, StartedInv, poolVars, mainVars, IInv
  <1>25. ASSUME NEW w \in Workers, SetErrored(w)
        PROVE  StartedInv'
    BY <1>25 DEF SetErrored, Goto, StartedInv, mainVars, IInv
  <1>26. ASSUME NEW w \in Workers, Account(w)
        PROVE  StartedInv'
    BY <1>26, Distinct DEF Account, Goto, StartedInv, TypeOK, ThreadTypes, mainVars,
       MainWoken, IInv
  <1>27. ASSUME NEW w \in Workers, ExitBroadcast(w)
        PROVE  StartedInv'
    BY <1>27, Distinct DEF ExitBroadcast, Goto, StartedInv, TypeOK, ThreadTypes,
       poolVars, mainVars, Woken, IInv
  <1>28. ASSUME NEW w \in Workers, SwapEmpty(w)
        PROVE  StartedInv'
    BY <1>28 DEF SwapEmpty, Goto, StartedInv, poolVars, mainVars, IInv
  <1>29. ASSUME NEW w \in Workers, SwapPrep(w)
        PROVE  StartedInv'
    BY <1>29 DEF SwapPrep, Goto, StartedInv, poolVars, mainVars, IInv
  <1>30. ASSUME NEW w \in Workers, SwapPrepFails(w)
        PROVE  StartedInv'
    BY <1>30 DEF SwapPrepFails, Goto, StartedInv, poolVars, mainVars, IInv
  <1>31. ASSUME NEW w \in Workers, SwapRead(w)
        PROVE  StartedInv'
    BY <1>31 DEF SwapRead, Goto, StartedInv, poolVars, mainVars, IInv
  <1>32. ASSUME NEW w \in Workers, SwapDone(w)
        PROVE  StartedInv'
    BY <1>32 DEF SwapDone, Goto, StartedInv, mainVars, IInv
  <1>33. ASSUME NEW s \in Settings, Set(s[1], s[2])
        PROVE  StartedInv'
    BY <1>33 DEF Set, Goto, StartedInv, IInv
  <1>34. ASSUME NEW i \in Items, UserEnqueue(i)
        PROVE  StartedInv'
    BY <1>34 DEF UserEnqueue, Goto, StartedInv, poolVars, mainVars, IInv
  <1>35. ASSUME NEW i \in Items, NEW q \in {"WAIT", "SWAP"}, UserEnqueueHere(i, q)
        PROVE  StartedInv'
    BY <1>35 DEF UserEnqueueHere, Goto, StartedInv, poolVars, mainVars, IInv
  <1>36. ASSUME NEW k \in 0 .. NThreads, Start(k)
        PROVE  StartedInv'
    <2>1. \A w \in Workers : pc[w] \in {"idle", "gone"}
      BY <1>36 DEF IInv, Start, StartedInv
    <2>2. \A w \in Workers : w >= k => pc'[w] = pc[w]
      BY <1>36, Distinct DEF Start, Workers
    <2>3. state' = "RUNNING" /\ started' = k /\ pc'[Main] \notin {"stop_wake", "join"}
      BY <1>36, Distinct DEF Start
    <2> QED  BY <2>1, <2>2, <2>3 DEF IInv, StartedInv
  <1>37. ASSUME NEW c \in {"wait_mem", "wait", "stop"}, NEW n \in LteCounts \cup {0}, UserWait(c, n)
        PROVE  StartedInv'
    BY <1>37 DEF UserWait, Goto, StartedInv, poolVars, IInv
  <1>38. ASSUME WaitMem
        PROVE  StartedInv'
    BY <1>38 DEF WaitMem, Goto, StartedInv, poolVars, IInv
  <1>39. ASSUME SpuriousMainWakeup
        PROVE  StartedInv'
    BY <1>39 DEF SpuriousMainWakeup, Goto, StartedInv, poolVars, mainVars, IInv
  <1>40. ASSUME SwapRound
        PROVE  StartedInv'
    BY <1>40 DEF SwapRound, Goto, StartedInv, poolVars, mainVars, IInv
  <1>41. ASSUME WaitReturns
        PROVE  StartedInv'
    BY <1>41 DEF WaitReturns, Goto, StartedInv, poolVars, IInv
  <1>42. ASSUME SetStopping
        PROVE  StartedInv'
    BY <1>42, Distinct DEF SetStopping, Goto, StartedInv, TypeOK, ThreadTypes, mainVars,
       IInv
  <1>43. ASSUME StopBroadcast
        PROVE  StartedInv'
    BY <1>43, Distinct DEF StopBroadcast, Goto, StartedInv, TypeOK, ThreadTypes,
       poolVars, mainVars, Woken, IInv
  <1>44. ASSUME Join
        PROVE  StartedInv'
    <2>1. \A w \in Workers : w < started \/ w >= started
      BY DEF IInv, Workers, TypeOK, MainTypes
    <2>2. \A w \in Workers : pc[w] \in {"idle", "gone"}
      BY <1>44, <2>1 DEF IInv, Join, StartedInv
    <2>3. /\ \A w \in Workers : pc'[w] = pc[w]
          /\ pc'[Main] = "user"
      BY <1>44, Distinct DEF IInv, Join, Goto, TypeOK, ThreadTypes
    <2> QED  BY <2>2, <2>3 DEF IInv, StartedInv
  <1>45. ASSUME Destroy
        PROVE  StartedInv'
    BY <1>45 DEF Destroy, Goto, StartedInv, IInv
  <1>46. CASE UNCHANGED vars
    BY <1>46 DEF IInv, StartedInv, vars, poolVars, mainVars
  <1> QED
    BY <1>1, <1>2, <1>3, <1>4, <1>5, <1>6, <1>7, <1>8, <1>9, <1>10, <1>11, <1>12,
       <1>13, <1>14, <1>15, <1>16, <1>17, <1>18, <1>19, <1>20, <1>21, <1>22, <1>23,
       <1>24, <1>25, <1>26, <1>27, <1>28, <1>29, <1>30, <1>31, <1>32, <1>33, <1>34,
       <1>35, <1>36, <1>37, <1>38, <1>39, <1>40, <1>41, <1>42, <1>43, <1>44, <1>45,
       <1>46
    DEF Next, EnqueueSteps, WorkerSteps, WaitSteps, UserSteps, Terminated

\* The properties do not change under a thread that is stealing.
LEMMA StealStep ==
    ASSUME IInv, [Next]_vars
    PROVE  StealInv'
  <1>1. ASSUME NEW p \in Procs, Enqueue(p)
       PROVE  StealInv'
    BY <1>1, Distinct DEF Enqueue, Goto, StealInv, TypeOK, ThreadTypes, poolVars,
       Return, IInv
  <1>2. ASSUME NEW p \in Procs, LockTarget(p)
       PROVE  StealInv'
    BY <1>2 DEF LockTarget, Goto, StealInv, poolVars, IInv
  <1>3. ASSUME NEW p \in Procs, LockHere(p)
       PROVE  StealInv'
    BY <1>3, Distinct DEF LockHere, Goto, StealInv, TypeOK, ThreadTypes, poolVars,
       Return, IInv
  <1>4. ASSUME NEW p \in Procs, PlaceInMemory(p)
       PROVE  StealInv'
    BY <1>4 DEF PlaceInMemory, Goto, StealInv, IInv
  <1>5. ASSUME NEW p \in Procs, PlaceInSwap(p)
       PROVE  StealInv'
    BY <1>5 DEF PlaceInSwap, Goto, StealInv, IInv
  <1>6. ASSUME NEW p \in Procs, PlaceFails(p)
       PROVE  StealInv'
    BY <1>6 DEF PlaceFails, Goto, StealInv, poolVars, IInv
  <1>7. ASSUME NEW p \in Procs, WakeTarget(p)
       PROVE  StealInv'
    BY <1>7, Distinct DEF WakeTarget, Goto, StealInv, TypeOK, ThreadTypes, poolVars,
       Return, Woken, IInv
  <1>8. ASSUME NEW w \in Workers, LockThread(w)
       PROVE  StealInv'
    BY <1>8 DEF LockThread, Goto, StealInv, poolVars, IInv
  <1>9. ASSUME NEW w \in Workers, LockPool(w)
       PROVE  StealInv'
    BY <1>9 DEF LockPool, Goto, StealInv, MaySteal, TypeOK, ThreadTypes, poolVars, IInv
  <1>10. ASSUME NEW w \in Workers, StealNothing(w)
        PROVE  StealInv'
    BY <1>10 DEF StealNothing, Goto, StealInv, poolVars, IInv
  <1>11. ASSUME NEW w \in Workers, StealWaiting(w)
        PROVE  StealInv'
    BY <1>11 DEF StealWaiting, Goto, StealInv, poolVars, IInv
  <1>12. ASSUME NEW w \in Workers, StealClaimed(w)
        PROVE  StealInv'
    BY <1>12 DEF StealClaimed, Goto, StealInv, poolVars, IInv
  <1>13. ASSUME NEW w \in Workers, Sleep(w)
        PROVE  StealInv'
    BY <1>13 DEF Sleep, Goto, StealInv, poolVars, IInv
  <1>14. ASSUME NEW w \in Workers, SpuriousWakeup(w)
        PROVE  StealInv'
    BY <1>14 DEF SpuriousWakeup, Goto, StealInv, poolVars, IInv
  <1>15. ASSUME NEW w \in Workers, Reacquire(w)
        PROVE  StealInv'
    BY <1>15 DEF Reacquire, Goto, StealInv, poolVars, IInv
  <1>16. ASSUME NEW w \in Workers, Relock(w)
        PROVE  StealInv'
    BY <1>16 DEF Relock, Goto, StealInv, poolVars, IInv
  <1>17. ASSUME NEW w \in Workers, Leave(w)
        PROVE  StealInv'
    BY <1>17 DEF Leave, Goto, StealInv, poolVars, IInv
  <1>18. ASSUME NEW w \in Workers, Proceed(w)
        PROVE  StealInv'
    BY <1>18 DEF Proceed, Goto, StealInv, poolVars, IInv
  <1>19. ASSUME NEW w \in Workers, ClaimWork(w)
        PROVE  StealInv'
    BY <1>19 DEF ClaimWork, Goto, StealInv, poolVars, IInv
  <1>20. ASSUME NEW w \in Workers, PopWork(w)
        PROVE  StealInv'
    BY <1>20 DEF PopWork, Goto, StealInv, poolVars, IInv
  <1>21. ASSUME NEW w \in Workers, PopNothing(w)
        PROVE  StealInv'
    BY <1>21 DEF PopNothing, Goto, StealInv, poolVars, IInv
  <1>22. ASSUME NEW w \in Workers, Spawn(w)
        PROVE  StealInv'
    BY <1>22 DEF Spawn, Goto, StealInv, poolVars, IInv
  <1>23. ASSUME NEW w \in Workers, RunSucceeds(w)
        PROVE  StealInv'
    BY <1>23 DEF RunSucceeds, Goto, StealInv, poolVars, IInv
  <1>24. ASSUME NEW w \in Workers, RunFails(w)
        PROVE  StealInv'
    BY <1>24 DEF RunFails, Goto, StealInv, poolVars, IInv
  <1>25. ASSUME NEW w \in Workers, SetErrored(w)
        PROVE  StealInv'
    BY <1>25 DEF SetErrored, Goto, StealInv, IInv
  <1>26. ASSUME NEW w \in Workers, Account(w)
        PROVE  StealInv'
    BY <1>26, Distinct DEF Account, Goto, StealInv, TypeOK, ThreadTypes, MainWoken, IInv
  <1>27. ASSUME NEW w \in Workers, ExitBroadcast(w)
        PROVE  StealInv'
    BY <1>27, Distinct DEF ExitBroadcast, Goto, StealInv, TypeOK, ThreadTypes, poolVars,
       Woken, IInv
  <1>28. ASSUME NEW w \in Workers, SwapEmpty(w)
        PROVE  StealInv'
    BY <1>28 DEF SwapEmpty, Goto, StealInv, poolVars, IInv
  <1>29. ASSUME NEW w \in Workers, SwapPrep(w)
        PROVE  StealInv'
    BY <1>29 DEF SwapPrep, Goto, StealInv, poolVars, IInv
  <1>30. ASSUME NEW w \in Workers, SwapPrepFails(w)
        PROVE  StealInv'
    BY <1>30 DEF SwapPrepFails, Goto, StealInv, poolVars, IInv
  <1>31. ASSUME NEW w \in Workers, SwapRead(w)
        PROVE  StealInv'
    BY <1>31 DEF SwapRead, Goto, StealInv, poolVars, IInv
  <1>32. ASSUME NEW w \in Workers, SwapDone(w)
        PROVE  StealInv'
    BY <1>32 DEF SwapDone, Goto, StealInv, IInv
  <1>33. ASSUME NEW s \in Settings, Set(s[1], s[2])
        PROVE  StealInv'
    BY <1>33 DEF Set, Goto, StealInv, StartedInv, MaySteal, TypeOK, ThreadTypes,
       poolVars, IInv
  <1>34. ASSUME NEW i \in Items, UserEnqueue(i)
        PROVE  StealInv'
    BY <1>34 DEF UserEnqueue, Goto, StealInv, poolVars, IInv
  <1>35. ASSUME NEW i \in Items, NEW q \in {"WAIT", "SWAP"}, UserEnqueueHere(i, q)
        PROVE  StealInv'
    BY <1>35 DEF UserEnqueueHere, Goto, StealInv, poolVars, IInv
  <1>36. ASSUME NEW k \in 0 .. NThreads, Start(k)
        PROVE  StealInv'
    BY <1>36, Distinct DEF Start, Goto, StealInv, IInv
  <1>37. ASSUME NEW c \in {"wait_mem", "wait", "stop"}, NEW n \in LteCounts \cup {0}, UserWait(c, n)
        PROVE  StealInv'
    BY <1>37 DEF UserWait, Goto, StealInv, poolVars, IInv
  <1>38. ASSUME WaitMem
        PROVE  StealInv'
    BY <1>38 DEF WaitMem, Goto, StealInv, poolVars, IInv
  <1>39. ASSUME SpuriousMainWakeup
        PROVE  StealInv'
    BY <1>39 DEF SpuriousMainWakeup, Goto, StealInv, poolVars, IInv
  <1>40. ASSUME SwapRound
        PROVE  StealInv'
    BY <1>40 DEF SwapRound, Goto, StealInv, poolVars, IInv
  <1>41. ASSUME WaitReturns
        PROVE  StealInv'
    BY <1>41 DEF WaitReturns, Goto, StealInv, poolVars, IInv
  <1>42. ASSUME SetStopping
        PROVE  StealInv'
    BY <1>42 DEF SetStopping, Goto, StealInv, IInv
  <1>43. ASSUME StopBroadcast
        PROVE  StealInv'
    BY <1>43, Distinct DEF StopBroadcast, Goto, StealInv, TypeOK, ThreadTypes, poolVars,
       Woken, IInv
  <1>44. ASSUME Join
        PROVE  StealInv'
    BY <1>44 DEF Join, Goto, StealInv, poolVars, IInv
  <1>45. ASSUME Destroy
        PROVE  StealInv'
    BY <1>45 DEF Destroy, Goto, StealInv, poolVars, IInv
  <1>46. CASE UNCHANGED vars
    BY <1>46 DEF IInv, StealInv, vars, poolVars
  <1> QED
    BY <1>1, <1>2, <1>3, <1>4, <1>5, <1>6, <1>7, <1>8, <1>9, <1>10, <1>11, <1>12,
       <1>13, <1>14, <1>15, <1>16, <1>17, <1>18, <1>19, <1>20, <1>21, <1>22, <1>23,
       <1>24, <1>25, <1>26, <1>27, <1>28, <1>29, <1>30, <1>31, <1>32, <1>33, <1>34,
       <1>35, <1>36, <1>37, <1>38, <1>39, <1>40, <1>41, <1>42, <1>43, <1>44, <1>45,
       <1>46
    DEF Next, EnqueueSteps, WorkerSteps, WaitSteps, UserSteps, Terminated

-----------------------------------------------------------------------------
(* Nobody is forgotten.                                                     *)

\* A step that leaves main() nothing to wait for is followed by a broadcast.
LEMMA MainStep ==
    ASSUME IInv, NoForgottenMain, [Next]_vars
    PROVE  NoForgottenMain'
  <1>1. ASSUME NEW p \in Procs, Enqueue(p)
       PROVE  NoForgottenMain'
    <2>1. /\ \A v \in Workers : pc[v] = "account" => pc'[v] = "account"
          /\ pc'[Main] = "wait_mem_asleep" => pc[Main] = "wait_mem_asleep"
      BY <1>1, Distinct DEF IInv, Enqueue, Return, Goto, TypeOK, ThreadTypes
    <2>2. StillInMemory' = StillInMemory
      BY <1>1 DEF Enqueue, StillInMemory, StoppedOnError, poolVars, mainVars
    <2> QED  BY <2>1, <2>2 DEF NoForgottenMain
  <1>2. ASSUME NEW p \in Procs, LockTarget(p)
       PROVE  NoForgottenMain'
    BY <1>2 DEF LockTarget, Goto, NoForgottenMain, StillInMemory, StoppedOnError,
       poolVars, mainVars, IInv
  <1>3. ASSUME NEW p \in Procs, LockHere(p)
       PROVE  NoForgottenMain'
    <2>1. /\ \A v \in Workers : pc[v] = "account" => pc'[v] = "account"
          /\ pc'[Main] = "wait_mem_asleep" => pc[Main] = "wait_mem_asleep"
      BY <1>3, Distinct DEF IInv, LockHere, Return, Goto, TypeOK, ThreadTypes
    <2>2. StillInMemory' = StillInMemory
      BY <1>3 DEF LockHere, StillInMemory, StoppedOnError, poolVars, mainVars
    <2> QED  BY <2>1, <2>2 DEF NoForgottenMain
  <1>4. ASSUME NEW p \in Procs, PlaceInMemory(p)
       PROVE  NoForgottenMain'
    <2>1. /\ \A v \in Workers : pc[v] = "account" => pc'[v] = "account"
          /\ pc'[Main] = "wait_mem_asleep" => pc[Main] = "wait_mem_asleep"
      BY <1>4, Distinct DEF IInv, PlaceInMemory, Goto, TypeOK, ThreadTypes
    <2>2. incomplete > lte => incomplete + 1 > lte
      BY DEF IInv, TypeOK, PoolTypes, MainTypes
    <2>3. StillInMemory => StillInMemory'
      BY <1>4, <2>2 DEF PlaceInMemory, StillInMemory, StoppedOnError, mainVars
    <2> QED  BY <2>1, <2>3 DEF NoForgottenMain
  <1>5. ASSUME NEW p \in Procs, PlaceInSwap(p)
       PROVE  NoForgottenMain'
    BY <1>5 DEF PlaceInSwap, Goto, NoForgottenMain, StillInMemory, StoppedOnError,
       mainVars, IInv
  <1>6. ASSUME NEW p \in Procs, PlaceFails(p)
       PROVE  NoForgottenMain'
    BY <1>6 DEF PlaceFails, Goto, NoForgottenMain, StillInMemory, StoppedOnError,
       poolVars, mainVars, IInv
  <1>7. ASSUME NEW p \in Procs, WakeTarget(p)
       PROVE  NoForgottenMain'
    BY <1>7, Distinct DEF WakeTarget, Goto, NoForgottenMain, StillInMemory,
       StoppedOnError, TypeOK, ThreadTypes, poolVars, mainVars, Return, Woken, IInv
  <1>8. ASSUME NEW w \in Workers, LockThread(w)
       PROVE  NoForgottenMain'
    BY <1>8 DEF LockThread, Goto, NoForgottenMain, StillInMemory, StoppedOnError,
       poolVars, mainVars, IInv
  <1>9. ASSUME NEW w \in Workers, LockPool(w)
       PROVE  NoForgottenMain'
    BY <1>9 DEF LockPool, Goto, NoForgottenMain, StillInMemory, StoppedOnError,
       poolVars, mainVars, IInv
  <1>10. ASSUME NEW w \in Workers, StealNothing(w)
        PROVE  NoForgottenMain'
    BY <1>10 DEF StealNothing, Goto, NoForgottenMain, StillInMemory, StoppedOnError,
       poolVars, mainVars, IInv
  <1>11. ASSUME NEW w \in Workers, StealWaiting(w)
        PROVE  NoForgottenMain'
    BY <1>11 DEF StealWaiting, Goto, NoForgottenMain, StillInMemory, StoppedOnError,
       poolVars, mainVars, IInv
  <1>12. ASSUME NEW w \in Workers, StealClaimed(w)
        PROVE  NoForgottenMain'
    BY <1>12 DEF StealClaimed, Goto, NoForgottenMain, StillInMemory, StoppedOnError,
       poolVars, mainVars, IInv
  <1>13. ASSUME NEW w \in Workers, Sleep(w)
        PROVE  NoForgottenMain'
    BY <1>13 DEF Sleep, Goto, NoForgottenMain, StillInMemory, StoppedOnError, poolVars,
       mainVars, IInv
  <1>14. ASSUME NEW w \in Workers, SpuriousWakeup(w)
        PROVE  NoForgottenMain'
    BY <1>14 DEF SpuriousWakeup, Goto, NoForgottenMain, StillInMemory, StoppedOnError,
       poolVars, mainVars, IInv
  <1>15. ASSUME NEW w \in Workers, Reacquire(w)
        PROVE  NoForgottenMain'
    BY <1>15 DEF Reacquire, Goto, NoForgottenMain, StillInMemory, StoppedOnError,
       poolVars, mainVars, IInv
  <1>16. ASSUME NEW w \in Workers, Relock(w)
        PROVE  NoForgottenMain'
    BY <1>16 DEF Relock, Goto, NoForgottenMain, StillInMemory, StoppedOnError, poolVars,
       mainVars, IInv
  <1>17. ASSUME NEW w \in Workers, Leave(w)
        PROVE  NoForgottenMain'
    BY <1>17 DEF Leave, Goto, NoForgottenMain, StillInMemory, StoppedOnError, poolVars,
       mainVars, IInv
  <1>18. ASSUME NEW w \in Workers, Proceed(w)
        PROVE  NoForgottenMain'
    BY <1>18 DEF Proceed, Goto, NoForgottenMain, StillInMemory, StoppedOnError,
       poolVars, mainVars, IInv
  <1>19. ASSUME NEW w \in Workers, ClaimWork(w)
        PROVE  NoForgottenMain'
    BY <1>19 DEF ClaimWork, Goto, NoForgottenMain, StillInMemory, StoppedOnError,
       poolVars, mainVars, IInv
  <1>20. ASSUME NEW w \in Workers, PopWork(w)
        PROVE  NoForgottenMain'
    BY <1>20 DEF PopWork, Goto, NoForgottenMain, StillInMemory, StoppedOnError,
       poolVars, mainVars, IInv
  <1>21. ASSUME NEW w \in Workers, PopNothing(w)
        PROVE  NoForgottenMain'
    BY <1>21 DEF PopNothing, Goto, NoForgottenMain, StillInMemory, StoppedOnError,
       poolVars, mainVars, IInv
  <1>22. ASSUME NEW w \in Workers, Spawn(w)
        PROVE  NoForgottenMain'
    BY <1>22 DEF Spawn, Goto, NoForgottenMain, StillInMemory, StoppedOnError, poolVars,
       mainVars, IInv
  <1>23. ASSUME NEW w \in Workers, RunSucceeds(w)
        PROVE  NoForgottenMain'
    BY <1>23 DEF RunSucceeds, Goto, NoForgottenMain, StillInMemory, StoppedOnError,
       poolVars, mainVars, IInv
  <1>24. ASSUME NEW w \in Workers, RunFails(w)
        PROVE  NoForgottenMain'
    BY <1>24 DEF RunFails, Goto, NoForgottenMain, StillInMemory, StoppedOnError,
       poolVars, mainVars, IInv
  <1>25. ASSUME NEW w \in Workers, SetErrored(w)
        PROVE  NoForgottenMain'
    BY <1>25, Distinct DEF SetErrored, Goto, NoForgottenMain, StillInMemory,
       StoppedOnError, TypeOK, ThreadTypes, IInv
  <1>26. ASSUME NEW w \in Workers, Account(w)
        PROVE  NoForgottenMain'
    BY <1>26, Distinct DEF Account, Goto, NoForgottenMain, StillInMemory,
       StoppedOnError, TypeOK, ThreadTypes, MainWoken, IInv
  <1>27. ASSUME NEW w \in Workers, ExitBroadcast(w)
        PROVE  NoForgottenMain'
    BY <1>27, Distinct DEF ExitBroadcast, Goto, NoForgottenMain, StillInMemory,
       StoppedOnError, TypeOK, ThreadTypes, poolVars, mainVars, Woken, IInv
  <1>28. ASSUME NEW w \in Workers, SwapEmpty(w)
        PROVE  NoForgottenMain'
    BY <1>28 DEF SwapEmpty, Goto, NoForgottenMain, StillInMemory, StoppedOnError,
       poolVars, mainVars, IInv
  <1>29. ASSUME NEW w \in Workers, SwapPrep(w)
        PROVE  NoForgottenMain'
    BY <1>29 DEF SwapPrep, Goto, NoForgottenMain, StillInMemory, StoppedOnError,
       poolVars, mainVars, IInv
  <1>30. ASSUME NEW w \in Workers, SwapPrepFails(w)
        PROVE  NoForgottenMain'
    BY <1>30 DEF SwapPrepFails, Goto, NoForgottenMain, StillInMemory, StoppedOnError,
       poolVars, mainVars, IInv
  <1>31. ASSUME NEW w \in Workers, SwapRead(w)
        PROVE  NoForgottenMain'
    BY <1>31 DEF SwapRead, Goto, NoForgottenMain, StillInMemory, StoppedOnError,
       poolVars, mainVars, IInv
  <1>32. ASSUME NEW w \in Workers, SwapDone(w)
        PROVE  NoForgottenMain'
    BY <1>32 DEF SwapDone, Goto, NoForgottenMain, StillInMemory, StoppedOnError,
       mainVars, IInv
  <1>33. ASSUME NEW s \in Settings, Set(s[1], s[2])
        PROVE  NoForgottenMain'
    BY <1>33 DEF Set, Goto, NoForgottenMain, IInv
  <1>34. ASSUME NEW i \in Items, UserEnqueue(i)
        PROVE  NoForgottenMain'
    BY <1>34 DEF UserEnqueue, Goto, NoForgottenMain, IInv
  <1>35. ASSUME NEW i \in Items, NEW q \in {"WAIT", "SWAP"}, UserEnqueueHere(i, q)
        PROVE  NoForgottenMain'
    BY <1>35 DEF UserEnqueueHere, Goto, NoForgottenMain, IInv
  <1>36. ASSUME NEW k \in 0 .. NThreads, Start(k)
        PROVE  NoForgottenMain'
    BY <1>36, Distinct DEF Start, Goto, NoForgottenMain, StillInMemory, StoppedOnError,
       IInv
  <1>37. ASSUME NEW c \in {"wait_mem", "wait", "stop"}, NEW n \in LteCounts \cup {0}, UserWait(c, n)
        PROVE  NoForgottenMain'
    BY <1>37 DEF UserWait, Goto, NoForgottenMain, IInv
  <1>38. ASSUME WaitMem
        PROVE  NoForgottenMain'
    BY <1>38 DEF WaitMem, Goto, NoForgottenMain, StillInMemory, StoppedOnError,
       poolVars, IInv
  <1>39. ASSUME SpuriousMainWakeup
        PROVE  NoForgottenMain'
    BY <1>39 DEF SpuriousMainWakeup, Goto, NoForgottenMain, StillInMemory,
       StoppedOnError, poolVars, mainVars, IInv
  <1>40. ASSUME SwapRound
        PROVE  NoForgottenMain'
    BY <1>40 DEF SwapRound, Goto, NoForgottenMain, IInv
  <1>41. ASSUME WaitReturns
        PROVE  NoForgottenMain'
    BY <1>41 DEF WaitReturns, Goto, NoForgottenMain, IInv
  <1>42. ASSUME SetStopping
        PROVE  NoForgottenMain'
    BY <1>42 DEF SetStopping, Goto, NoForgottenMain, IInv
  <1>43. ASSUME StopBroadcast
        PROVE  NoForgottenMain'
    BY <1>43, Distinct DEF StopBroadcast, Goto, NoForgottenMain, StillInMemory,
       StoppedOnError, TypeOK, ThreadTypes, Woken, IInv
  <1>44. ASSUME Join
        PROVE  NoForgottenMain'
    BY <1>44 DEF Join, Goto, NoForgottenMain, IInv
  <1>45. ASSUME Destroy
        PROVE  NoForgottenMain'
    BY <1>45 DEF Destroy, Goto, NoForgottenMain, IInv
  <1>46. CASE UNCHANGED vars
    BY <1>46 DEF IInv, NoForgottenMain, StillInMemory, StoppedOnError, vars, poolVars,
       mainVars
  <1> QED
    BY <1>1, <1>2, <1>3, <1>4, <1>5, <1>6, <1>7, <1>8, <1>9, <1>10, <1>11, <1>12,
       <1>13, <1>14, <1>15, <1>16, <1>17, <1>18, <1>19, <1>20, <1>21, <1>22, <1>23,
       <1>24, <1>25, <1>26, <1>27, <1>28, <1>29, <1>30, <1>31, <1>32, <1>33, <1>34,
       <1>35, <1>36, <1>37, <1>38, <1>39, <1>40, <1>41, <1>42, <1>43, <1>44, <1>45,
       <1>46
    DEF Next, EnqueueSteps, WorkerSteps, WaitSteps, UserSteps, Terminated

\* A step that makes the threads exit leaves somebody who wakes the sleepers.
LEMMA ThreadStep ==
    ASSUME IInv, NoForgottenThread, [Next]_vars
    PROVE  NoForgottenThread'
  <1>1. ASSUME NEW p \in Procs, Enqueue(p)
       PROVE  NoForgottenThread'
    BY <1>1, Distinct DEF Enqueue, Goto, NoForgottenThread, MustExit, Outstanding,
       StoppedOnError, TypeOK, ThreadTypes, poolVars, Return, MoreTokens, IInv
  <1>2. ASSUME NEW p \in Procs, LockTarget(p)
       PROVE  NoForgottenThread'
    BY <1>2 DEF LockTarget, Goto, NoForgottenThread, MustExit, Outstanding,
       StoppedOnError, TypeOK, ThreadTypes, poolVars, IInv
  <1>3. ASSUME NEW p \in Procs, LockHere(p)
       PROVE  NoForgottenThread'
    BY <1>3, Distinct DEF LockHere, Goto, NoForgottenThread, MustExit, Outstanding,
       StoppedOnError, TypeOK, ThreadTypes, poolVars, Return, MoreTokens, IInv
  <1>4. ASSUME NEW p \in Procs, PlaceInMemory(p)
       PROVE  NoForgottenThread'
    <2>1. CASE p = Main
      <3>1. state # "RUNNING" => \A w \in Workers : pc[w] # "asleep"
        BY <1>4, <2>1 DEF IInv, PlaceInMemory, StartedInv
      <3>2. \A w \in Workers : pc'[w] = pc[w]
        BY <1>4, <2>1, Distinct DEF IInv, PlaceInMemory, Goto, TypeOK, ThreadTypes
      <3>3. UNCHANGED <<state, props, errored, idx>> /\ pc[Main] = "place"
        BY <1>4, <2>1 DEF PlaceInMemory
      <3> QED  BY <3>1, <3>2, <3>3 DEF NoForgottenThread, MustExit, StoppedOnError
    <2>2. CASE p \in Workers
      <3>1. pc'[p] = "wake"
        BY <1>4 DEF IInv, PlaceInMemory, Goto, TypeOK, ThreadTypes
      <3> QED  BY <2>2, <3>1 DEF NoForgottenThread
    <2> QED  BY <2>1, <2>2 DEF Procs
  <1>5. ASSUME NEW p \in Procs, PlaceInSwap(p)
       PROVE  NoForgottenThread'
    <2>1. CASE p = Main
      <3>1. state # "RUNNING" => \A w \in Workers : pc[w] # "asleep"
        BY <1>5, <2>1 DEF IInv, PlaceInSwap, StartedInv
      <3>2. \A w \in Workers : pc'[w] = pc[w]
        BY <1>5, <2>1, Distinct DEF IInv, PlaceInSwap, Goto, TypeOK, ThreadTypes
      <3>3. UNCHANGED <<state, props, errored, idx>> /\ pc[Main] = "place"
        BY <1>5, <2>1 DEF PlaceInSwap
      <3> QED  BY <3>1, <3>2, <3>3 DEF NoForgottenThread, MustExit, StoppedOnError
    <2>2. CASE p \in Workers
      <3>1. pc'[p] = "wake"
        BY <1>5 DEF IInv, PlaceInSwap, Goto, TypeOK, ThreadTypes
      <3> QED  BY <2>2, <3>1 DEF NoForgottenThread
    <2> QED  BY <2>1, <2>2 DEF Procs
  <1>6. ASSUME NEW p \in Procs, PlaceFails(p)
       PROVE  NoForgottenThread'
    BY <1>6 DEF PlaceFails, Goto, NoForgottenThread, MustExit, Outstanding,
       StoppedOnError, TypeOK, ThreadTypes, poolVars, IInv
  <1>7. ASSUME NEW p \in Procs, WakeTarget(p)
       PROVE  NoForgottenThread'
    BY <1>7, Distinct DEF WakeTarget, Goto, NoForgottenThread, MustExit, Outstanding,
       StoppedOnError, TypeOK, ThreadTypes, poolVars, Return, MoreTokens, Woken, IInv
  <1>8. ASSUME NEW w \in Workers, LockThread(w)
       PROVE  NoForgottenThread'
    BY <1>8 DEF LockThread, Goto, NoForgottenThread, IInv
  <1>9. ASSUME NEW w \in Workers, LockPool(w)
       PROVE  NoForgottenThread'
    BY <1>9 DEF LockPool, Goto, NoForgottenThread, IInv
  <1>10. ASSUME NEW w \in Workers, StealNothing(w)
        PROVE  NoForgottenThread'
    BY <1>10 DEF StealNothing, Goto, NoForgottenThread, IInv
  <1>11. ASSUME NEW w \in Workers, StealWaiting(w)
        PROVE  NoForgottenThread'
    BY <1>11 DEF StealWaiting, Goto, NoForgottenThread, IInv
  <1>12. ASSUME NEW w \in Workers, StealClaimed(w)
        PROVE  NoForgottenThread'
    BY <1>12 DEF StealClaimed, Goto, NoForgottenThread, IInv
  <1>13. ASSUME NEW w \in Workers, Sleep(w)
        PROVE  NoForgottenThread'
    BY <1>13 DEF Sleep, Goto, NoForgottenThread, MustExit, Outstanding, KeepWaiting,
       StoppedOnError, TypeOK, ThreadTypes, poolVars, IInv
  <1>14. ASSUME NEW w \in Workers, SpuriousWakeup(w)
        PROVE  NoForgottenThread'
    BY <1>14 DEF SpuriousWakeup, Goto, NoForgottenThread, MustExit, Outstanding,
       StoppedOnError, TypeOK, ThreadTypes, poolVars, IInv
  <1>15. ASSUME NEW w \in Workers, Reacquire(w)
        PROVE  NoForgottenThread'
    BY <1>15 DEF Reacquire, Goto, NoForgottenThread, IInv
  <1>16. ASSUME NEW w \in Workers, Relock(w)
        PROVE  NoForgottenThread'
    BY <1>16 DEF Relock, Goto, NoForgottenThread, IInv
  <1>17. ASSUME NEW w \in Workers, Leave(w)
        PROVE  NoForgottenThread'
    BY <1>17 DEF Leave, Goto, NoForgottenThread, StoppedOnError, TypeOK, ThreadTypes,
       Workers, IInv
  <1>18. ASSUME NEW w \in Workers, Proceed(w)
        PROVE  NoForgottenThread'
    BY <1>18 DEF Proceed, Goto, NoForgottenThread, IInv
  <1>19. ASSUME NEW w \in Workers, ClaimWork(w)
        PROVE  NoForgottenThread'
    BY <1>19 DEF ClaimWork, Goto, NoForgottenThread, IInv
  <1>20. ASSUME NEW w \in Workers, PopWork(w)
        PROVE  NoForgottenThread'
    BY <1>20 DEF PopWork, Goto, NoForgottenThread, IInv
  <1>21. ASSUME NEW w \in Workers, PopNothing(w)
        PROVE  NoForgottenThread'
    BY <1>21 DEF PopNothing, Goto, NoForgottenThread, IInv
  <1>22. ASSUME NEW w \in Workers, Spawn(w)
        PROVE  NoForgottenThread'
    BY <1>22 DEF Spawn, Goto, NoForgottenThread, IInv
  <1>23. ASSUME NEW w \in Workers, RunSucceeds(w)
        PROVE  NoForgottenThread'
    BY <1>23 DEF RunSucceeds, Goto, NoForgottenThread, IInv
  <1>24. ASSUME NEW w \in Workers, RunFails(w)
        PROVE  NoForgottenThread'
    BY <1>24 DEF RunFails, Goto, NoForgottenThread, IInv
  <1>25. ASSUME NEW w \in Workers, SetErrored(w)
        PROVE  NoForgottenThread'
    BY <1>25 DEF SetErrored, Goto, NoForgottenThread, IInv
  <1>26. ASSUME NEW w \in Workers, Account(w)
        PROVE  NoForgottenThread'
    BY <1>26, Distinct DEF Account, Goto, NoForgottenThread, StoppedOnError, TypeOK,
       ThreadTypes, MainWoken, IInv
  <1>27. ASSUME NEW w \in Workers, ExitBroadcast(w)
        PROVE  NoForgottenThread'
    BY <1>27, Distinct DEF ExitBroadcast, Goto, NoForgottenThread, MustExit,
       Outstanding, StoppedOnError, TypeOK, ThreadTypes, Workers, poolVars, Woken, IInv
  <1>28. ASSUME NEW w \in Workers, SwapEmpty(w)
        PROVE  NoForgottenThread'
    BY <1>28 DEF SwapEmpty, Goto, NoForgottenThread, IInv
  <1>29. ASSUME NEW w \in Workers, SwapPrep(w)
        PROVE  NoForgottenThread'
    BY <1>29 DEF SwapPrep, Goto, NoForgottenThread, IInv
  <1>30. ASSUME NEW w \in Workers, SwapPrepFails(w)
        PROVE  NoForgottenThread'
    BY <1>30 DEF SwapPrepFails, Goto, NoForgottenThread, IInv
  <1>31. ASSUME NEW w \in Workers, SwapRead(w)
        PROVE  NoForgottenThread'
    BY <1>31 DEF SwapRead, Goto, NoForgottenThread, IInv
  <1>32. ASSUME NEW w \in Workers, SwapDone(w)
        PROVE  NoForgottenThread'
    BY <1>32 DEF SwapDone, Goto, NoForgottenThread, IInv
  <1>33. ASSUME NEW s \in Settings, Set(s[1], s[2])
        PROVE  NoForgottenThread'
    BY <1>33 DEF Set, Goto, NoForgottenThread, StoppedOnError, StartedInv, TypeOK,
       ThreadTypes, IInv
  <1>34. ASSUME NEW i \in Items, UserEnqueue(i)
        PROVE  NoForgottenThread'
    BY <1>34 DEF UserEnqueue, Goto, NoForgottenThread, MustExit, Outstanding,
       StoppedOnError, TypeOK, ThreadTypes, poolVars, IInv
  <1>35. ASSUME NEW i \in Items, NEW q \in {"WAIT", "SWAP"}, UserEnqueueHere(i, q)
        PROVE  NoForgottenThread'
    BY <1>35 DEF UserEnqueueHere, Goto, NoForgottenThread, MustExit, Outstanding,
       StoppedOnError, TypeOK, ThreadTypes, poolVars, IInv
  <1>36. ASSUME NEW k \in 0 .. NThreads, Start(k)
        PROVE  NoForgottenThread'
    BY <1>36, Distinct DEF Start, Goto, NoForgottenThread, MustExit, StoppedOnError,
       TypeOK, ThreadTypes, IInv
  <1>37. ASSUME NEW c \in {"wait_mem", "wait", "stop"}, NEW n \in LteCounts \cup {0}, UserWait(c, n)
        PROVE  NoForgottenThread'
    BY <1>37 DEF UserWait, Goto, NoForgottenThread, MustExit, StoppedOnError, TypeOK,
       ThreadTypes, poolVars, IInv
  <1>38. ASSUME WaitMem
        PROVE  NoForgottenThread'
    BY <1>38 DEF WaitMem, Goto, NoForgottenThread, MustExit, Outstanding,
       StoppedOnError, TypeOK, ThreadTypes, poolVars, IInv
  <1>39. ASSUME SpuriousMainWakeup
        PROVE  NoForgottenThread'
    BY <1>39 DEF SpuriousMainWakeup, Goto, NoForgottenThread, MustExit, Outstanding,
       StoppedOnError, TypeOK, ThreadTypes, poolVars, IInv
  <1>40. ASSUME SwapRound
        PROVE  NoForgottenThread'
    BY <1>40 DEF SwapRound, Goto, NoForgottenThread, MustExit, Outstanding,
       StoppedOnError, TypeOK, ThreadTypes, poolVars, IInv
  <1>41. ASSUME WaitReturns
        PROVE  NoForgottenThread'
    BY <1>41 DEF WaitReturns, Goto, NoForgottenThread, MustExit, Outstanding,
       StoppedOnError, TypeOK, ThreadTypes, poolVars, IInv
  <1>42. ASSUME SetStopping
        PROVE  NoForgottenThread'
    BY <1>42, Distinct DEF SetStopping, Goto, NoForgottenThread, StoppedOnError, TypeOK,
       ThreadTypes, Workers, IInv
  <1>43. ASSUME StopBroadcast
        PROVE  NoForgottenThread'
    BY <1>43, Distinct DEF StopBroadcast, Goto, NoForgottenThread, MustExit,
       Outstanding, StoppedOnError, TypeOK, ThreadTypes, Workers, poolVars, Woken, IInv
  <1>44. ASSUME Join
        PROVE  NoForgottenThread'
    BY <1>44 DEF Join, Goto, NoForgottenThread, MustExit, Outstanding, StoppedOnError,
       TypeOK, ThreadTypes, poolVars, IInv
  <1>45. ASSUME Destroy
        PROVE  NoForgottenThread'
    BY <1>45 DEF Destroy, Goto, NoForgottenThread, MustExit, Outstanding,
       StoppedOnError, TypeOK, ThreadTypes, poolVars, IInv
  <1>46. CASE UNCHANGED vars
    BY <1>46 DEF IInv, NoForgottenThread, MustExit, Outstanding, StoppedOnError, vars,
       poolVars
  <1> QED
    BY <1>1, <1>2, <1>3, <1>4, <1>5, <1>6, <1>7, <1>8, <1>9, <1>10, <1>11, <1>12,
       <1>13, <1>14, <1>15, <1>16, <1>17, <1>18, <1>19, <1>20, <1>21, <1>22, <1>23,
       <1>24, <1>25, <1>26, <1>27, <1>28, <1>29, <1>30, <1>31, <1>32, <1>33, <1>34,
       <1>35, <1>36, <1>37, <1>38, <1>39, <1>40, <1>41, <1>42, <1>43, <1>44, <1>45,
       <1>46
    DEF Next, EnqueueSteps, WorkerSteps, WaitSteps, UserSteps, Terminated

-----------------------------------------------------------------------------
(* The theorems.                                                            *)

\* A pool that was just initialized satisfies the inductive invariant.
LEMMA InitInv == Init => IInv
  <1> SUFFICES ASSUME Init PROVE IInv
    OBVIOUS
  <1>1. ThreadTypes /\ TurnTypes
    BY Distinct DEF Init, ThreadTypes, TurnTypes, WorkerPC, MainPC
  <1>2. LockTypes /\ QueueTypes /\ EnqTypes
    BY Distinct DEF Init, LockTypes, QueueTypes, EnqTypes
  <1>3. PoolTypes
    <2>1. /\ props \in Props
          /\ state = "INITIALIZED" /\ incomplete = 0 /\ swapped = 0
          /\ errored \in BOOLEAN
      BY DEF Init
    <2>2. props \in PropType /\ (props.num > 0 => props.denom > 0)
      BY <2>1, PropsAssumption, Zenon
    <2> QED  BY <2>1, <2>2 DEF PoolTypes
  <1>4. SwapTypes
    BY DEF Init, SwapTypes
  <1>5. ItemTypes
    BY DEF Init, ItemTypes
  <1>6. MainTypes /\ StatTypes /\ HistTypes
    <2>1. MaxStarts \in Nat /\ CountBound \in Nat
      BY BoundsAssumption
    <2>2. MainTypes
      BY <2>1 DEF Init, MainTypes
    <2>3. StatTypes
      BY <2>1 DEF Init, StatTypes
    <2>4. HistTypes
      BY DEF Init, HistTypes
    <2> QED  BY <2>2, <2>3, <2>4
  <1>7. EnqueueInv /\ StartedInv /\ StealInv
    BY Distinct, TokenFacts DEF Init, EnqueueInv, StartedInv, StealInv
  <1> QED  BY <1>1, <1>2, <1>3, <1>4, <1>5, <1>6, <1>7 DEF IInv, TypeOK

\* Every step of the pool preserves the inductive invariant.
LEMMA InvStep == IInv /\ [Next]_vars => IInv'
  BY TypeStep, EnqueueStep, StartedStep, StealStep DEF IInv

\* The inductive invariant holds in every state of the pool.
THEOREM Invariant == Spec => []IInv
  BY InitInv, InvStep, PTL DEF Spec

\* No queue index, thread index or queue content leaves its range, whatever
\* is enqueued, stolen, swapped or stopped, for any number of threads.
THEOREM TypeCorrect == Spec => []TypeOK
  <1>1. IInv => TypeOK
    BY DEF IInv
  <1> QED  BY Invariant, <1>1, PTL

\* main() never sleeps in QPTPool_wait_mem, QPTPool_wait or QPTPool_stop
\* with nothing left to wait for, unless the thread that will wake it has yet
\* to account for its batch.
THEOREM MainIsWoken == Spec => []NoForgottenMain
  <1>1. Init => NoForgottenMain
    BY Distinct DEF Init, NoForgottenMain
  <1>2. IInv /\ NoForgottenMain /\ [Next]_vars => NoForgottenMain'
    BY MainStep
  <1> QED  BY Invariant, <1>1, <1>2, PTL DEF Spec

\* No worker is left asleep in wait_for_work when the threads are to exit: as
\* long as one sleeps, somebody will still broadcast to it.
THEOREM ThreadsAreWoken == Spec => []NoForgottenThread
  <1>1. Init => NoForgottenThread
    BY Distinct DEF Init, NoForgottenThread
  <1>2. IInv /\ NoForgottenThread /\ [Next]_vars => NoForgottenThread'
    BY ThreadStep
  <1> QED  BY Invariant, <1>1, <1>2, PTL DEF Spec

-----------------------------------------------------------------------------
(* The counters, which decide when a wait ends and when a thread sleeps:   *)
(* pool->incomplete and pool->swapped.                                     *)

\* A thread has an item in its hands while it processes one and at no other
\* time, and reads its swap file only while it processes a Token.
HandInv ==
    \A w \in Workers :
        /\ pc[w] = "run" => qi[w] \in Items
        /\ pc[w] \in {"swap_prep", "swap_read"} => qi[w] = Token
        /\ pc[w] \in EnqueuePC => qi[w] # NoItem
        /\ pc[w] \notin EnqueuePC \cup {"run", "swap_prep", "swap_read"} => qi[w] = NoItem
        /\ ~(pc[w] = "swap_read" \/ (pc[w] \in EnqueuePC /\ qi[w] = Token)) =>
               swap_read[w] = <<>> /\ count[w] = 0

\* Without a limit nothing is in a swap file, nor can anything get there.
LimitInv ==
    props.queue_limit = 0 =>
        \A w \in Workers : swap_write[w] = <<>> /\ ~swap_open[w]

\* pool->incomplete stays exact even when a swap file is lost.
MemoryExact ==
    pc[Main] # "destroyed" =>
        incomplete = SumFunction([w \in Workers |-> InMemory(w)])
SwapExact ==
    (pc[Main] # "destroyed" /\ ~swap_lost) =>
        swapped = SumFunction([w \in Workers |-> InSwap(w)])

CountInv == HandInv /\ LimitInv /\ MemoryExact /\ SwapExact

-----------------------------------------------------------------------------
(* What the sums say about one step.                                        *)

\* There are finitely many threads.
LEMMA WorkersFinite == IsFiniteSet(Workers)
  BY FS_Interval DEF Workers

\* What a counter counts of one thread is a number, before and after a step.
LEMMA CountsType ==
    ASSUME TypeOK
    PROVE  \A w \in Workers : InMemory(w) \in Nat /\ InSwap(w) \in Nat /\ Batch(w) \in Nat
  <1>1. \A w \in Workers : Len(waiting[w]) \in Nat /\ Len(claimed[w]) \in Nat
    BY LenProperties DEF TypeOK, QueueTypes
  <1>2. \A w \in Workers : Len(swap_write[w]) \in Nat /\ Len(swap_read[w]) \in Nat
    BY LenProperties DEF TypeOK, SwapTypes
  <1>3. \A w \in Workers : work_count[w] \in Nat /\ count[w] \in Nat
    BY DEF TypeOK, ItemTypes
  <1>4. \A w \in Workers : Batch(w) \in Nat
    BY <1>3 DEF Batch
  <1>5. \A i, j, k \in Nat : i + (j + k) \in Nat
    OBVIOUS
  <1> QED  BY <1>1, <1>2, <1>3, <1>4, <1>5, Zenon DEF InMemory, InSwap

\* The same of the state a step leads to.
LEMMA CountsTypeNext ==
    ASSUME TypeOK'
    PROVE  \A w \in Workers : InMemory(w)' \in Nat /\ InSwap(w)' \in Nat /\ Batch(w)' \in Nat
  <1>1. \A w \in Workers : Len(waiting'[w]) \in Nat /\ Len(claimed'[w]) \in Nat
    BY LenProperties DEF TypeOK, QueueTypes
  <1>2. \A w \in Workers : Len(swap_write'[w]) \in Nat /\ Len(swap_read'[w]) \in Nat
    BY LenProperties DEF TypeOK, SwapTypes
  <1>3. \A w \in Workers : work_count'[w] \in Nat /\ count'[w] \in Nat
    BY DEF TypeOK, ItemTypes
  <1>4. \A w \in Workers : Batch(w)' \in Nat
    BY <1>3 DEF Batch
  <1>5. \A i, j, k \in Nat : i + (j + k) \in Nat
    OBVIOUS
  <1> QED  BY <1>1, <1>2, <1>3, <1>4, <1>5, Zenon DEF InMemory, InSwap

\* A sum of numbers of the threads follows the change of one of them, and of
\* two of them.
LEMMA OneChanges ==
    ASSUME NEW f \in [Workers -> Nat], NEW g \in [Workers -> Nat], NEW a \in Workers,
           \A v \in Workers : v # a => g[v] = f[v]
    PROVE  SumFunction(g) = SumFunction(f) + g[a] - f[a]
  <1>1. f \in [Workers -> Int] /\ g \in [Workers -> Int]
    OBVIOUS
  <1>2. \A v \in Workers \ {a} : g[v] = f[v]
    OBVIOUS
  <1> QED  BY <1>1, <1>2, SumUpdate, WorkersFinite

\* A sum stays the same when two summands change and their sum does not.
LEMMA TwoChange ==
    ASSUME NEW f \in [Workers -> Nat], NEW g \in [Workers -> Nat],
           NEW a \in Workers, NEW b \in Workers, a # b,
           \A v \in Workers : v # a /\ v # b => g[v] = f[v],
           g[a] + g[b] = f[a] + f[b]
    PROVE  SumFunction(g) = SumFunction(f)
  <1> DEFINE h == [f EXCEPT ![a] = g[a]]
  <1>1. h \in [Workers -> Nat] /\ h[a] = g[a] /\ h[b] = f[b]
    OBVIOUS
  <1>2. \A v \in Workers : v # a => h[v] = f[v]
    OBVIOUS
  <1>3. \A v \in Workers : v # b => g[v] = h[v]
    OBVIOUS
  <1> HIDE DEF h
  <1>4. SumFunction(h) = SumFunction(f) + g[a] - f[a]
    BY <1>1, <1>2, OneChanges
  <1>5. SumFunction(g) = SumFunction(h) + g[b] - f[b]
    BY <1>1, <1>3, OneChanges
  <1>6. f \in [Workers -> Int]
    OBVIOUS
  <1>7. SumFunction(f) \in Int
    BY <1>6, SumType, WorkersFinite, Zenon
  <1> QED  BY <1>4, <1>5, <1>7

\* The sums are integers.
LEMMA SumsAreIntegers ==
    ASSUME TypeOK
    PROVE  /\ SumFunction([w \in Workers |-> InMemory(w)]) \in Int
           /\ SumFunction([w \in Workers |-> InSwap(w)]) \in Int
  <1>1. /\ [w \in Workers |-> InMemory(w)] \in [Workers -> Int]
        /\ [w \in Workers |-> InSwap(w)] \in [Workers -> Int]
    BY CountsType
  <1> QED  BY <1>1, SumType, WorkersFinite, Zenon

\* pool->incomplete stays exact when it changes by as much as what one
\* thread has, and so does pool->swapped.
LEMMA MemoryOfOne ==
    ASSUME TypeOK, TypeOK', MemoryExact, pc[Main] # "destroyed", NEW a \in Workers,
           \A v \in Workers : v # a => InMemory(v)' = InMemory(v),
           incomplete' = incomplete + InMemory(a)' - InMemory(a)
    PROVE  MemoryExact'
  <1> DEFINE f == [w \in Workers |-> InMemory(w)]
             g == [w \in Workers |-> InMemory(w)']
  <1>1. f \in [Workers -> Nat] /\ g \in [Workers -> Nat]
    BY CountsType, CountsTypeNext
  <1>2. f[a] = InMemory(a) /\ g[a] = InMemory(a)'
    OBVIOUS
  <1>3. \A v \in Workers : v # a => g[v] = f[v]
    OBVIOUS
  <1> HIDE DEF f, g
  <1>4. SumFunction(g) = SumFunction(f) + g[a] - f[a]
    BY <1>1, <1>3, OneChanges
  <1>5. incomplete = SumFunction(f)
    BY Zenon DEF MemoryExact, f
  <1>6. incomplete' = SumFunction(g)
    BY <1>2, <1>4, <1>5
  <1> QED  BY <1>6, Zenon DEF MemoryExact, g

\* The same for the work in the swap files.
LEMMA SwapOfOne ==
    ASSUME TypeOK, TypeOK', SwapExact, pc[Main] # "destroyed", ~swap_lost,
           NEW a \in Workers,
           \A v \in Workers : v # a => InSwap(v)' = InSwap(v),
           swapped' = swapped + InSwap(a)' - InSwap(a)
    PROVE  SwapExact'
  <1> DEFINE f == [w \in Workers |-> InSwap(w)]
             g == [w \in Workers |-> InSwap(w)']
  <1>1. f \in [Workers -> Nat] /\ g \in [Workers -> Nat]
    BY CountsType, CountsTypeNext
  <1>2. f[a] = InSwap(a) /\ g[a] = InSwap(a)'
    OBVIOUS
  <1>3. \A v \in Workers : v # a => g[v] = f[v]
    OBVIOUS
  <1> HIDE DEF f, g
  <1>4. SumFunction(g) = SumFunction(f) + g[a] - f[a]
    BY <1>1, <1>3, OneChanges
  <1>5. swapped = SumFunction(f)
    BY Zenon DEF SwapExact, f
  <1>6. swapped' = SumFunction(g)
    BY <1>2, <1>4, <1>5
  <1> QED  BY <1>6, Zenon DEF SwapExact, g

\* It stays exact when work moves from one thread to another.
LEMMA MemoryOfTwo ==
    ASSUME TypeOK, TypeOK', MemoryExact, pc[Main] # "destroyed",
           NEW a \in Workers, NEW b \in Workers, a # b,
           \A v \in Workers : v # a /\ v # b => InMemory(v)' = InMemory(v),
           InMemory(a)' + InMemory(b)' = InMemory(a) + InMemory(b),
           incomplete' = incomplete
    PROVE  MemoryExact'
  <1> DEFINE f == [w \in Workers |-> InMemory(w)]
             g == [w \in Workers |-> InMemory(w)']
  <1>1. f \in [Workers -> Nat] /\ g \in [Workers -> Nat]
    BY CountsType, CountsTypeNext
  <1>2. g[a] + g[b] = f[a] + f[b]
    OBVIOUS
  <1>3. \A v \in Workers : v # a /\ v # b => g[v] = f[v]
    OBVIOUS
  <1> HIDE DEF f, g
  <1>4. SumFunction(g) = SumFunction(f)
    BY <1>1, <1>2, <1>3, TwoChange
  <1>5. incomplete = SumFunction(f)
    BY Zenon DEF MemoryExact, f
  <1>6. incomplete' = SumFunction(g)
    BY <1>4, <1>5
  <1> QED  BY <1>6, Zenon DEF MemoryExact, g

-----------------------------------------------------------------------------
(* The steps that change what is counted.                                   *)

counted == <<queueVars, swapVars, props, incomplete, swapped, qi, work_count, count,
             swap_lost>>

Counting ==
    \/ \E p \in Procs : PlaceInMemory(p) \/ PlaceInSwap(p) \/ PlaceFails(p)
    \/ \E w \in Workers :
          \/ StealWaiting(w) \/ StealClaimed(w) \/ ClaimWork(w) \/ PopWork(w)
          \/ RunSucceeds(w) \/ RunFails(w) \/ Account(w)
          \/ SwapEmpty(w) \/ SwapPrep(w) \/ SwapPrepFails(w) \/ SwapRead(w) \/ SwapDone(w)
    \/ \E s \in Settings : Set(s[1], s[2])
    \/ Destroy

\* All other steps leave it alone.
LEMMA Kinds == [Next]_vars => Counting \/ UNCHANGED counted
  <1> USE DEF counted, queueVars, swapVars, poolVars, itemVars, histVars
  <1>1. ASSUME NEW p \in Procs, EnqueueSteps(p) PROVE Counting \/ UNCHANGED counted
    BY <1>1 DEF EnqueueSteps, Enqueue, LockTarget, LockHere, WakeTarget, Counting
  <1>2. ASSUME NEW w \in Workers, WorkerSteps(w) PROVE Counting \/ UNCHANGED counted
    BY <1>2 DEF WorkerSteps, LockThread, LockPool, StealNothing, Sleep, Reacquire, Relock,
       Leave, Proceed, PopNothing, Spawn, SetErrored, ExitBroadcast, Counting
  <1>3. ASSUME NEW w \in Workers, SpuriousWakeup(w) PROVE UNCHANGED counted
    BY <1>3 DEF SpuriousWakeup
  <1>4. ASSUME WaitSteps \/ SpuriousMainWakeup PROVE UNCHANGED counted
    BY <1>4 DEF WaitSteps, WaitMem, SwapRound, WaitReturns, SetStopping, StopBroadcast,
       Join, SpuriousMainWakeup
  <1>5. ASSUME UserSteps PROVE Counting \/ UNCHANGED counted
    BY <1>5 DEF UserSteps, UserEnqueue, UserEnqueueHere, Start, UserWait, Counting
  <1>6. UNCHANGED vars => UNCHANGED counted
    BY DEF vars
  <1> QED  BY <1>1, <1>2, <1>3, <1>4, <1>5, <1>6 DEF Next, Terminated

\* A pool that has been destroyed stays so, and nothing else destroys one.
LEMMA Destroyed ==
    ASSUME TypeOK, [Next]_vars
    PROVE  pc'[Main] = "destroyed" <=> (pc[Main] = "destroyed" \/ Destroy)
  <1> DEFINE Same == pc'[Main] = "destroyed" <=> pc[Main] = "destroyed"
  <1> USE DEF Goto, EnqueuePC
  <1>0. pc \in [Procs -> WorkerPC \cup EnqueuePC \cup MainPC]
    BY DEF TypeOK, ThreadTypes
  <1>1. ASSUME NEW p \in Procs, EnqueueSteps(p) PROVE Same
    BY <1>0, <1>1, Distinct DEF EnqueueSteps, Enqueue, LockTarget, LockHere, WakeTarget,
       PlaceInMemory, PlaceInSwap, PlaceFails, Return, Woken
  <1>2. ASSUME NEW w \in Workers, WorkerSteps(w) PROVE Same
    <2>1. CASE \/ LockThread(w) \/ LockPool(w) \/ StealNothing(w) \/ StealWaiting(w)
               \/ StealClaimed(w) \/ Sleep(w) \/ Reacquire(w) \/ Relock(w) \/ Leave(w)
      BY <1>0, <2>1, Distinct DEF LockThread, LockPool, StealNothing, StealWaiting,
         StealClaimed, Sleep, Reacquire, Relock, Leave
    <2>2. CASE \/ Proceed(w) \/ ClaimWork(w) \/ PopWork(w) \/ PopNothing(w) \/ Spawn(w)
               \/ RunSucceeds(w) \/ RunFails(w) \/ SetErrored(w)
      BY <1>0, <2>2, Distinct DEF Proceed, ClaimWork, PopWork, PopNothing, Spawn,
         RunSucceeds, RunFails, SetErrored
    <2>3. CASE \/ Account(w) \/ ExitBroadcast(w) \/ SwapEmpty(w) \/ SwapPrep(w)
               \/ SwapPrepFails(w) \/ SwapRead(w) \/ SwapDone(w)
      BY <1>0, <2>3, Distinct DEF Account, ExitBroadcast, SwapEmpty, SwapPrep,
         SwapPrepFails, SwapRead, SwapDone, MainWoken, Woken
    <2> QED  BY <1>2, <2>1, <2>2, <2>3 DEF WorkerSteps
  <1>3. ASSUME NEW w \in Workers, SpuriousWakeup(w) PROVE Same
    BY <1>0, <1>3, Distinct DEF SpuriousWakeup
  <1>4. ASSUME WaitSteps \/ SpuriousMainWakeup PROVE Same
    BY <1>0, <1>4, Distinct DEF WaitSteps, WaitMem, SwapRound, WaitReturns, SetStopping,
       StopBroadcast, Join, SpuriousMainWakeup, Woken
  <1>5. ASSUME UserSteps, ~Destroy PROVE Same
    <2>1. ASSUME NEW k \in 0 .. NThreads, Start(k) PROVE Same
      BY <1>0, <2>1, Distinct DEF Start
    <2> QED  BY <1>0, <1>5, <2>1, Distinct DEF UserSteps, Set, UserEnqueue, UserEnqueueHere,
                UserWait
  <1>6. Destroy => pc'[Main] = "destroyed"
    BY <1>0, Distinct DEF Destroy
  <1>7. UNCHANGED vars => Same
    BY DEF vars
  <1>8. Same => (pc'[Main] = "destroyed" <=> (pc[Main] = "destroyed" \/ Destroy))
    BY <1>6
  <1> QED  BY <1>1, <1>2, <1>3, <1>4, <1>5, <1>6, <1>7, <1>8 DEF Next, Terminated

\* A thief leaves behind what it does not take.
LEMMA StealLengths ==
    ASSUME TypeOK, props.num > 0, NEW q \in Seq(Work), q # <<>>
    PROVE  Len(First(q)) + Len(Rest(q)) = Len(q)
  <1>1. Len(q) \in Nat \ {0}
    BY EmptySeq, LenProperties
  <1>2. Take(Len(q)) \in 1 .. Len(q)
    BY <1>1, TakeType
  <1> DEFINE k == Take(Len(q))
  <1>3. Len(SubSeq(q, 1, k)) = k
    BY <1>1, <1>2, SubSeqProperties
  <1>4. Len(SubSeq(q, k + 1, Len(q))) = Len(q) - k
    BY <1>1, <1>2, SubSeqProperties
  <1> QED  BY <1>1, <1>2, <1>3, <1>4 DEF First, Rest

-----------------------------------------------------------------------------
(* HandInv and LimitInv.                                                    *)

\* An enqueue that returns leaves the thread with the work item it had.
LEMMA HandReturn ==
    ASSUME IInv, HandInv, NEW p \in Procs, pc[p] \in EnqueuePC, Return(p, pc),
           UNCHANGED <<qi, count, swap_read>>
    PROVE  HandInv'
  <1>1. pc \in [Procs -> WorkerPC \cup EnqueuePC \cup MainPC]
    BY DEF IInv, TypeOK, ThreadTypes
  <1>2. ASSUME NEW w \in Workers, w # p
        PROVE  pc'[w] = pc[w]
    BY <1>1, <1>2, Distinct DEF Return
  <1>3. ASSUME p \in Workers
        PROVE  pc'[p] = IF qi[p] = Token THEN "swap_read" ELSE "run"
    BY <1>1, <1>3, Distinct DEF Return, MoreTokens, Rereading
  <1>4. p \in Workers => qi[p] \in Work
    BY DEF HandInv, IInv, TypeOK, ItemTypes
  <1>5. ASSUME NEW w \in Workers
        PROVE  /\ pc'[w] = "run" => qi[w] \in Items
               /\ pc'[w] \in {"swap_prep", "swap_read"} => qi[w] = Token
               /\ pc'[w] \in EnqueuePC => qi[w] # NoItem
               /\ pc'[w] \notin EnqueuePC \cup {"run", "swap_prep", "swap_read"} => qi[w] = NoItem
               /\ ~(pc'[w] = "swap_read" \/ (pc'[w] \in EnqueuePC /\ qi[w] = Token)) =>
                      swap_read[w] = <<>> /\ count[w] = 0
    <2>1. CASE w # p
      BY <1>2, <2>1 DEF HandInv
    <2>2. CASE w = p
      BY <1>3, <1>4, <2>2 DEF HandInv, EnqueuePC, Work
    <2> QED  BY <2>1, <2>2
  <1> QED  BY <1>5 DEF HandInv, EnqueuePC

\* Every step leaves a thread with in its hands what its place in the code
\* says.
LEMMA HandStep ==
    ASSUME IInv, HandInv, [Next]_vars
    PROVE  HandInv'
  <1> USE DEF Goto, EnqueuePC, HandInv, swapVars, itemVars
  <1>0. /\ pc \in [Procs -> WorkerPC \cup EnqueuePC \cup MainPC]
        /\ qi \in [Workers -> Work \cup {NoItem}]
        /\ count \in [Workers -> Nat] /\ swap_read \in [Workers -> Seq(Items)]
    BY DEF IInv, TypeOK, ThreadTypes, ItemTypes, SwapTypes
  <1>1. ASSUME NEW p \in Procs, Enqueue(p) PROVE HandInv'
    <2>1. CASE StoppedOnError
      BY <1>1, <2>1, HandReturn DEF Enqueue
    <2>2. CASE ~StoppedOnError
      BY <1>0, <1>1, <2>2, Distinct DEF Enqueue
    <2> QED  BY <2>1, <2>2
  <1>2. ASSUME NEW p \in Procs, LockTarget(p) PROVE HandInv'
    BY <1>0, <1>2, Distinct DEF LockTarget
  <1>3. ASSUME NEW p \in Procs, LockHere(p) PROVE HandInv'
    <2>1. CASE StoppedOnError
      BY <1>3, <2>1, HandReturn DEF LockHere
    <2>2. CASE ~StoppedOnError
      BY <1>0, <1>3, <2>2, Distinct DEF LockHere
    <2> QED  BY <2>1, <2>2
  <1>4. ASSUME NEW p \in Procs, PlaceInMemory(p) PROVE HandInv'
    BY <1>0, <1>4, Distinct DEF PlaceInMemory
  <1>5. ASSUME NEW p \in Procs, PlaceInSwap(p) PROVE HandInv'
    BY <1>0, <1>5, Distinct DEF PlaceInSwap
  <1>6. ASSUME NEW p \in Procs, PlaceFails(p) PROVE HandInv'
    BY <1>0, <1>6, Distinct DEF PlaceFails
  <1>7. ASSUME NEW p \in Procs, WakeTarget(p) PROVE HandInv'
    BY <1>0, <1>7, Distinct DEF WakeTarget, Return, Rereading, Woken, Work
  <1>8. ASSUME NEW w \in Workers, LockThread(w) PROVE HandInv'
    BY <1>0, <1>8, Distinct DEF LockThread
  <1>9. ASSUME NEW w \in Workers, LockPool(w) PROVE HandInv'
    BY <1>0, <1>9, Distinct DEF LockPool
  <1>10. ASSUME NEW w \in Workers, StealNothing(w) PROVE HandInv'
    BY <1>0, <1>10, Distinct DEF StealNothing
  <1>11. ASSUME NEW w \in Workers, StealWaiting(w) PROVE HandInv'
    BY <1>0, <1>11, Distinct DEF StealWaiting
  <1>12. ASSUME NEW w \in Workers, StealClaimed(w) PROVE HandInv'
    BY <1>0, <1>12, Distinct DEF StealClaimed
  <1>13. ASSUME NEW w \in Workers, Sleep(w) PROVE HandInv'
    BY <1>0, <1>13, Distinct DEF Sleep
  <1>14. ASSUME NEW w \in Workers, Reacquire(w) PROVE HandInv'
    BY <1>0, <1>14, Distinct DEF Reacquire
  <1>15. ASSUME NEW w \in Workers, Relock(w) PROVE HandInv'
    BY <1>0, <1>15, Distinct DEF Relock
  <1>16. ASSUME NEW w \in Workers, Leave(w) PROVE HandInv'
    BY <1>0, <1>16, Distinct DEF Leave
  <1>17. ASSUME NEW w \in Workers, Proceed(w) PROVE HandInv'
    BY <1>0, <1>17, Distinct DEF Proceed
  <1>18. ASSUME NEW w \in Workers, ClaimWork(w) PROVE HandInv'
    BY <1>0, <1>18, Distinct DEF ClaimWork
  <1>19. ASSUME NEW w \in Workers, PopWork(w) PROVE HandInv'
    <2>1. Head(claimed[w]) \in Work
      BY <1>19, HeadTailProperties DEF PopWork, IInv, TypeOK, QueueTypes
    <2> QED  BY <1>0, <1>19, <2>1, Distinct DEF PopWork, Work
  <1>20. ASSUME NEW w \in Workers, PopNothing(w) PROVE HandInv'
    BY <1>0, <1>20, Distinct DEF PopNothing
  <1>21. ASSUME NEW w \in Workers, Spawn(w) PROVE HandInv'
    BY <1>0, <1>21, Distinct, ItemsAssumption DEF Spawn
  <1>22. ASSUME NEW w \in Workers, RunSucceeds(w) PROVE HandInv'
    BY <1>0, <1>22, Distinct, ItemsAssumption DEF RunSucceeds, Processed
  <1>23. ASSUME NEW w \in Workers, RunFails(w) PROVE HandInv'
    BY <1>0, <1>23, Distinct, ItemsAssumption DEF RunFails, Processed
  <1>24. ASSUME NEW w \in Workers, SetErrored(w) PROVE HandInv'
    BY <1>0, <1>24, Distinct DEF SetErrored
  <1>25. ASSUME NEW w \in Workers, Account(w) PROVE HandInv'
    BY <1>0, <1>25, Distinct DEF Account, MainWoken
  <1>26. ASSUME NEW w \in Workers, ExitBroadcast(w) PROVE HandInv'
    BY <1>0, <1>26, Distinct DEF ExitBroadcast, Woken
  <1>27. ASSUME NEW w \in Workers, SwapEmpty(w) PROVE HandInv'
    BY <1>0, <1>27, Distinct, TokenFacts DEF SwapEmpty, Processed
  <1>28. ASSUME NEW w \in Workers, SwapPrep(w) PROVE HandInv'
    BY <1>0, <1>28, Distinct, TokenFacts DEF SwapPrep, Processed
  <1>29. ASSUME NEW w \in Workers, SwapPrepFails(w) PROVE HandInv'
    BY <1>0, <1>29, Distinct, TokenFacts DEF SwapPrepFails, Processed
  <1>30. ASSUME NEW w \in Workers, SwapRead(w) PROVE HandInv'
    BY <1>0, <1>30, Distinct, TokenFacts DEF SwapRead, Processed
  <1>31. ASSUME NEW w \in Workers, SwapDone(w) PROVE HandInv'
    BY <1>0, <1>31, Distinct, TokenFacts DEF SwapDone, Processed
  <1>32. ASSUME NEW w \in Workers, SpuriousWakeup(w) PROVE HandInv'
    BY <1>0, <1>32, Distinct DEF SpuriousWakeup
  <1>33. ASSUME WaitSteps \/ SpuriousMainWakeup PROVE HandInv'
    BY <1>0, <1>33, Distinct DEF WaitSteps, WaitMem, SwapRound, WaitReturns, SetStopping,
       StopBroadcast,
       Join, SpuriousMainWakeup, Woken
  <1>34. ASSUME NEW k \in 0 .. NThreads, Start(k) PROVE HandInv'
    BY <1>0, <1>34, Distinct DEF Start, IInv, StartedInv
  <1>35. ASSUME Destroy PROVE HandInv'
    BY <1>0, <1>35, Distinct DEF Destroy
  <1>36. ASSUME UserSteps /\ ~Destroy /\ \A k \in 0 .. NThreads : ~Start(k) PROVE HandInv'
    BY <1>0, <1>36, Distinct DEF UserSteps, Set, UserEnqueue, UserEnqueueHere, UserWait
  <1>37. ASSUME UNCHANGED vars PROVE HandInv'
    BY <1>0, <1>37, Distinct DEF vars
  <1> QED  BY <1>1, <1>2, <1>3, <1>4, <1>5, <1>6, <1>7, <1>8, <1>9, <1>10, <1>11, <1>12,
         <1>13, <1>14, <1>15, <1>16, <1>17, <1>18, <1>19, <1>20, <1>21, <1>22, <1>23, <1>24,
         <1>25, <1>26, <1>27, <1>28, <1>29, <1>30, <1>31, <1>32, <1>33, <1>34, <1>35, <1>36,
         <1>37
       DEF Next, EnqueueSteps, WorkerSteps, UserSteps, Terminated

\* No step writes to a swap file of a pool without a limit.
LEMMA LimitStep ==
    ASSUME IInv, LimitInv, [Next]_vars
    PROVE  LimitInv'
  <1> USE DEF LimitInv, swapVars, poolVars
  <1>0. /\ target \in [Procs -> Workers]
        /\ swap_write \in [Workers -> Seq(Items)] /\ swap_open \in [Workers -> BOOLEAN]
        /\ props \in PropType
    BY DEF IInv, TypeOK, EnqTypes, SwapTypes, PoolTypes
  <1>1. UNCHANGED counted => LimitInv'
    BY DEF counted
  <1>2. ASSUME NEW p \in Procs, PlaceInMemory(p) \/ PlaceInSwap(p) \/ PlaceFails(p)
        PROVE  LimitInv'
    BY <1>0, <1>2 DEF PlaceInMemory, PlaceInSwap, PlaceFails
  <1>3. ASSUME NEW w \in Workers,
               \/ StealWaiting(w) \/ StealClaimed(w) \/ ClaimWork(w) \/ PopWork(w)
               \/ RunSucceeds(w) \/ RunFails(w) \/ Account(w)
        PROVE  LimitInv'
    BY <1>3 DEF StealWaiting, StealClaimed, ClaimWork, PopWork, RunSucceeds, RunFails,
       Account
  <1>4. ASSUME NEW w \in Workers,
               SwapEmpty(w) \/ SwapPrep(w) \/ SwapPrepFails(w) \/ SwapRead(w) \/ SwapDone(w)
        PROVE  LimitInv'
    BY <1>0, <1>4 DEF SwapEmpty, SwapPrep, SwapPrepFails, SwapRead, SwapDone
  <1>5. ASSUME NEW s \in Settings, Set(s[1], s[2])
        PROVE  LimitInv'
    <2>1. s[1] \in Settable
      BY PropsAssumption
    <2>2. CASE s[1] = "queue_limit"
      BY <1>0, <1>5, <2>2 DEF Set
    <2>3. CASE s[1] # "queue_limit"
      <3>1. props'.queue_limit = props.queue_limit
        BY <1>0, <1>5, <2>1, <2>3 DEF Set, Settable, PropType
      <3> QED  BY <1>5, <2>3, <3>1 DEF Set
    <2> QED  BY <2>2, <2>3
  <1>6. Destroy => LimitInv'
    BY DEF Destroy
  <1> QED  BY <1>1, <1>2, <1>3, <1>4, <1>5, <1>6, Kinds DEF Counting

-----------------------------------------------------------------------------
(* The counters.                                                            *)

\* Every step changes pool->incomplete by what it adds to the work in memory.
LEMMA MemoryStep ==
    ASSUME IInv, IInv', CountInv, [Next]_vars
    PROVE  MemoryExact'
  <1> SUFFICES ASSUME pc'[Main] # "destroyed" PROVE MemoryExact'
    BY DEF MemoryExact
  <1>0. pc[Main] # "destroyed" /\ TypeOK /\ TypeOK' /\ MemoryExact
    BY Destroyed DEF IInv, CountInv
  <1>b. /\ waiting \in [Workers -> Seq(Work)] /\ claimed \in [Workers -> Seq(Work)]
         /\ qi \in [Workers -> Work \cup {NoItem}]
         /\ work_count \in [Workers -> Nat]
         /\ incomplete \in Int
    BY <1>0 DEF TypeOK, QueueTypes, ItemTypes, PoolTypes
  <1>c. \A w \in Workers : /\ InMemory(w) \in Nat /\ InMemory(w)' \in Nat
                             /\ Batch(w) \in Nat /\ Batch(w)' \in Nat
    BY <1>0, CountsType, CountsTypeNext
  <1>d. \A w \in Workers : Len(waiting[w]) \in Nat /\ Len(claimed[w]) \in Nat
    BY <1>b, LenProperties
  <1>1. UNCHANGED <<waiting, claimed, qi, work_count, incomplete>> => MemoryExact'
    <2> SUFFICES ASSUME UNCHANGED <<waiting, claimed, qi, work_count, incomplete>>
                 PROVE  MemoryExact'
      OBVIOUS
    <2>1. \A w \in Workers : InMemory(w)' = InMemory(w)
      BY DEF InMemory, Batch
    <2>2. incomplete' = incomplete + InMemory(0)' - InMemory(0)
      BY <1>b, <1>c, <2>1, Distinct
    <2> QED  BY <1>0, <2>1, <2>2, Distinct, MemoryOfOne
  <1>2. ASSUME NEW p \in Procs, PlaceInMemory(p) PROVE MemoryExact'
    <2>1. PICK t \in Workers : t = target[p]
      BY <1>0 DEF TypeOK, EnqTypes
    <2>2. waiting[t] \in Seq(Work) /\ new_work[p] \in Work
      BY <1>b, <1>2 DEF PlaceInMemory, IInv, EnqueueInv
    <2>3. /\ waiting'[t] = Append(waiting[t], new_work[p])
          /\ \A v \in Workers : v # t => waiting'[v] = waiting[v]
          /\ UNCHANGED <<claimed, qi, work_count>>
          /\ incomplete' = incomplete + 1
      BY <1>b, <1>2, <2>1 DEF PlaceInMemory, itemVars
    <2>4. Len(waiting'[t]) = Len(waiting[t]) + 1
      BY <2>2, <2>3, AppendProperties
    <2>5. \A v \in Workers : v # t => InMemory(v)' = InMemory(v)
      BY <2>3 DEF InMemory, Batch
    <2>6. InMemory(t)' = InMemory(t) + 1
      <3>1. Batch(t)' = Batch(t)
        BY <2>3 DEF Batch
      <3>2. claimed'[t] = claimed[t]
        BY <2>3
      <3> QED  BY <1>c, <1>d, <2>4, <3>1, <3>2 DEF InMemory
    <2>7. incomplete' = incomplete + InMemory(t)' - InMemory(t)
      BY <1>b, <1>c, <2>3, <2>6
    <2> QED  BY <1>0, <2>5, <2>7, MemoryOfOne
  <1>3. ASSUME NEW w \in Workers, StealWaiting(w) PROVE MemoryExact'
    <2>v. PICK v \in Workers : v = Neighbor(w)
      BY <1>0, NeighborType
    <2>q. PICK q \in Seq(Work) : q = waiting[v]
      BY <1>b
    <2>1. v # w /\ q # <<>> /\ props.num > 0
      BY <1>0, <1>3, <2>v, <2>q DEF StealWaiting, IInv, StealInv
    <2>3. Len(First(q)) + Len(Rest(q)) = Len(q)
      BY <1>0, <2>1, StealLengths
    <2>4. First(q) \in Seq(Work) /\ Rest(q) \in Seq(Work)
      BY <1>0, <2>1, StealType
    <2>5. waiting' = [waiting EXCEPT ![w] = @ \o First(q), ![v] = Rest(@)]
      BY <1>3, <2>v, <2>q DEF StealWaiting
    <2>6. UNCHANGED <<claimed, qi, work_count, incomplete>>
      BY <1>3 DEF StealWaiting, itemVars, poolVars
    <2>7. waiting'[w] = waiting[w] \o First(q) /\ waiting'[v] = Rest(q)
      BY <1>b, <2>q, <2>1, <2>5
    <2>8. Len(waiting'[w]) = Len(waiting[w]) + Len(First(q))
      BY <1>b, <2>4, <2>7, ConcatProperties
    <2>9. PICK m \in Nat : m = Len(First(q))
      BY <2>4, LenProperties
    <2>10. InMemory(w)' + InMemory(v)' = InMemory(w) + InMemory(v)
      <3>1. Batch(w)' = Batch(w) /\ Batch(v)' = Batch(v)
        BY <2>6 DEF Batch
      <3>2. InMemory(w)' = InMemory(w) + m
        <4>1. Len(waiting'[w]) = Len(waiting[w]) + m /\ claimed'[w] = claimed[w]
          BY <2>6, <2>7, <2>8, <2>9
        <4>3. PICK i, j, k \in Nat : i = Len(waiting[w]) /\ j = Len(claimed[w]) /\ k = Batch(w)
          BY <1>c, <1>d
        <4>4. InMemory(w)' = (i + m) + (j + k)
          BY <3>1, <4>1, <4>3, Zenon DEF InMemory
        <4>5. InMemory(w) = i + (j + k)
          BY <4>3, Zenon DEF InMemory
        <4> QED  BY <4>4, <4>5
      <3>3. InMemory(v) = InMemory(v)' + m
        <4>1. Len(waiting[v]) = Len(waiting'[v]) + m /\ claimed'[v] = claimed[v]
          BY <1>d, <2>q, <2>3, <2>6, <2>7, <2>9
        <4>2. Len(waiting'[v]) \in Nat
          BY <2>4, <2>7, LenProperties
        <4>3. PICK i, j, k \in Nat : i = Len(waiting'[v]) /\ j = Len(claimed'[v]) /\ k = Batch(v)'
          BY <1>c, <1>d, <4>1, <4>2
        <4>4. InMemory(v) = (i + m) + (j + k)
          BY <3>1, <4>1, <4>3, Zenon DEF InMemory
        <4>5. InMemory(v)' = i + (j + k)
          BY <4>3, Zenon DEF InMemory
        <4> QED  BY <4>4, <4>5
      <3> QED  BY <1>c, <3>2, <3>3
    <2>11. \A u \in Workers : u # w /\ u # v => InMemory(u)' = InMemory(u)
      BY <1>b, <2>1, <2>5, <2>6 DEF InMemory, Batch
    <2> QED  BY <1>0, <2>1, <2>6, <2>10, <2>11, MemoryOfTwo
  <1>4. ASSUME NEW w \in Workers, StealClaimed(w) PROVE MemoryExact'
    <2>v. PICK v \in Workers : v = Neighbor(w)
      BY <1>0, NeighborType
    <2>q. PICK q \in Seq(Work) : q = claimed[v]
      BY <1>b
    <2>1. v # w /\ q # <<>> /\ props.num > 0
      BY <1>0, <1>4, <2>v, <2>q DEF StealClaimed, IInv, StealInv
    <2>3. Len(First(q)) + Len(Rest(q)) = Len(q)
      BY <1>0, <2>1, StealLengths
    <2>4. First(q) \in Seq(Work) /\ Rest(q) \in Seq(Work)
      BY <1>0, <2>1, StealType
    <2>5. /\ waiting' = [waiting EXCEPT ![w] = @ \o First(q)]
          /\ claimed' = [claimed EXCEPT ![v] = Rest(@)]
      BY <1>4, <2>v, <2>q DEF StealClaimed
    <2>6. UNCHANGED <<qi, work_count, incomplete>>
      BY <1>4 DEF StealClaimed, itemVars, poolVars
    <2>7. /\ waiting'[w] = waiting[w] \o First(q) /\ waiting'[v] = waiting[v]
          /\ claimed'[w] = claimed[w] /\ claimed'[v] = Rest(q)
      BY <1>b, <2>q, <2>1, <2>5
    <2>8. Len(waiting'[w]) = Len(waiting[w]) + Len(First(q))
      BY <1>b, <2>4, <2>7, ConcatProperties
    <2>9. PICK m \in Nat : m = Len(First(q))
      BY <2>4, LenProperties
    <2>10. InMemory(w)' + InMemory(v)' = InMemory(w) + InMemory(v)
      <3>1. Batch(w)' = Batch(w) /\ Batch(v)' = Batch(v)
        BY <2>6 DEF Batch
      <3>2. InMemory(w)' = InMemory(w) + m
        <4>1. Len(waiting'[w]) = Len(waiting[w]) + m /\ claimed'[w] = claimed[w]
          BY <2>6, <2>7, <2>8, <2>9
        <4>3. PICK i, j, k \in Nat : i = Len(waiting[w]) /\ j = Len(claimed[w]) /\ k = Batch(w)
          BY <1>c, <1>d
        <4>4. InMemory(w)' = (i + m) + (j + k)
          BY <3>1, <4>1, <4>3, Zenon DEF InMemory
        <4>5. InMemory(w) = i + (j + k)
          BY <4>3, Zenon DEF InMemory
        <4> QED  BY <4>4, <4>5
      <3>3. InMemory(v) = InMemory(v)' + m
        <4>1. Len(claimed[v]) = Len(claimed'[v]) + m /\ waiting'[v] = waiting[v]
          BY <1>d, <2>q, <2>3, <2>6, <2>7, <2>9
        <4>2. Len(claimed'[v]) \in Nat
          BY <2>4, <2>7, LenProperties
        <4>3. PICK i, j, k \in Nat : i = Len(waiting'[v]) /\ j = Len(claimed'[v]) /\ k = Batch(v)'
          BY <1>c, <1>d, <4>1, <4>2
        <4>4. InMemory(v) = i + ((j + m) + k)
          BY <3>1, <4>1, <4>3, Zenon DEF InMemory
        <4>5. InMemory(v)' = i + (j + k)
          BY <4>3, Zenon DEF InMemory
        <4> QED  BY <4>4, <4>5
      <3> QED  BY <1>c, <3>2, <3>3
    <2>11. \A u \in Workers : u # w /\ u # v => InMemory(u)' = InMemory(u)
      BY <1>b, <2>1, <2>5, <2>6 DEF InMemory, Batch
    <2> QED  BY <1>0, <2>1, <2>6, <2>10, <2>11, MemoryOfTwo
  <1>5. ASSUME NEW w \in Workers, ClaimWork(w) PROVE MemoryExact'
    <2>1. /\ claimed'[w] = claimed[w] \o waiting[w] /\ waiting'[w] = <<>>
          /\ \A v \in Workers : v # w => claimed'[v] = claimed[v] /\ waiting'[v] = waiting[v]
          /\ UNCHANGED <<qi, work_count, incomplete>>
      BY <1>b, <1>5 DEF ClaimWork, itemVars, poolVars
    <2>2. Len(claimed'[w]) = Len(claimed[w]) + Len(waiting[w]) /\ Len(waiting'[w]) = 0
      BY <1>b, <2>1, ConcatProperties, EmptySeq
    <2>3. InMemory(w)' = InMemory(w)
      BY <1>b, <1>d, <2>1, <2>2 DEF InMemory, Batch
    <2>4. \A v \in Workers : v # w => InMemory(v)' = InMemory(v)
      BY <2>1 DEF InMemory, Batch
    <2>5. incomplete' = incomplete + InMemory(w)' - InMemory(w)
      BY <1>b, <1>c, <2>1, <2>3
    <2> QED  BY <1>0, <2>4, <2>5, MemoryOfOne
  <1>6. ASSUME NEW w \in Workers, PopWork(w) PROVE MemoryExact'
    <2>1. /\ claimed'[w] = Tail(claimed[w]) /\ claimed[w] # <<>>
          /\ qi'[w] = Head(claimed[w])
          /\ \A v \in Workers : v # w => claimed'[v] = claimed[v] /\ qi'[v] = qi[v]
          /\ UNCHANGED <<waiting, work_count, incomplete>>
      BY <1>b, <1>6 DEF PopWork, poolVars
    <2>2. Len(claimed'[w]) = Len(claimed[w]) - 1 /\ Head(claimed[w]) \in Work
      BY <1>b, <2>1, HeadTailProperties
    <2>3. qi[w] = NoItem /\ qi'[w] # NoItem
      BY <1>6, <2>1, <2>2, ItemsAssumption DEF PopWork, CountInv, HandInv, EnqueuePC, Work
    <2>4. InMemory(w)' = InMemory(w)
      BY <1>b, <1>d, <2>1, <2>2, <2>3 DEF InMemory, Batch
    <2>5. \A v \in Workers : v # w => InMemory(v)' = InMemory(v)
      BY <2>1 DEF InMemory, Batch
    <2>6. incomplete' = incomplete + InMemory(w)' - InMemory(w)
      BY <1>b, <1>c, <2>1, <2>4
    <2> QED  BY <1>0, <2>5, <2>6, MemoryOfOne
  <1>7. ASSUME NEW w \in Workers,
               RunSucceeds(w) \/ RunFails(w) \/ SwapEmpty(w) \/ SwapPrepFails(w) \/ SwapDone(w)
        PROVE  MemoryExact'
    <2>1. qi[w] # NoItem
      BY <1>7, ItemsAssumption, TokenFacts DEF RunSucceeds, RunFails, SwapEmpty,
         SwapPrepFails, SwapDone, CountInv, HandInv
    <2>2. /\ \E rc \in {0, 1} : Processed(w, rc)
          /\ UNCHANGED <<waiting, claimed, incomplete>>
      BY <1>7 DEF RunSucceeds, RunFails, SwapEmpty, SwapPrepFails, SwapDone, queueVars,
         poolVars
    <2>3. /\ qi'[w] = NoItem /\ work_count'[w] = work_count[w] + 1
          /\ \A v \in Workers : v # w => qi'[v] = qi[v] /\ work_count'[v] = work_count[v]
      BY <1>b, <2>2 DEF Processed
    <2>4. InMemory(w)' = InMemory(w)
      BY <1>b, <1>d, <2>1, <2>2, <2>3 DEF InMemory, Batch
    <2>5. \A v \in Workers : v # w => InMemory(v)' = InMemory(v)
      BY <2>2, <2>3 DEF InMemory, Batch
    <2>6. incomplete' = incomplete + InMemory(w)' - InMemory(w)
      BY <1>b, <1>c, <2>2, <2>4
    <2> QED  BY <1>0, <2>5, <2>6, MemoryOfOne
  <1>8. ASSUME NEW w \in Workers, Account(w) PROVE MemoryExact'
    <2>1. /\ work_count'[w] = 0 /\ incomplete' = incomplete - work_count[w]
          /\ \A v \in Workers : v # w => work_count'[v] = work_count[v]
          /\ UNCHANGED <<waiting, claimed, qi>>
      BY <1>b, <1>8 DEF Account, queueVars
    <2>2. InMemory(w)' = InMemory(w) - work_count[w]
      <3>1. /\ work_count[w] \in Nat /\ Len(waiting[w]) \in Nat /\ Len(claimed[w]) \in Nat
            /\ Batch(w) \in Nat
        BY <1>b, <1>d DEF Batch
      <3>2. Batch(w)' = Batch(w) - work_count[w]
        BY <2>1, <3>1 DEF Batch
      <3> HIDE DEF Batch
      <3> QED  BY <2>1, <3>1, <3>2 DEF InMemory
    <2>3. \A v \in Workers : v # w => InMemory(v)' = InMemory(v)
      BY <2>1 DEF InMemory, Batch
    <2>4. incomplete' = incomplete + InMemory(w)' - InMemory(w)
      BY <1>b, <1>c, <2>1, <2>2
    <2> QED  BY <1>0, <2>3, <2>4, MemoryOfOne
  <1>9. ~Destroy
    BY <1>b, Distinct DEF Destroy, Goto, IInv, TypeOK, ThreadTypes
  <1>10. ASSUME NEW p \in Procs, PlaceInSwap(p) \/ PlaceFails(p) PROVE MemoryExact'
    BY <1>1, <1>10 DEF PlaceInSwap, PlaceFails, queueVars, itemVars, poolVars
  <1>11. ASSUME NEW w \in Workers, SwapPrep(w) \/ SwapRead(w) PROVE MemoryExact'
    BY <1>1, <1>11 DEF SwapPrep, SwapRead, queueVars, itemVars, poolVars
  <1>12. ASSUME NEW s \in Settings, Set(s[1], s[2]) PROVE MemoryExact'
    BY <1>1, <1>12 DEF Set, queueVars, itemVars
  <1>13. UNCHANGED counted => MemoryExact'
    BY <1>1 DEF counted, queueVars
  <1> QED  BY <1>2, <1>3, <1>4, <1>5, <1>6, <1>7, <1>8, <1>9, <1>10, <1>11, <1>12, <1>13,
              Kinds DEF Counting

\* Every step changes pool->swapped by what it adds to the swapped work.
LEMMA SwapStep ==
    ASSUME IInv, IInv', CountInv, [Next]_vars
    PROVE  SwapExact'
  <1> SUFFICES ASSUME pc'[Main] # "destroyed", ~swap_lost' PROVE SwapExact'
    BY DEF SwapExact
  <1>0. pc[Main] # "destroyed" /\ TypeOK /\ TypeOK' /\ SwapExact
    BY Destroyed DEF IInv, CountInv
  <1>b. /\ swap_write \in [Workers -> Seq(Items)] /\ swap_read \in [Workers -> Seq(Items)]
        /\ count \in [Workers -> Nat]
        /\ swapped \in Int
    BY <1>0 DEF TypeOK, SwapTypes, ItemTypes, PoolTypes
  <1>c. \A w \in Workers : InSwap(w) \in Nat /\ InSwap(w)' \in Nat
    BY <1>0, CountsType, CountsTypeNext
  <1>d. \A w \in Workers : Len(swap_write[w]) \in Nat /\ Len(swap_read[w]) \in Nat
    BY <1>b, LenProperties
  <1>1. ASSUME UNCHANGED <<swap_write, swap_read, count, swapped>>, ~swap_lost
        PROVE  SwapExact'
    <2>1. \A w \in Workers : InSwap(w)' = InSwap(w)
      BY <1>1 DEF InSwap
    <2>2. swapped' = swapped + InSwap(0)' - InSwap(0)
      BY <1>b, <1>c, <1>1, <2>1, Distinct
    <2> QED  BY <1>0, <1>1, <2>1, <2>2, Distinct, SwapOfOne
  <1>2. ASSUME NEW p \in Procs, PlaceInSwap(p) PROVE SwapExact'
    <2>1. PICK t \in Workers : t = target[p]
      BY <1>0 DEF TypeOK, EnqTypes
    <2>2. swap_write[t] \in Seq(Items) /\ new_work[p] \in Items
      BY <1>b, <1>2, SwappedIsItem DEF PlaceInSwap
    <2>3. /\ swap_write'[t] = Append(swap_write[t], new_work[p])
          /\ \A v \in Workers : v # t => swap_write'[v] = swap_write[v]
          /\ UNCHANGED <<swap_read, count, swap_lost>>
          /\ swapped' = swapped + 1
      BY <1>b, <1>2, <2>1 DEF PlaceInSwap, itemVars
    <2>4. Len(swap_write'[t]) = Len(swap_write[t]) + 1
      BY <2>2, <2>3, AppendProperties
    <2>5. \A v \in Workers : v # t => InSwap(v)' = InSwap(v)
      BY <2>3 DEF InSwap
    <2>6. InSwap(t)' = InSwap(t) + 1
      <3>1. swap_read'[t] = swap_read[t] /\ count'[t] = count[t] /\ count[t] \in Nat
        BY <1>b, <2>3
      <3> QED  BY <1>d, <2>4, <3>1 DEF InSwap
    <2>7. swapped' = swapped + InSwap(t)' - InSwap(t)
      BY <1>b, <1>c, <2>3, <2>6
    <2> QED  BY <1>0, <2>3, <2>5, <2>7, SwapOfOne
  <1>3. ASSUME NEW w \in Workers, SwapEmpty(w) PROVE SwapExact'
    <2>1. /\ swap_read'[w] = <<>> /\ swap_read[w] = <<>>
          /\ \A v \in Workers : v # w => swap_read'[v] = swap_read[v]
          /\ UNCHANGED <<swap_write, count, swapped, swap_lost>>
      BY <1>b, <1>3 DEF SwapEmpty, CountInv, HandInv, EnqueuePC, poolVars, histVars
    <2>2. swap_read' = swap_read
      BY <1>b, <1>3, <2>1 DEF SwapEmpty
    <2> QED  BY <1>1, <2>1, <2>2
  <1>4. ASSUME NEW w \in Workers, SwapPrep(w) PROVE SwapExact'
    <2>1. /\ swap_read'[w] = swap_write[w] /\ swap_write'[w] = <<>>
          /\ swap_read[w] = <<>>
          /\ \A v \in Workers : v # w => /\ swap_read'[v] = swap_read[v]
                                         /\ swap_write'[v] = swap_write[v]
          /\ UNCHANGED <<count, swapped, swap_lost>>
      BY <1>b, <1>4 DEF SwapPrep, CountInv, HandInv, EnqueuePC, poolVars, itemVars, histVars
    <2>2. Len(swap_read[w]) = 0 /\ Len(swap_write'[w]) = 0
      BY <2>1
    <2>3. InSwap(w)' = InSwap(w)
      <3>1. count'[w] = count[w] /\ count[w] \in Nat
        BY <1>b, <2>1
      <3> QED  BY <1>d, <2>1, <2>2, <3>1 DEF InSwap
    <2>4. \A v \in Workers : v # w => InSwap(v)' = InSwap(v)
      BY <2>1 DEF InSwap
    <2>5. swapped' = swapped + InSwap(w)' - InSwap(w)
      BY <1>b, <1>c, <2>1, <2>3
    <2> QED  BY <1>0, <2>1, <2>4, <2>5, SwapOfOne
  <1>5. ASSUME NEW w \in Workers, SwapRead(w) PROVE SwapExact'
    <2>1. /\ swap_read'[w] = Tail(swap_read[w]) /\ swap_read[w] # <<>>
          /\ count'[w] = count[w] + 1 /\ count[w] \in Nat
          /\ \A v \in Workers : v # w => swap_read'[v] = swap_read[v] /\ count'[v] = count[v]
          /\ UNCHANGED <<swap_write, swapped, swap_lost>>
      BY <1>b, <1>5 DEF SwapRead, poolVars, histVars
    <2>2. Len(swap_read[w]) = Len(swap_read'[w]) + 1 /\ Len(swap_read'[w]) \in Nat
      BY <1>b, <2>1, HeadTailProperties, LenProperties
    <2>3. InSwap(w)' = InSwap(w)
      <3>1. swap_write'[w] = swap_write[w]
        BY <2>1
      <3>2. count'[w] = count[w] + 1
        BY <2>1
      <3>3. Len(swap_read'[w]) + count'[w] = Len(swap_read[w]) + count[w]
        BY <2>1, <2>2, <3>2
      <3> QED  BY <1>b, <1>d, <3>1, <3>3 DEF InSwap
    <2>4. \A v \in Workers : v # w => InSwap(v)' = InSwap(v)
      BY <2>1 DEF InSwap
    <2>5. swapped' = swapped + InSwap(w)' - InSwap(w)
      BY <1>b, <1>c, <2>1, <2>3
    <2> QED  BY <1>0, <2>1, <2>4, <2>5, SwapOfOne
  <1>6. ASSUME NEW w \in Workers, SwapDone(w) PROVE SwapExact'
    <2>1. /\ count'[w] = 0 /\ swapped' = swapped - count[w]
          /\ \A v \in Workers : v # w => count'[v] = count[v]
          /\ UNCHANGED <<swap_write, swap_read, swap_lost>>
      BY <1>b, <1>6 DEF SwapDone, swapVars, histVars
    <2>2. InSwap(w)' = InSwap(w) - count[w]
      <3>1. swap_write'[w] = swap_write[w] /\ swap_read'[w] = swap_read[w] /\ count'[w] = 0
        BY <2>1
      <3> QED  BY <1>b, <1>d, <3>1 DEF InSwap
    <2>3. \A v \in Workers : v # w => InSwap(v)' = InSwap(v)
      BY <2>1 DEF InSwap
    <2>4. swapped' = swapped + InSwap(w)' - InSwap(w)
      BY <1>b, <1>c, <2>1, <2>2
    <2> QED  BY <1>0, <2>1, <2>3, <2>4, SwapOfOne
  <1>7. ASSUME NEW s \in Settings, Set(s[1], s[2]) PROVE SwapExact'
    <2>1. \A w \in Workers : swap_read[w] = <<>> /\ count[w] = 0
      BY <1>7 DEF Set, IInv, StartedInv, CountInv, HandInv, EnqueuePC
    <2>2. UNCHANGED <<swap_read, count, swap_lost>>
      BY <1>7 DEF Set, itemVars, histVars
    <2>3. CASE DropsSwap(s[1])
      <3>1. swapped' = 0
        BY <1>7, <2>3 DEF Set
      <3>2. props.queue_limit = 0 \/ props.queue_limit > 0
        BY <1>0 DEF TypeOK, PoolTypes, PropType
      <3>3. \A w \in Workers : swap_write'[w] = <<>>
        BY <1>7, <2>3, <3>2 DEF Set, DropsSwap, CountInv, LimitInv
      <3>4. \A w \in Workers : InSwap(w)' = 0
        BY <2>1, <2>2, <3>3 DEF InSwap
      <3>5. [w \in Workers |-> InSwap(w)'] \in [Workers -> {0}]
        BY <3>4
      <3>6. SumFunction([w \in Workers |-> InSwap(w)']) = 0
        BY <3>5, SumZero, WorkersFinite, Zenon
      <3> QED  BY <3>1, <3>6 DEF SwapExact
    <2>4. CASE ~DropsSwap(s[1])
      <3>1. UNCHANGED <<swap_write, swapped>>
        BY <1>7, <2>4 DEF Set, DropsSwap
      <3> QED  BY <1>1, <2>2, <3>1
    <2> QED  BY <2>3, <2>4
  <1>8. ~Destroy
    BY <1>0, Distinct DEF Destroy, Goto, TypeOK, ThreadTypes
  <1>9. ASSUME NEW p \in Procs, PlaceInMemory(p) \/ PlaceFails(p) PROVE SwapExact'
    BY <1>1, <1>9 DEF PlaceInMemory, PlaceFails, swapVars, itemVars, poolVars
  <1>10. ASSUME NEW w \in Workers,
                \/ StealWaiting(w) \/ StealClaimed(w) \/ ClaimWork(w) \/ PopWork(w)
                \/ RunSucceeds(w) \/ RunFails(w) \/ Account(w)
         PROVE  SwapExact'
    BY <1>1, <1>10 DEF StealWaiting, StealClaimed, ClaimWork, PopWork, RunSucceeds,
       RunFails,
       Account, swapVars, itemVars, poolVars, histVars
  <1>11. ASSUME NEW w \in Workers PROVE ~SwapPrepFails(w)
    BY DEF SwapPrepFails
  <1>12. UNCHANGED counted => SwapExact'
    BY <1>1 DEF counted, swapVars
  <1> QED  BY <1>2, <1>3, <1>4, <1>5, <1>6, <1>7, <1>8, <1>9, <1>10, <1>11, <1>12,
              Kinds DEF Counting

-----------------------------------------------------------------------------
(* The theorems about the counters.                                         *)

\* At first nothing is counted and there is nothing.
LEMMA InitCount == Init => CountInv
  <1> SUFFICES ASSUME Init PROVE CountInv
    OBVIOUS
  <1>1. HandInv
    <2>1. \A w \in Workers : /\ pc[w] = "idle" /\ qi[w] = NoItem
                             /\ swap_read[w] = <<>> /\ count[w] = 0
      BY Distinct DEF Init
    <2> QED  BY <2>1 DEF HandInv, EnqueuePC
  <1>2. LimitInv
    <2>1. props.queue_limit \in Nat
      BY PropsAssumption DEF Init, PropType
    <2>2. \A w \in Workers : swap_write[w] = <<>>
      BY DEF Init
    <2>3. \A w \in Workers : swap_open[w] = (props.queue_limit > 0)
      BY Zenon DEF Init
    <2>4. props.queue_limit = 0 => ~(props.queue_limit > 0)
      BY <2>1
    <2> QED  BY <2>2, <2>3, <2>4, Zenon DEF LimitInv
  <1>3. \A w \in Workers : InMemory(w) = 0 /\ InSwap(w) = 0
    BY DEF Init, InMemory, Batch, InSwap
  <1>4. /\ [w \in Workers |-> InMemory(w)] \in [Workers -> {0}]
        /\ [w \in Workers |-> InSwap(w)] \in [Workers -> {0}]
    BY <1>3
  <1>5. /\ SumFunction([w \in Workers |-> InMemory(w)]) = 0
        /\ SumFunction([w \in Workers |-> InSwap(w)]) = 0
    BY <1>4, SumZero, WorkersFinite, Zenon
  <1>6. incomplete = 0 /\ swapped = 0
    BY DEF Init
  <1> QED  BY <1>1, <1>2, <1>5, <1>6 DEF CountInv, MemoryExact, SwapExact

\* Every step keeps the counters exact.
LEMMA CountStep == IInv /\ IInv' /\ CountInv /\ [Next]_vars => CountInv'
  BY HandStep, LimitStep, MemoryStep, SwapStep DEF CountInv

\* The counters are right in every state, with what makes them so.
THEOREM CountInvariant == Spec => []CountInv
  BY Invariant, InitCount, CountStep, PTL DEF Spec

\* The counters by which QPTPool_wait and wait_for_work decide are the work
\* that there is: no interleaving of enqueues, thefts, batches and swap files
\* of any number of threads counts an item twice or forgets one.
THEOREM CountersAreExact == Spec => []CountersExact
  <1>1. CountInv => CountersExact
    BY DEF CountersExact, CountInv, MemoryExact, SwapExact
  <1> QED  BY CountInvariant, <1>1, PTL

-----------------------------------------------------------------------------
(* No work is lost.                                                         *)

\* A pool that has been destroyed is not running.
ClosedInv == pc[Main] = "destroyed" => state # "RUNNING"

\* A pool that is destroyed is not running.
LEMMA ClosedStep ==
    ASSUME IInv, ClosedInv, [Next]_vars
    PROVE  ClosedInv'
  <1> USE DEF poolVars
  <1>1. pc'[Main] = "destroyed" => pc[Main] = "destroyed" \/ Destroy
    BY Destroyed DEF IInv
  <1>2. state' = state \/ SetStopping \/ \E k \in 0 .. NThreads : Start(k)
    <2>1. ASSUME NEW p \in Procs, EnqueueSteps(p) PROVE state' = state
      BY <2>1 DEF EnqueueSteps, Enqueue, LockTarget, LockHere, WakeTarget, PlaceInMemory,
         PlaceInSwap, PlaceFails
    <2>2. ASSUME NEW w \in Workers, WorkerSteps(w) PROVE state' = state
      BY <2>2 DEF WorkerSteps, LockThread, LockPool, StealNothing, StealWaiting,
         StealClaimed, Sleep, Reacquire, Relock, Leave, Proceed, ClaimWork, PopWork,
         PopNothing, Spawn, RunSucceeds, RunFails, SetErrored, Account, ExitBroadcast,
         SwapEmpty, SwapPrep, SwapPrepFails, SwapRead, SwapDone
    <2>3. ASSUME NEW w \in Workers, SpuriousWakeup(w) PROVE state' = state
      BY <2>3 DEF SpuriousWakeup
    <2>4. ASSUME WaitSteps \/ SpuriousMainWakeup, ~SetStopping PROVE state' = state
      BY <2>4 DEF WaitSteps, WaitMem, SwapRound, WaitReturns, StopBroadcast, Join,
         SpuriousMainWakeup
    <2>5. ASSUME UserSteps, ~\E k \in 0 .. NThreads : Start(k) PROVE state' = state
      BY <2>5 DEF UserSteps, Set, UserEnqueue, UserEnqueueHere, UserWait, Destroy
    <2>6. UNCHANGED vars => state' = state
      BY DEF vars
    <2> QED  BY <2>1, <2>2, <2>3, <2>4, <2>5, <2>6 DEF Next, Terminated
  <1>3. Destroy => state # "RUNNING" /\ state' = state
    BY DEF Destroy
  <1>4. SetStopping => state' # "RUNNING"
    BY DEF SetStopping
  <1>5. (\E k \in 0 .. NThreads : Start(k)) => pc[Main] # "destroyed" /\ ~Destroy
    BY DEF Start, Destroy
  <1> QED  BY <1>1, <1>2, <1>3, <1>4, <1>5 DEF ClosedInv

\* No step puts a thread to sleep, gives work to one that sleeps, or takes
\* the wake-up from it.
LEMMA StillAwake ==
    ASSUME NoLostWork,
           \A w \in Workers : pc'[w] = "asleep" =>
               /\ pc[w] = "asleep"
               /\ waiting'[w] # <<>> => waiting[w] # <<>>
               /\ claimed'[w] # <<>> => claimed[w] # <<>>,
           \A p \in Procs : pc[p] = "wake" => pc'[p] = "wake" /\ target'[p] = target[p]
    PROVE  NoLostWork'
  BY DEF NoLostWork, HasWork

\* Every step wakes the thread it gives work to, or is about to.
LEMMA LostStep ==
    ASSUME IInv, CountInv, ClosedInv, NoLostWork, [Next]_vars
    PROVE  NoLostWork'
  <1> USE DEF Goto, queueVars, enqVars
  <1>0. /\ pc \in [Procs -> WorkerPC \cup EnqueuePC \cup MainPC]
        /\ target \in [Procs -> Workers]
        /\ waiting \in [Workers -> Seq(Work)] /\ claimed \in [Workers -> Seq(Work)]
    BY DEF IInv, TypeOK, ThreadTypes, EnqTypes, QueueTypes
  <1>1. ASSUME NEW p \in Procs, Enqueue(p) PROVE NoLostWork'
    BY <1>0, <1>1, StillAwake, Distinct DEF Enqueue, Return
  <1>2. ASSUME NEW p \in Procs, LockTarget(p) PROVE NoLostWork'
    BY <1>0, <1>2, StillAwake, Distinct DEF LockTarget
  <1>3. ASSUME NEW p \in Procs, LockHere(p) PROVE NoLostWork'
    BY <1>0, <1>3, StillAwake, Distinct DEF LockHere, Return
  <1>4. ASSUME NEW p \in Procs, PlaceInMemory(p) \/ PlaceInSwap(p) \/ PlaceFails(p)
        PROVE  NoLostWork'
    <2>1. /\ pc[p] = "place" /\ pc' = [pc EXCEPT ![p] = "wake"]
          /\ UNCHANGED <<claimed, target>>
          /\ \A w \in Workers : w # target[p] => waiting'[w] = waiting[w]
      BY <1>0, <1>4 DEF PlaceInMemory, PlaceInSwap, PlaceFails
    <2> SUFFICES ASSUME NEW w \in Workers, pc'[w] = "asleep", HasWork(w)'
                 PROVE  \E r \in Procs : pc'[r] = "wake" /\ target'[r] = w
      BY DEF NoLostWork
    <2>2. CASE w = target[p]
      BY <1>0, <2>1, <2>2
    <2>3. CASE w # target[p]
      <3>1. pc[w] = "asleep" /\ HasWork(w)
        BY <1>0, <2>1, <2>3, Distinct DEF HasWork
      <3>2. PICK r \in Procs : pc[r] = "wake" /\ target[r] = w
        BY <3>1 DEF NoLostWork
      <3> QED  BY <1>0, <2>1, <3>2
    <2> QED  BY <2>2, <2>3
  <1>5. ASSUME NEW p \in Procs, WakeTarget(p) PROVE NoLostWork'
    <2>1. /\ \A r \in Procs : r # p /\ pc[r] # "asleep" => pc'[r] = pc[r]
          /\ \A w \in Workers : pc'[w] = "asleep" => w # target[p] /\ pc[w] = "asleep"
          /\ \A r \in Procs : r # p => target'[r] = target[r]
          /\ UNCHANGED <<waiting, claimed>>
      BY <1>0, <1>5, Distinct DEF WakeTarget, Return, Woken
    <2> SUFFICES ASSUME NEW w \in Workers, pc'[w] = "asleep", HasWork(w)'
                 PROVE  \E r \in Procs : pc'[r] = "wake" /\ target'[r] = w
      BY DEF NoLostWork
    <2>2. pc[w] = "asleep" /\ HasWork(w) /\ w # target[p]
      BY <2>1 DEF HasWork
    <2>3. PICK r \in Procs : pc[r] = "wake" /\ target[r] = w
      BY <2>2 DEF NoLostWork
    <2> QED  BY <2>1, <2>2, <2>3
  <1>6. ASSUME NEW w \in Workers, LockThread(w) PROVE NoLostWork'
    BY <1>0, <1>6, StillAwake, Distinct DEF LockThread
  <1>7. ASSUME NEW w \in Workers, LockPool(w) PROVE NoLostWork'
    BY <1>0, <1>7, StillAwake, Distinct DEF LockPool
  <1>8. ASSUME NEW w \in Workers, StealNothing(w) PROVE NoLostWork'
    BY <1>0, <1>8, StillAwake, Distinct DEF StealNothing
  <1>9. ASSUME NEW w \in Workers, StealWaiting(w) PROVE NoLostWork'
    <2>1. PICK v \in Workers : v = Neighbor(w)
      BY NeighborType DEF IInv
    <2>2. pc' = [pc EXCEPT ![w] = "wait"] /\ UNCHANGED target
      BY <1>9 DEF StealWaiting
    <2>3. \A u \in Workers \ {w} : /\ waiting'[u] # <<>> => waiting[u] # <<>>
                                   /\ claimed'[u] # <<>> => claimed[u] # <<>>
      BY <1>0, <1>9, <2>1 DEF StealWaiting
    <2>4. pc[w] # "wake"
      BY <1>9 DEF StealWaiting
    <2> QED  BY <1>0, <2>2, <2>3, <2>4, StillAwake, Distinct
  <1>10. ASSUME NEW w \in Workers, StealClaimed(w) PROVE NoLostWork'
    <2>1. PICK v \in Workers : v = Neighbor(w)
      BY NeighborType DEF IInv
    <2>2. pc' = [pc EXCEPT ![w] = "wait"] /\ UNCHANGED target
      BY <1>10 DEF StealClaimed
    <2>3. \A u \in Workers \ {w} : /\ waiting'[u] # <<>> => waiting[u] # <<>>
                                   /\ claimed'[u] # <<>> => claimed[u] # <<>>
      BY <1>0, <1>10, <2>1 DEF StealClaimed
    <2>4. pc[w] # "wake"
      BY <1>10 DEF StealClaimed
    <2> QED  BY <1>0, <2>2, <2>3, <2>4, StillAwake, Distinct
  <1>11. ASSUME NEW w \in Workers, Sleep(w) PROVE NoLostWork'
    <2>1. ~HasWork(w)
      <3>1. CASE state = "RUNNING"
        <4>1. SUFFICES ASSUME HasWork(w) PROVE FALSE
          OBVIOUS
        <4>2. incomplete = 0 /\ pc[Main] # "destroyed"
          BY <1>11, <3>1, <4>1 DEF Sleep, KeepWaiting, Outstanding, ClosedInv
        <4>3. InMemory(w) > 0
          <5>1. Len(waiting[w]) \in Nat /\ Len(claimed[w]) \in Nat /\ Batch(w) \in Nat
            BY <1>0, LenProperties, CountsType DEF IInv
          <5>2. Len(waiting[w]) # 0 \/ Len(claimed[w]) # 0
            BY <1>0, <4>1, EmptySeq DEF HasWork
          <5> QED  BY <5>1, <5>2 DEF InMemory
        <4> DEFINE f == [v \in Workers |-> InMemory(v)]
        <4>4. f \in [Workers -> Nat] /\ f[w] = InMemory(w)
          BY CountsType DEF IInv
        <4>5. incomplete = SumFunction(f)
          BY <4>2 DEF CountInv, MemoryExact
        <4> HIDE DEF f
        <4>6. SumFunction(f) >= f[w]
          BY <4>4, SumBound, WorkersFinite, Zenon
        <4> QED  BY <4>2, <4>3, <4>4, <4>5, <4>6
      <3>2. CASE state # "RUNNING"
        BY <1>11, <3>2 DEF Sleep, KeepWaiting
      <3> QED  BY <3>1, <3>2
    <2>2. /\ pc' = [pc EXCEPT ![w] = "asleep"] /\ pc[w] = "wait"
          /\ UNCHANGED <<waiting, claimed, target>>
      BY <1>11 DEF Sleep
    <2> QED  BY <1>0, <2>1, <2>2, Distinct DEF NoLostWork, HasWork
  <1>12. ASSUME NEW w \in Workers, Reacquire(w) PROVE NoLostWork'
    BY <1>0, <1>12, StillAwake, Distinct DEF Reacquire
  <1>13. ASSUME NEW w \in Workers, Relock(w) PROVE NoLostWork'
    BY <1>0, <1>13, StillAwake, Distinct DEF Relock
  <1>14. ASSUME NEW w \in Workers, Leave(w) PROVE NoLostWork'
    BY <1>0, <1>14, StillAwake, Distinct DEF Leave
  <1>15. ASSUME NEW w \in Workers, Proceed(w) PROVE NoLostWork'
    BY <1>0, <1>15, StillAwake, Distinct DEF Proceed
  <1>16. ASSUME NEW w \in Workers, ClaimWork(w) PROVE NoLostWork'
    BY <1>0, <1>16, StillAwake, Distinct DEF ClaimWork
  <1>17. ASSUME NEW w \in Workers, PopWork(w) PROVE NoLostWork'
    BY <1>0, <1>17, StillAwake, Distinct DEF PopWork
  <1>18. ASSUME NEW w \in Workers, PopNothing(w) PROVE NoLostWork'
    BY <1>0, <1>18, StillAwake, Distinct DEF PopNothing
  <1>19. ASSUME NEW w \in Workers, Spawn(w) PROVE NoLostWork'
    BY <1>0, <1>19, StillAwake, Distinct DEF Spawn
  <1>20. ASSUME NEW w \in Workers, RunSucceeds(w) PROVE NoLostWork'
    BY <1>0, <1>20, StillAwake, Distinct DEF RunSucceeds
  <1>21. ASSUME NEW w \in Workers, RunFails(w) PROVE NoLostWork'
    BY <1>0, <1>21, StillAwake, Distinct DEF RunFails
  <1>22. ASSUME NEW w \in Workers, SetErrored(w) PROVE NoLostWork'
    BY <1>0, <1>22, StillAwake, Distinct DEF SetErrored
  <1>23. ASSUME NEW w \in Workers, Account(w) PROVE NoLostWork'
    BY <1>0, <1>23, StillAwake, Distinct DEF Account, MainWoken
  <1>24. ASSUME NEW w \in Workers, ExitBroadcast(w) PROVE NoLostWork'
    BY <1>0, <1>24, StillAwake, Distinct DEF ExitBroadcast, Woken
  <1>25. ASSUME NEW w \in Workers, SwapEmpty(w) PROVE NoLostWork'
    BY <1>0, <1>25, StillAwake, Distinct DEF SwapEmpty
  <1>26. ASSUME NEW w \in Workers, SwapPrep(w) PROVE NoLostWork'
    BY <1>0, <1>26, StillAwake, Distinct DEF SwapPrep
  <1>27. ASSUME NEW w \in Workers, SwapPrepFails(w) PROVE NoLostWork'
    BY <1>0, <1>27, StillAwake, Distinct DEF SwapPrepFails
  <1>28. ASSUME NEW w \in Workers, SwapRead(w) PROVE NoLostWork'
    BY <1>0, <1>28, StillAwake, Distinct DEF SwapRead
  <1>29. ASSUME NEW w \in Workers, SwapDone(w) PROVE NoLostWork'
    BY <1>0, <1>29, StillAwake, Distinct DEF SwapDone
  <1>30. ASSUME NEW w \in Workers, SpuriousWakeup(w) PROVE NoLostWork'
    BY <1>0, <1>30, StillAwake, Distinct DEF SpuriousWakeup
  <1>31. ASSUME WaitSteps \/ SpuriousMainWakeup PROVE NoLostWork'
    BY <1>0, <1>31, StillAwake, Distinct DEF WaitSteps, WaitMem, SwapRound, WaitReturns,
       SetStopping, StopBroadcast,
       Join, SpuriousMainWakeup, Woken
  <1>32. ASSUME UserSteps PROVE NoLostWork'
    <2>1. ASSUME NEW k \in 0 .. NThreads, Start(k) PROVE NoLostWork'
      <3>1. pc[Main] = "user" /\ \A w \in Workers : pc[w] \in {"idle", "gone"}
        BY <2>1 DEF Start, IInv, StartedInv
      <3>2. \A p \in Procs : pc[p] # "wake"
        BY <3>1 DEF Procs
      <3>3. \A w \in Workers : pc'[w] # "asleep"
        BY <2>1, <3>1, Distinct DEF Start
      <3> QED  BY <3>2, <3>3, StillAwake
    <2>2. ASSUME Destroy PROVE NoLostWork'
      BY <1>0, <2>2, StillAwake, Distinct DEF Destroy
    <2> QED  BY <1>0, <1>32, <2>1, <2>2, StillAwake, Distinct DEF UserSteps, Set,
           UserEnqueue,
                UserEnqueueHere, UserWait
  <1>33. UNCHANGED vars => NoLostWork'
    BY DEF vars, NoLostWork, HasWork
  <1> QED  BY <1>1, <1>2, <1>3, <1>4, <1>5, <1>6, <1>7, <1>8, <1>9, <1>10, <1>11,
       <1>12, <1>13, <1>14, <1>15, <1>16, <1>17, <1>18, <1>19, <1>20, <1>21, <1>22,
       <1>23, <1>24, <1>25, <1>26, <1>27, <1>28, <1>29, <1>30, <1>31, <1>32, <1>33
       DEF Next, EnqueueSteps, WorkerSteps, Terminated

\* A worker never sleeps in wait_for_work with work in one of its queues,
\* unless the thread that put it there has yet to broadcast: a wake-up is not
\* lost between the test of wait_for_work and its pthread_cond_wait, because
\* the test reads a counter that is exact.
THEOREM WorkIsNotLost == Spec => []NoLostWork
  <1>1. Init => ClosedInv /\ NoLostWork
    <2> SUFFICES ASSUME Init PROVE ClosedInv /\ NoLostWork
      OBVIOUS
    <2>1. pc[Main] = "user" /\ \A w \in Workers : pc[w] = "idle"
      BY Distinct DEF Init
    <2> QED  BY <2>1 DEF ClosedInv, NoLostWork
  <1>2. IInv /\ ClosedInv /\ [Next]_vars => ClosedInv'
    BY ClosedStep
  <1>3. IInv /\ CountInv /\ ClosedInv /\ NoLostWork /\ [Next]_vars => NoLostWork'
    BY LostStep
  <1> QED  BY Invariant, CountInvariant, <1>1, <1>2, <1>3, PTL DEF Spec

-----------------------------------------------------------------------------
(* QPTPool_wait_mem_lte keeps its promise.                                  *)

\* main() is in a function of the pool that waits exactly when call says so,
\* and until that function has told the threads to stop they are running.
CallInv ==
    /\ pc[Main] \in {"user", "destroyed"} => call = "user"
    /\ pc[Main] \notin {"user", "destroyed"} \cup EnqueuePC => call # "user"
    /\ (call # "user" /\ pc[Main] \notin {"stop_wake", "join"}) => state = "RUNNING"

\* What the threads and their enqueues do to main(): they wake it up, and
\* that is all.
LEMMA WorkersLeaveMain ==
    ASSUME TypeOK, NEW w \in Workers,
           EnqueueSteps(w) \/ WorkerSteps(w) \/ SpuriousWakeup(w)
    PROVE  /\ pc'[Main] = pc[Main]
              \/ (pc[Main] = "wait_mem_asleep" /\ pc'[Main] = "wait_mem")
           /\ UNCHANGED <<call, state, lte, props>>
           /\ errored => errored'
  <1> USE DEF Goto, poolVars, mainVars
  <1>0. pc \in [Procs -> WorkerPC \cup EnqueuePC \cup MainPC]
    BY DEF TypeOK, ThreadTypes
  <1>1. CASE EnqueueSteps(w)
    BY <1>0, <1>1, Distinct DEF EnqueueSteps, Enqueue, LockTarget, LockHere, WakeTarget,
       PlaceInMemory, PlaceInSwap, PlaceFails, Return, Woken
  <1>2. CASE \/ LockThread(w) \/ LockPool(w) \/ StealNothing(w) \/ StealWaiting(w)
             \/ StealClaimed(w) \/ Sleep(w) \/ Reacquire(w) \/ Relock(w) \/ Leave(w)
    BY <1>0, <1>2, Distinct DEF LockThread, LockPool, StealNothing, StealWaiting,
       StealClaimed, Sleep, Reacquire, Relock, Leave
  <1>3. CASE \/ Proceed(w) \/ ClaimWork(w) \/ PopWork(w) \/ PopNothing(w) \/ Spawn(w)
             \/ RunSucceeds(w) \/ RunFails(w) \/ SetErrored(w) \/ SpuriousWakeup(w)
    BY <1>0, <1>3, Distinct DEF Proceed, ClaimWork, PopWork, PopNothing, Spawn,
       RunSucceeds, RunFails, SetErrored, SpuriousWakeup
  <1>4. CASE \/ Account(w) \/ ExitBroadcast(w) \/ SwapEmpty(w) \/ SwapPrep(w)
             \/ SwapPrepFails(w) \/ SwapRead(w) \/ SwapDone(w)
    BY <1>0, <1>4, Distinct DEF Account, ExitBroadcast, SwapEmpty, SwapPrep,
       SwapPrepFails, SwapRead, SwapDone, MainWoken, Woken
  <1> QED  BY <1>1, <1>2, <1>3, <1>4 DEF WorkerSteps

\* Every step of main() keeps its place and its call together.
LEMMA CallStep ==
    ASSUME IInv, CallInv, [Next]_vars
    PROVE  CallInv'
  <1> USE DEF CallInv, Goto, EnqueuePC, poolVars
  <1>0. TypeOK /\ pc \in [Procs -> WorkerPC \cup EnqueuePC \cup MainPC]
    BY DEF IInv, TypeOK, ThreadTypes
  <1>1. ASSUME NEW w \in Workers, EnqueueSteps(w) \/ WorkerSteps(w) \/ SpuriousWakeup(w)
        PROVE  CallInv'
    BY <1>0, <1>1, WorkersLeaveMain
  <1>2. ASSUME EnqueueSteps(Main) PROVE CallInv'
    BY <1>0, <1>2, Distinct DEF EnqueueSteps, Enqueue, LockTarget, LockHere, WakeTarget,
       PlaceInMemory, PlaceInSwap, PlaceFails, Return, Woken, mainVars
  <1>3. ASSUME WaitMem \/ SpuriousMainWakeup PROVE CallInv'
    BY <1>0, <1>3, Distinct DEF WaitMem, SpuriousMainWakeup, mainVars
  <1>4. ASSUME SwapRound \/ WaitReturns \/ SetStopping \/ StopBroadcast \/ Join
        PROVE  CallInv'
    BY <1>0, <1>4, Distinct DEF SwapRound, WaitReturns, SetStopping, StopBroadcast, Join,
       Woken, mainVars
  <1>5. ASSUME UserSteps PROVE CallInv'
    <2>1. ASSUME NEW k \in 0 .. NThreads, Start(k) PROVE CallInv'
      BY <1>0, <2>1, Distinct DEF Start
    <2>2. ASSUME Destroy PROVE CallInv'
      BY <1>0, <2>2, Distinct DEF Destroy, mainVars
    <2>3. ASSUME NEW c \in {"wait_mem", "wait", "stop"}, NEW n \in LteCounts \cup {0},
                 UserWait(c, n)
          PROVE  CallInv'
      BY <1>0, <2>3, Distinct DEF UserWait
    <2>4. ASSUME NEW i \in Items,
                 UserEnqueue(i) \/ UserEnqueueHere(i, "WAIT") \/ UserEnqueueHere(i, "SWAP")
          PROVE  CallInv'
      BY <1>0, <2>4, Distinct DEF UserEnqueue, UserEnqueueHere, mainVars
    <2>5. ASSUME NEW s \in Settings, Set(s[1], s[2]) PROVE CallInv'
      BY <1>0, <2>5, Distinct DEF Set, mainVars
    <2> QED  BY <1>5, <2>1, <2>2, <2>3, <2>4, <2>5 DEF UserSteps
  <1>6. UNCHANGED vars => CallInv'
    BY DEF vars, mainVars
  <1>7. \A p \in Procs : p = Main \/ p \in Workers
    BY DEF Procs
  <1> QED  BY <1>1, <1>2, <1>3, <1>4, <1>5, <1>6, <1>7 DEF Next, WaitSteps, Terminated

\* QPTPool_wait_mem_lte returns to a caller that asked for at most count
\* items in memory only when no more are left, whatever the threads have
\* enqueued meanwhile, or after an error.
THEOREM WaitMemKeepsItsPromise == Spec => WaitMemReturnsDone
  <1> DEFINE Returns == pc[Main] = "wait_mem" /\ call = "wait_mem" /\ call' = "user"
  <1>1. Init => CallInv
    BY Distinct DEF Init, CallInv
  <1>2. IInv /\ CallInv /\ [Next]_vars => CallInv'
    BY CallStep
  <1>3. ASSUME IInv, CallInv, [Next]_vars, Returns
        PROVE  incomplete <= lte \/ StoppedOnError
    <2>1. ASSUME NEW w \in Workers PROVE ~(EnqueueSteps(w) \/ WorkerSteps(w) \/ SpuriousWakeup(w))
      BY <1>3, WorkersLeaveMain DEF IInv
    <2>2. ~EnqueueSteps(Main)
      BY <1>3 DEF EnqueueSteps, Enqueue, LockTarget, LockHere, WakeTarget, PlaceInMemory,
         PlaceInSwap, PlaceFails
    <2>3. /\ ~SwapRound /\ ~WaitReturns /\ ~SetStopping /\ ~StopBroadcast /\ ~Join
          /\ ~SpuriousMainWakeup /\ ~UserSteps
      BY <1>3 DEF SwapRound, WaitReturns, SetStopping, StopBroadcast, Join,
         SpuriousMainWakeup, UserSteps, Set, UserEnqueue, UserEnqueueHere, Start, UserWait,
         Destroy
    <2>4. ~UNCHANGED vars
      BY <1>3 DEF vars, mainVars
    <2>5. WaitMem
      BY <1>3, <2>1, <2>2, <2>3, <2>4 DEF Next, WaitSteps, Terminated, Procs
    <2>6. ~StillInMemory
      BY <1>3, <2>5 DEF WaitMem
    <2>7. state = "RUNNING"
      BY <1>3 DEF CallInv
    <2>8. incomplete \in Int /\ lte \in Nat
      BY <1>3 DEF IInv, TypeOK, PoolTypes, MainTypes
    <2> QED  BY <2>6, <2>7, <2>8 DEF StillInMemory
  <1>4. IInv /\ CallInv /\ [Next]_vars =>
            [Returns => incomplete <= lte \/ StoppedOnError]_vars
    BY <1>3
  <1> QED  BY Invariant, <1>1, <1>2, <1>4, PTL DEF Spec, WaitMemReturnsDone

-----------------------------------------------------------------------------
(* QPTPool_wait and QPTPool_stop wait for everything.                       *)

\* A thread with something in hand, and one with work in its queues, is
\* counted.
LEMMA IdleWhenNothingIncomplete ==
    ASSUME IInv, CountInv, pc[Main] # "destroyed", incomplete = 0, NEW w \in Workers
    PROVE  /\ waiting[w] = <<>> /\ claimed[w] = <<>>
           /\ qi[w] = NoItem /\ work_count[w] = 0
  <1> DEFINE f == [v \in Workers |-> InMemory(v)]
  <1>1. f \in [Workers -> Nat] /\ f[w] = InMemory(w)
    BY CountsType DEF IInv
  <1>2. incomplete = SumFunction(f)
    BY DEF CountInv, MemoryExact
  <1> HIDE DEF f
  <1>3. SumFunction(f) >= f[w]
    BY <1>1, SumBound, WorkersFinite, Zenon
  <1>4. InMemory(w) = 0
    BY <1>1, <1>2, <1>3
  <1>5. /\ waiting[w] \in Seq(Work) /\ claimed[w] \in Seq(Work)
        /\ work_count[w] \in Nat
    BY DEF IInv, TypeOK, QueueTypes, ItemTypes
  <1>6. Len(waiting[w]) \in Nat /\ Len(claimed[w]) \in Nat /\ Batch(w) \in Nat
    BY <1>5, LenProperties, CountsType DEF IInv
  <1>7. Len(waiting[w]) = 0 /\ Len(claimed[w]) = 0 /\ Batch(w) = 0
    BY <1>4, <1>6 DEF InMemory
  <1>8. work_count[w] = 0 /\ qi[w] = NoItem
    BY <1>5, <1>7 DEF Batch
  <1> QED  BY <1>5, <1>7, <1>8, EmptySeq

\* pool->incomplete is never negative.
LEMMA MemoryNotNegative ==
    ASSUME IInv, CountInv, pc[Main] # "destroyed"
    PROVE  incomplete >= 0
  <1> DEFINE f == [v \in Workers |-> InMemory(v)]
  <1>1. f \in [Workers -> Nat]
    BY CountsType DEF IInv
  <1>2. incomplete = SumFunction(f) /\ incomplete \in Int
    BY DEF CountInv, MemoryExact, IInv, TypeOK, PoolTypes
  <1> HIDE DEF f
  <1>3. SumFunction(f) >= f[0] /\ f[0] >= 0
    <2>1. SumFunction(f) >= f[0]
      BY <1>1, SumBound, WorkersFinite, Distinct, Zenon
    <2> QED  BY <1>1, <2>1, Distinct
  <1>4. f[0] \in Nat
    BY <1>1, Distinct
  <1> QED  BY <1>2, <1>3, <1>4

\* Nothing of a swap file is left when nothing is counted as swapped.
LEMMA NothingWhenNothingSwapped ==
    ASSUME IInv, CountInv, pc[Main] # "destroyed", ~swap_lost, swapped = 0, NEW w \in Workers
    PROVE  swap_write[w] = <<>> /\ swap_read[w] = <<>>
  <1> DEFINE f == [v \in Workers |-> InSwap(v)]
  <1>1. f \in [Workers -> Nat] /\ f[w] = InSwap(w)
    BY CountsType DEF IInv
  <1>2. swapped = SumFunction(f)
    BY DEF CountInv, SwapExact
  <1> HIDE DEF f
  <1>3. SumFunction(f) >= f[w]
    BY <1>1, SumBound, WorkersFinite, Zenon
  <1>4. InSwap(w) = 0
    BY <1>1, <1>2, <1>3
  <1>5. /\ swap_write[w] \in Seq(Items) /\ swap_read[w] \in Seq(Items)
        /\ count[w] \in Nat
    BY DEF IInv, TypeOK, SwapTypes, ItemTypes
  <1>6. Len(swap_write[w]) \in Nat /\ Len(swap_read[w]) \in Nat
    BY <1>5, LenProperties
  <1>7. Len(swap_write[w]) = 0 /\ Len(swap_read[w]) = 0
    BY <1>4, <1>5, <1>6 DEF InSwap
  <1> QED  BY <1>5, <1>7, EmptySeq

\* Once QPTPool_wait has seen that nothing is in memory, nothing gets there
\* while it looks for swapped work: only work brings more work.
EmptyInv ==
    /\ lte # 0 => call = "wait_mem"
    /\ call = "wait_mem" => pc[Main] \in {"wait_mem", "wait_mem_asleep"}
    /\ (pc[Main] = "wait_swapped" /\ ~StoppedOnError) => incomplete = 0

\* No step makes work out of nothing.
LEMMA EmptyStep ==
    ASSUME IInv, CountInv, CallInv, EmptyInv, [Next]_vars
    PROVE  EmptyInv'
  <1> USE DEF EmptyInv, Goto, poolVars, mainVars, StoppedOnError
  <1>0. /\ TypeOK /\ pc \in [Procs -> WorkerPC \cup EnqueuePC \cup MainPC]
        /\ incomplete \in Int /\ lte \in Nat
    BY DEF IInv, TypeOK, ThreadTypes, PoolTypes, MainTypes
  <1>1. ASSUME NEW w \in Workers, EnqueueSteps(w) \/ WorkerSteps(w) \/ SpuriousWakeup(w)
        PROVE  EmptyInv'
    <2>1. UNCHANGED <<call, lte, props>> /\ (errored => errored')
      BY <1>0, <1>1, WorkersLeaveMain
    <2>2. pc'[Main] = pc[Main] \/ (pc[Main] = "wait_mem_asleep" /\ pc'[Main] = "wait_mem")
      BY <1>0, <1>1, WorkersLeaveMain
    <2>3. ASSUME pc[Main] = "wait_swapped", incomplete = 0 PROVE incomplete' = 0
      <3>1. qi[w] = NoItem /\ work_count[w] = 0
        BY <2>3, IdleWhenNothingIncomplete
      <3>2. ~PlaceInMemory(w)
        BY <3>1 DEF PlaceInMemory, CountInv, HandInv, EnqueuePC
      <3>3. Account(w) => incomplete' = 0
        BY <2>3, <3>1 DEF Account
      <3>4. PlaceInMemory(w) \/ Account(w) \/ incomplete' = incomplete
        BY <1>1 DEF EnqueueSteps, Enqueue, LockTarget, LockHere, WakeTarget,
           PlaceInSwap, PlaceFails, WorkerSteps, LockThread, LockPool, StealNothing,
           StealWaiting, StealClaimed, Sleep, Reacquire, Relock, Leave, Proceed, ClaimWork,
           PopWork, PopNothing, Spawn, RunSucceeds, RunFails, SetErrored,
           ExitBroadcast, SwapEmpty, SwapPrep, SwapPrepFails, SwapRead, SwapDone,
           SpuriousWakeup
      <3> QED  BY <2>3, <3>2, <3>3, <3>4
    <2> QED  BY <2>1, <2>2, <2>3
  <1>2. ASSUME EnqueueSteps(Main) PROVE EmptyInv'
    BY <1>0, <1>2, Distinct DEF EnqueueSteps, Enqueue, LockTarget, LockHere, WakeTarget,
       PlaceInMemory, PlaceInSwap, PlaceFails, Return, Woken
  <1>3. ASSUME WaitMem PROVE EmptyInv'
    <2>1. UNCHANGED <<props, errored, incomplete>>
      BY <1>3 DEF WaitMem
    <2>2. state = "RUNNING"
      BY <1>3 DEF WaitMem, CallInv, EnqueuePC
    <2>3. lte' # 0 => call' = "wait_mem"
      BY <1>3 DEF WaitMem
    <2>4. ASSUME pc'[Main] = "wait_swapped", ~StoppedOnError PROVE incomplete = 0
      <3>1. ~StillInMemory /\ call # "wait_mem"
        BY <1>0, <1>3, <2>4, Distinct DEF WaitMem
      <3>2. incomplete <= 0
        BY <1>0, <2>2, <2>4, <3>1 DEF StillInMemory
      <3>3. incomplete >= 0
        BY <1>3, MemoryNotNegative DEF WaitMem
      <3> QED  BY <1>0, <3>2, <3>3
    <2>5. call' = "wait_mem" => pc'[Main] = "wait_mem_asleep"
      BY <1>0, <1>3, Distinct DEF WaitMem
    <2> QED  BY <2>1, <2>3, <2>4, <2>5
  <1>4. ASSUME SwapRound PROVE EmptyInv'
    BY <1>0, <1>4, Distinct DEF SwapRound
  <1>5. ASSUME WaitReturns \/ SetStopping \/ StopBroadcast \/ Join \/ SpuriousMainWakeup
        PROVE  EmptyInv'
    <2>1. lte' = lte /\ (lte # 0 => call' = "wait_mem")
      BY <1>5 DEF WaitReturns, SetStopping, StopBroadcast, Join, SpuriousMainWakeup
    <2>2. pc'[Main] # "wait_swapped"
      BY <1>0, <1>5, Distinct DEF WaitReturns, SetStopping, StopBroadcast, Join,
         SpuriousMainWakeup, Woken
    <2>3. SpuriousMainWakeup => pc'[Main] = "wait_mem"
      BY <1>0, Distinct DEF SpuriousMainWakeup
    <2>4. ~SpuriousMainWakeup => call' # "wait_mem"
      <3>1. WaitReturns \/ Join => call' # "wait_mem"
        BY DEF WaitReturns, Join
      <3>2. SetStopping \/ StopBroadcast => call' = call /\ call # "wait_mem"
        BY DEF SetStopping, StopBroadcast
      <3> QED  BY <1>5, <3>1, <3>2
    <2> QED  BY <2>1, <2>2, <2>3, <2>4
  <1>8. ASSUME UserSteps PROVE EmptyInv'
    <2>1. pc[Main] = "user" /\ lte = 0
      <3>1. \A s \in Settings : Set(s[1], s[2]) => pc[Main] = "user"
        BY DEF Set
      <3>2. \A k \in 0 .. NThreads : Start(k) => pc[Main] = "user"
        BY DEF Start
      <3>3. pc[Main] = "user"
        BY <1>8, <3>1, <3>2 DEF UserSteps, UserEnqueue, UserEnqueueHere, UserWait, Destroy
      <3> QED  BY <3>3
    <2>2. ASSUME NEW k \in 0 .. NThreads, Start(k) PROVE EmptyInv'
      BY <1>0, <2>1, <2>2, Distinct DEF Start
    <2>3. ASSUME NEW c \in {"wait_mem", "wait", "stop"}, NEW n \in LteCounts \cup {0},
                 UserWait(c, n)
          PROVE  EmptyInv'
      <3>1. n \in Nat
        BY BoundsAssumption
      <3> QED  BY <1>0, <2>3, <3>1, Distinct DEF UserWait
    <2>4. ASSUME Destroy PROVE EmptyInv'
      BY <1>0, <2>1, <2>4, Distinct DEF Destroy
    <2>5. ASSUME NEW i \in Items,
                 UserEnqueue(i) \/ UserEnqueueHere(i, "WAIT") \/ UserEnqueueHere(i, "SWAP")
          PROVE  EmptyInv'
      BY <1>0, <2>1, <2>5, Distinct DEF UserEnqueue, UserEnqueueHere
    <2>6. ASSUME NEW s \in Settings, Set(s[1], s[2]) PROVE EmptyInv'
      BY <2>1, <2>6 DEF Set
    <2> QED  BY <1>8, <2>2, <2>3, <2>4, <2>5, <2>6 DEF UserSteps
  <1>6. UNCHANGED vars => EmptyInv'
    BY DEF vars
  <1>7. \A p \in Procs : p = Main \/ p \in Workers
    BY DEF Procs
  <1> QED  BY <1>1, <1>2, <1>3, <1>4, <1>5, <1>6, <1>7, <1>8
           DEF Next, WaitSteps, Terminated

\* No thread has any work.
NothingLeft ==
    \A w \in Workers : /\ waiting[w] = <<>> /\ claimed[w] = <<>> /\ qi[w] = NoItem
                       /\ ~swap_lost => swap_write[w] = <<>> /\ swap_read[w] = <<>>

\* QPTPool_wait and QPTPool_stop return only when no item is in a queue, in a
\* swap file or in the hands of a thread, unless the pool stops on an error:
\* the two counters, which they read one after the other, are enough for
\* that, because a pool without work in memory does not make any.
THEOREM WaitWaitsForAll == Spec => [][WaitReturns => StoppedOnError \/ NothingLeft]_vars
  <1>1. Init => CallInv /\ EmptyInv
    BY Distinct DEF Init, CallInv, EmptyInv
  <1>2. IInv /\ CallInv /\ [Next]_vars => CallInv'
    BY CallStep
  <1>3. IInv /\ CountInv /\ CallInv /\ EmptyInv /\ [Next]_vars => EmptyInv'
    BY EmptyStep
  <1>4. IInv /\ CountInv /\ EmptyInv =>
            [WaitReturns => StoppedOnError \/ NothingLeft]_vars
    <2> SUFFICES ASSUME IInv, CountInv, EmptyInv, WaitReturns, ~StoppedOnError
                 PROVE  NothingLeft
      OBVIOUS
    <2>1. pc[Main] # "destroyed" /\ incomplete = 0 /\ swapped = 0
      BY DEF WaitReturns, EmptyInv
    <2> QED  BY <2>1, IdleWhenNothingIncomplete, NothingWhenNothingSwapped DEF NothingLeft
  <1> QED  BY Invariant, CountInvariant, <1>1, <1>2, <1>3, <1>4, PTL DEF Spec

-----------------------------------------------------------------------------
(***************************************************************************)
(* QPTPool implements WorkPool: a work item that has been accepted is in   *)
(* one place until a thread runs it, it is run once, it is given up only   *)
(* when the pool has failed, is reconfigured or closed, and a wait ends    *)
(* when all of the work has.                                               *)
(***************************************************************************)

(* Where the copies of an item are.                                        *)

\* The thread is in an enqueue that has not placed its item yet.
Handing(p) == pc[p] \in {"enqueue", "here", "target", "place"}
Carried(p, i) == IF Handing(p) /\ new_work[p] = i THEN 1 ELSE 0

\* An accepted item, in a queue, in a swap file, or read from one and on its
\* way back.
Stored(w, i) ==
    TimesIn(waiting[w], i) + (TimesIn(claimed[w], i)
        + (TimesIn(swap_write[w], i) + TimesIn(swap_read[w], i)))
Kept(w, i) == Stored(w, i) + (IF qi[w] = Token THEN Carried(w, i) ELSE 0)

\* An item that is about to be enqueued for the first time.
Coming(p, i) ==
    IF p = Main THEN Carried(p, i)
    ELSE TimesIn(todo[p], i) + (IF qi[p] = Token THEN 0 ELSE Carried(p, i))

Copies(p, i) == IF p = Main THEN Coming(p, i) ELSE Kept(p, i) + Coming(p, i)

\* There is one copy of an item.
OnePlace ==
    \A i \in Items : \A p, q \in Procs :
        Copies(p, i) <= 1 /\ (p # q => Copies(p, i) + Copies(q, i) <= 1)

\* Some user function that was called enqueues the item.
Born(i) == \E j \in Items : runs[j] > 0 /\ i \in Range(Spawns[j])

\* An item is first about to be enqueued, then accepted and kept, then in the
\* hands of one thread, and never again anywhere.
LifeInv ==
    /\ \A i \in Items, w \in Workers : Kept(w, i) > 0 => i \in accepted /\ runs[i] = 0
    /\ \A i \in Items, w \in Workers : Coming(w, i) > 0 => i \notin accepted /\ Born(i)
    /\ \A i \in Items : Coming(Main, i) > 0 => i \in (Roots \cup HereItems) \ accepted
    /\ \A i \in Items, v, w \in Workers : qi[v] = i => runs[i] > 0 /\ (qi[w] = i => v = w)
    /\ \A i \in Items : runs[i] > 0 => i \in accepted
    /\ \A i \in Items : i \in accepted => i \in Roots \cup HereItems \/ Born(i)

\* Only main() uses QPTPool_enqueue_here, and the settings are for a pool that
\* has not been started.
UseInv ==
    /\ \A w \in Workers : pc[w] # "here"
    /\ state = "INITIALIZED" => starts = 0

PlaceInv == OnePlace /\ LifeInv /\ UseInv

-----------------------------------------------------------------------------
(* What is counted.                                                        *)

\* Nothing occurs a negative number of times in a queue or a swap file.
LEMMA TimesAreNumbers ==
    ASSUME TypeOK
    PROVE  \A w \in Workers : \A i \in Items :
               /\ TimesIn(waiting[w], i) \in Nat /\ TimesIn(claimed[w], i) \in Nat
               /\ TimesIn(swap_write[w], i) \in Nat /\ TimesIn(swap_read[w], i) \in Nat
               /\ TimesIn(todo[w], i) \in Nat
  <1>1. \A w \in Workers : /\ waiting[w] \in Seq(Work) /\ claimed[w] \in Seq(Work)
                           /\ swap_write[w] \in Seq(Items) /\ swap_read[w] \in Seq(Items)
                           /\ todo[w] \in Seq(Items)
    BY DEF TypeOK, QueueTypes, SwapTypes, ItemTypes
  <1> QED  BY <1>1, TimesType, Zenon

\* Copies are counted with natural numbers.
LEMMA CopiesType ==
    ASSUME TypeOK
    PROVE  \A i \in Items :
               /\ \A w \in Workers : Kept(w, i) \in Nat
               /\ \A p \in Procs : Coming(p, i) \in Nat /\ Copies(p, i) \in Nat
  <1>1. \A p \in Procs : \A i \in Items : Carried(p, i) \in Nat
    BY DEF Carried
  <1>2. \A w \in Workers : \A i \in Items : Kept(w, i) \in Nat
    BY <1>1, TimesAreNumbers, Distinct DEF Kept, Stored
  <1>3. \A p \in Procs : \A i \in Items : Coming(p, i) \in Nat
    BY <1>1, TimesAreNumbers, Distinct DEF Coming, Procs
  <1>4. \A p \in Procs : \A i \in Items : Copies(p, i) \in Nat
    BY <1>2, <1>3, Distinct DEF Copies, Procs
  <1> QED  BY <1>2, <1>3, <1>4

\* The same of the state a step leads to.
LEMMA TimesAreNumbersNext ==
    ASSUME TypeOK'
    PROVE  \A w \in Workers : \A i \in Items :
               /\ TimesIn(waiting'[w], i) \in Nat /\ TimesIn(claimed'[w], i) \in Nat
               /\ TimesIn(swap_write'[w], i) \in Nat /\ TimesIn(swap_read'[w], i) \in Nat
               /\ TimesIn(todo'[w], i) \in Nat
  <1>1. \A w \in Workers : /\ waiting'[w] \in Seq(Work) /\ claimed'[w] \in Seq(Work)
                           /\ swap_write'[w] \in Seq(Items) /\ swap_read'[w] \in Seq(Items)
                           /\ todo'[w] \in Seq(Items)
    BY DEF TypeOK, QueueTypes, SwapTypes, ItemTypes
  <1> QED  BY <1>1, TimesType, Zenon

\* And of its copies.
LEMMA CopiesTypeNext ==
    ASSUME TypeOK'
    PROVE  \A i \in Items :
               /\ \A w \in Workers : Kept(w, i)' \in Nat
               /\ \A p \in Procs : Coming(p, i)' \in Nat /\ Copies(p, i)' \in Nat
  <1>1. \A p \in Procs : \A i \in Items : Carried(p, i)' \in Nat
    BY DEF Carried
  <1>2. \A w \in Workers : \A i \in Items : Kept(w, i)' \in Nat
    BY <1>1, TimesAreNumbersNext, Distinct DEF Kept, Stored
  <1>3. \A p \in Procs : \A i \in Items : Coming(p, i)' \in Nat
    BY <1>1, TimesAreNumbersNext, Distinct DEF Coming, Procs
  <1>4. \A p \in Procs : \A i \in Items : Copies(p, i)' \in Nat
    BY <1>2, <1>3, Distinct DEF Copies, Procs
  <1> QED  BY <1>2, <1>3, <1>4

-----------------------------------------------------------------------------
(* What a step does to the copies.                                         *)

\* The step runs nothing, accepts nothing and brings no item anywhere.
NothingNew ==
    /\ UNCHANGED <<runs, accepted>>
    /\ \A w \in Workers : qi'[w] \in Items => qi'[w] = qi[w]
    /\ \A i \in Items : \A p \in Procs : Coming(p, i)' <= Coming(p, i)

\* Nor does it move any.
Stays == \A i \in Items : \A w \in Workers : Kept(w, i)' <= Kept(w, i)

\* Work moves between two threads.
Moves(a, b) ==
    /\ a # b
    /\ \A i \in Items : /\ Kept(a, i)' + Kept(b, i)' <= Kept(a, i) + Kept(b, i)
                        /\ \A w \in Workers \ {a, b} : Kept(w, i)' <= Kept(w, i)

\* A kept copy of an item was kept before.
LEMMA LifeStays ==
    ASSUME LifeInv, NothingNew,
           \A i \in Items : (\E w \in Workers : Kept(w, i)' > 0) => \E w \in Workers : Kept(w, i) > 0,
           TypeOK, TypeOK'
    PROVE  LifeInv'
  <1>0. \A i \in Items : /\ \A w \in Workers : Kept(w, i) \in Nat /\ Kept(w, i)' \in Nat
                         /\ \A p \in Procs : Coming(p, i) \in Nat /\ Coming(p, i)' \in Nat
    BY CopiesType, CopiesTypeNext
  <1>1. runs' = runs /\ accepted' = accepted
    BY DEF NothingNew
  <1>2. \A i \in Items : Born(i)' = Born(i)
    BY <1>1 DEF Born
  <1>3. \A i \in Items : \A p \in Procs : Coming(p, i)' > 0 => Coming(p, i) > 0
    BY <1>0 DEF NothingNew
  <1>4. \A i \in Items, w \in Workers : Kept(w, i)' > 0 => i \in accepted /\ runs[i] = 0
    BY DEF LifeInv
  <1>5. \A i \in Items, w \in Workers : Coming(w, i)' > 0 => i \notin accepted /\ Born(i)
    BY <1>3, Distinct DEF LifeInv
  <1>6. \A i \in Items : Coming(Main, i)' > 0 => i \in (Roots \cup HereItems) \ accepted
    BY <1>3, Distinct DEF LifeInv
  <1>7. \A i \in Items, v, w \in Workers : qi'[v] = i => runs[i] > 0 /\ (qi'[w] = i => v = w)
    BY DEF LifeInv, NothingNew
  <1>8. /\ \A i \in Items : runs[i] > 0 => i \in accepted
        /\ \A i \in Items : i \in accepted => i \in Roots \cup HereItems \/ Born(i)
    BY DEF LifeInv
  <1> QED  BY <1>1, <1>2, <1>4, <1>5, <1>6, <1>7, <1>8, Zenon DEF LifeInv

\* A step that brings nothing and moves nothing keeps every item in one
\* place.
LEMMA PlaceStays ==
    ASSUME TypeOK, TypeOK', OnePlace, LifeInv, NothingNew, Stays
    PROVE  OnePlace' /\ LifeInv'
  <1>0. \A i \in Items : /\ \A w \in Workers : Kept(w, i) \in Nat /\ Kept(w, i)' \in Nat
                         /\ \A p \in Procs : Coming(p, i) \in Nat /\ Coming(p, i)' \in Nat
    BY CopiesType, CopiesTypeNext
  <1>1. ASSUME NEW i \in Items, NEW p \in Procs PROVE Copies(p, i)' <= Copies(p, i)
    BY <1>0 DEF Copies, Stays, NothingNew, Procs
  <1>2. \A i \in Items : \A p \in Procs : Copies(p, i) \in Nat /\ Copies(p, i)' \in Nat
    BY CopiesType, CopiesTypeNext
  <1>3. OnePlace'
    BY <1>1, <1>2 DEF OnePlace
  <1>4. LifeInv'
    BY <1>0, LifeStays DEF Stays
  <1> QED  BY <1>3, <1>4

\* So does one that moves work from one thread to another.
LEMMA PlaceMoves ==
    ASSUME TypeOK, TypeOK', OnePlace, LifeInv, NothingNew,
           NEW a \in Workers, NEW b \in Workers, Moves(a, b)
    PROVE  OnePlace' /\ LifeInv'
  <1>0. \A i \in Items : /\ \A w \in Workers : Kept(w, i) \in Nat /\ Kept(w, i)' \in Nat
                         /\ \A p \in Procs : Coming(p, i) \in Nat /\ Coming(p, i)' \in Nat
    BY CopiesType, CopiesTypeNext
  <1>2. \A i \in Items : \A p \in Procs : Copies(p, i) \in Nat /\ Copies(p, i)' \in Nat
    BY CopiesType, CopiesTypeNext
  <1>1. ASSUME NEW i \in Items
        PROVE  /\ Copies(a, i)' + Copies(b, i)' <= Copies(a, i) + Copies(b, i)
               /\ \A p \in Procs \ {a, b} : Copies(p, i)' <= Copies(p, i)
    <2>1. Copies(a, i)' + Copies(b, i)' <= Copies(a, i) + Copies(b, i)
      BY <1>0, Distinct DEF Copies, Moves, NothingNew
    <2>2. ASSUME NEW p \in Procs \ {a, b} PROVE Copies(p, i)' <= Copies(p, i)
      BY <1>0 DEF Copies, Moves, NothingNew, Procs
    <2> QED  BY <2>1, <2>2
  <1>3. OnePlace'
    <2> SUFFICES ASSUME NEW i \in Items, NEW p \in Procs, NEW q \in Procs
                 PROVE  /\ Copies(p, i)' <= 1
                        /\ p # q => Copies(p, i)' + Copies(q, i)' <= 1
      BY DEF OnePlace
    <2>1. a \in Procs /\ b \in Procs /\ a # b
      BY Distinct DEF Moves
    <2>2. Copies(a, i) + Copies(b, i) <= 1
      BY <2>1 DEF OnePlace
    <2>3. \A r \in Procs \ {a, b} : /\ Copies(a, i) + Copies(r, i) <= 1
                                    /\ Copies(b, i) + Copies(r, i) <= 1
      BY <2>1 DEF OnePlace
    <2>4. \A r, s \in Procs \ {a, b} : r # s => Copies(r, i) + Copies(s, i) <= 1
      BY DEF OnePlace
    <2>5. \A r \in Procs : Copies(r, i) <= 1
      BY DEF OnePlace
    <2> QED  BY <1>1, <1>2, <2>1, <2>2, <2>3, <2>4, <2>5
  <1>4. LifeInv'
    <2>1. ASSUME NEW i \in Items, \E w \in Workers : Kept(w, i)' > 0
          PROVE  \E w \in Workers : Kept(w, i) > 0
      BY <1>0, <2>1 DEF Moves
    <2> QED  BY <2>1, LifeStays
  <1> QED  BY <1>3, <1>4

-----------------------------------------------------------------------------
(* The steps that leave items where they are.                              *)

Failed == StoppedOnError \/ swap_lost

Quiet ==
    /\ UNCHANGED <<waiting, claimed, swap_write, swap_read, todo, qi, runs, accepted>>
    /\ \A p \in Procs : Handing(p)' =>
           new_work'[p] = Token \/ (Handing(p) /\ new_work'[p] = new_work[p])
    /\ \A w \in Workers : Handing(w) /\ qi[w] = Token =>
           Failed' \/ (Handing(w)' /\ new_work'[w] = new_work[w])

\* Such a step brings nothing and moves nothing: an enqueue that goes on has
\* the item it had, and one that gives up has let it go.
LEMMA QuietStays ==
    ASSUME TypeOK, TypeOK', Quiet
    PROVE  NothingNew /\ Stays
  <1>1. ASSUME NEW p \in Procs, NEW i \in Items PROVE Carried(p, i)' <= Carried(p, i)
    BY ItemsAssumption DEF Quiet, Carried
  <1>2. ASSUME NEW w \in Workers, NEW i \in Items PROVE Kept(w, i)' <= Kept(w, i)
    <2>1. Stored(w, i)' = Stored(w, i) /\ Stored(w, i) \in Nat
      BY TimesAreNumbers DEF Stored, Quiet
    <2>2. Carried(w, i)' <= Carried(w, i) /\ Carried(w, i) \in Nat /\ Carried(w, i)' \in Nat
      BY <1>1, Distinct DEF Carried
    <2> QED  BY <2>1, <2>2 DEF Kept, Quiet
  <1>3. ASSUME NEW p \in Procs, NEW i \in Items PROVE Coming(p, i)' <= Coming(p, i)
    <2>1. Carried(p, i)' <= Carried(p, i) /\ Carried(p, i) \in Nat /\ Carried(p, i)' \in Nat
      BY <1>1 DEF Carried
    <2>2. CASE p = Main
      BY <2>1, <2>2 DEF Coming
    <2>3. CASE p # Main
      <3>1. TimesIn(todo[p], i) \in Nat
        BY <2>3, TimesAreNumbers DEF Procs
      <3> QED  BY <2>1, <2>3, <3>1 DEF Coming, Quiet
    <2> QED  BY <2>2, <2>3
  <1> QED  BY <1>2, <1>3 DEF NothingNew, Stays, Quiet

QuietSteps(p) == Enqueue(p) \/ LockTarget(p) \/ LockHere(p) \/ PlaceFails(p) \/ WakeTarget(p)
QuietWorkerSteps(w) ==
    \/ LockThread(w) \/ LockPool(w) \/ StealNothing(w) \/ Sleep(w) \/ Reacquire(w)
    \/ Relock(w) \/ Leave(w) \/ Proceed(w) \/ PopNothing(w) \/ SetErrored(w) \/ Account(w)
    \/ ExitBroadcast(w) \/ SpuriousWakeup(w)
QuietMainSteps ==
    \/ WaitSteps \/ SpuriousMainWakeup
    \/ \E k \in 0 .. NThreads : Start(k)
    \/ \E c \in {"wait_mem", "wait", "stop"}, n \in LteCounts \cup {0} : UserWait(c, n)

\* An enqueue is quiet until it places its item, and after.
LEMMA QuietEnqueue ==
    ASSUME IInv, NEW p \in Procs, QuietSteps(p)
    PROVE  Quiet
  <1> USE DEF Goto, Handing, queueVars, swapVars, itemVars, histVars
  <1>0. /\ pc \in [Procs -> WorkerPC \cup EnqueuePC \cup MainPC]
        /\ new_work \in [Procs -> Work \cup {NoItem}]
    BY DEF IInv, TypeOK, ThreadTypes, EnqTypes
  <1>1. ASSUME Enqueue(p) PROVE Quiet
    <2>1. CASE StoppedOnError
      <3>1. Failed'
        BY <1>1, <2>1 DEF Enqueue, Failed, StoppedOnError, poolVars
      <3> QED  BY <1>0, <1>1, <2>1, <3>1, Distinct DEF Enqueue, Return, MoreTokens, Quiet
    <2>2. CASE ~StoppedOnError
      BY <1>0, <1>1, <2>2, Distinct DEF Enqueue, Quiet
    <2> QED  BY <2>1, <2>2
  <1>2. ASSUME LockTarget(p) PROVE Quiet
    BY <1>0, <1>2, Distinct DEF LockTarget, enqVars, Quiet
  <1>3. ASSUME LockHere(p) PROVE Quiet
    <2>1. CASE StoppedOnError
      <3>1. Failed'
        BY <1>3, <2>1 DEF LockHere, Failed, StoppedOnError, poolVars
      <3> QED  BY <1>0, <1>3, <2>1, <3>1, Distinct DEF LockHere, Return, MoreTokens, Quiet
    <2>2. CASE ~StoppedOnError
      BY <1>0, <1>3, <2>2, Distinct DEF LockHere, enqVars, Quiet
    <2> QED  BY <2>1, <2>2
  <1>4. ASSUME PlaceFails(p) PROVE Quiet
    <2>1. p \in Workers /\ qi[p] = Token => Failed'
      BY <1>4 DEF PlaceFails, Failed, Rereading
    <2> QED  BY <1>0, <1>4, <2>1, Distinct DEF PlaceFails, enqVars, Quiet
  <1>5. ASSUME WakeTarget(p) PROVE Quiet
    BY <1>0, <1>5, Distinct DEF WakeTarget, Return, MoreTokens, Woken, Quiet
  <1> QED  BY <1>1, <1>2, <1>3, <1>4, <1>5 DEF QuietSteps

\* A thread is quiet while it locks, sleeps, looks in vain and counts.
LEMMA QuietWorker ==
    ASSUME IInv, NEW w \in Workers, QuietWorkerSteps(w)
    PROVE  Quiet
  <1> USE DEF Goto, Handing, queueVars, swapVars, itemVars, histVars, enqVars, Quiet
  <1>0. /\ pc \in [Procs -> WorkerPC \cup EnqueuePC \cup MainPC]
        /\ new_work \in [Procs -> Work \cup {NoItem}]
    BY DEF IInv, TypeOK, ThreadTypes, EnqTypes
  <1>1. CASE LockThread(w) \/ LockPool(w) \/ StealNothing(w) \/ Sleep(w) \/ Reacquire(w)
    BY <1>0, <1>1, Distinct DEF LockThread, LockPool, StealNothing, Sleep, Reacquire
  <1>2. CASE Relock(w) \/ Leave(w) \/ Proceed(w) \/ PopNothing(w) \/ SetErrored(w)
    BY <1>0, <1>2, Distinct DEF Relock, Leave, Proceed, PopNothing, SetErrored
  <1>3. CASE Account(w) \/ ExitBroadcast(w) \/ SpuriousWakeup(w)
    BY <1>0, <1>3, Distinct DEF Account, ExitBroadcast, SpuriousWakeup, MainWoken, Woken
  <1> QED  BY <1>1, <1>2, <1>3 DEF QuietWorkerSteps

\* main() is quiet while it waits, starts and stops the threads.
LEMMA QuietMain ==
    ASSUME IInv, QuietMainSteps
    PROVE  Quiet
  <1> USE DEF Goto, Handing, queueVars, swapVars, itemVars, histVars, Quiet
  <1>0. /\ pc \in [Procs -> WorkerPC \cup EnqueuePC \cup MainPC]
        /\ new_work \in [Procs -> Work \cup {NoItem}]
    BY DEF IInv, TypeOK, ThreadTypes, EnqTypes
  <1>1. CASE WaitMem \/ WaitReturns \/ SetStopping \/ StopBroadcast \/ Join
    BY <1>0, <1>1, Distinct DEF WaitMem, WaitReturns, SetStopping, StopBroadcast,
       Join, enqVars, Woken
  <1>2. CASE SwapRound \/ SpuriousMainWakeup
    BY <1>0, <1>2, Distinct DEF SwapRound, SpuriousMainWakeup, enqVars
  <1>3. ASSUME NEW k \in 0 .. NThreads, Start(k) PROVE Quiet
    <2>1. \A w \in Workers : pc[w] \in {"idle", "gone"}
      BY <1>3 DEF Start, IInv, StartedInv
    <2> QED  BY <1>0, <1>3, <2>1, Distinct DEF Start, enqVars, Procs
  <1>4. ASSUME NEW c \in {"wait_mem", "wait", "stop"}, NEW n \in LteCounts \cup {0},
               UserWait(c, n)
        PROVE  Quiet
    BY <1>0, <1>4, Distinct DEF UserWait, enqVars
  <1> QED  BY <1>1, <1>2, <1>3, <1>4 DEF QuietMainSteps, WaitSteps

-----------------------------------------------------------------------------
(* The steps in which a thread moves what it has.                          *)

\* Nothing changes for the other threads.
Apart(a) ==
    /\ \A v \in Workers \ {a} : /\ waiting'[v] = waiting[v] /\ claimed'[v] = claimed[v]
                                /\ swap_write'[v] = swap_write[v]
                                /\ swap_read'[v] = swap_read[v]
                                /\ todo'[v] = todo[v] /\ qi'[v] = qi[v]
    /\ \A p \in Procs \ {a} : Handing(p)' = Handing(p) /\ new_work'[p] = new_work[p]

KeptSame == \A i \in Items : \A w \in Workers : Kept(w, i)' = Kept(w, i)

\* What one thread does with its own work changes nothing for the others.
LEMMA ApartSame ==
    ASSUME NEW a \in Workers, Apart(a)
    PROVE  \A i \in Items : /\ \A v \in Workers \ {a} : Kept(v, i)' = Kept(v, i)
                            /\ \A p \in Procs \ {a} : Coming(p, i)' = Coming(p, i)
  <1>1. \A i \in Items : \A p \in Procs \ {a} : Carried(p, i)' = Carried(p, i)
    BY DEF Apart, Carried
  <1>2. \A i \in Items : \A v \in Workers \ {a} : Stored(v, i)' = Stored(v, i)
    BY DEF Apart, Stored
  <1>3. \A i \in Items : \A v \in Workers \ {a} : Kept(v, i)' = Kept(v, i)
    BY <1>1, <1>2, Distinct DEF Kept, Apart
  <1>4. \A i \in Items : \A p \in Procs \ {a} : Coming(p, i)' = Coming(p, i)
    BY <1>1, Distinct DEF Coming, Apart, Procs
  <1> QED  BY <1>3, <1>4

\* It is enough to look at the thread that takes the step.
LEMMA StaysAlone ==
    ASSUME TypeOK, TypeOK', NEW a \in Workers, Apart(a), UNCHANGED <<runs, accepted>>,
           qi'[a] \in Items => qi'[a] = qi[a],
           \A i \in Items : Kept(a, i)' = Kept(a, i) /\ Coming(a, i)' <= Coming(a, i)
    PROVE  NothingNew /\ KeptSame /\ Stays
  <1>0. \A i \in Items : /\ \A w \in Workers : Kept(w, i) \in Nat
                         /\ \A p \in Procs : Coming(p, i) \in Nat
    BY CopiesType
  <1>1. \A i \in Items : \A w \in Workers : Kept(w, i)' = Kept(w, i)
    BY ApartSame
  <1>2. \A i \in Items : \A p \in Procs : Coming(p, i)' <= Coming(p, i)
    BY <1>0, ApartSame
  <1>3. \A w \in Workers : qi'[w] \in Items => qi'[w] = qi[w]
    BY DEF Apart
  <1> QED  BY <1>0, <1>1, <1>2, <1>3 DEF NothingNew, KeptSame, Stays

OwnSteps(w) ==
    \/ ClaimWork(w) \/ Spawn(w) \/ RunSucceeds(w) \/ RunFails(w)
    \/ SwapEmpty(w) \/ SwapPrep(w) \/ SwapRead(w) \/ SwapDone(w)

\* claim_work, process_work and QPTPool_wait_swapped_once touch only the
\* queues and the swap file of their own thread.
LEMMA OwnApart ==
    ASSUME IInv, NEW w \in Workers, OwnSteps(w) \/ SwapPrepFails(w) \/ PopWork(w)
    PROVE  Apart(w)
  <1> USE DEF Goto, Handing, queueVars, swapVars, itemVars, histVars, enqVars
  <1>0. /\ pc \in [Procs -> WorkerPC \cup EnqueuePC \cup MainPC]
        /\ new_work \in [Procs -> Work \cup {NoItem}]
        /\ waiting \in [Workers -> Seq(Work)] /\ claimed \in [Workers -> Seq(Work)]
        /\ swap_write \in [Workers -> Seq(Items)] /\ swap_read \in [Workers -> Seq(Items)]
        /\ qi \in [Workers -> Work \cup {NoItem}] /\ todo \in [Workers -> Seq(Items)]
    BY DEF IInv, TypeOK, ThreadTypes, EnqTypes, QueueTypes, SwapTypes, ItemTypes
  <1>1. CASE ClaimWork(w) \/ Spawn(w) \/ RunSucceeds(w) \/ RunFails(w)
    BY <1>0, <1>1, Distinct DEF ClaimWork, Spawn, RunSucceeds, RunFails, Processed, Apart
  <1>2. CASE SwapEmpty(w) \/ SwapPrep(w) \/ SwapPrepFails(w)
    BY <1>0, <1>2, Distinct DEF SwapEmpty, SwapPrep, SwapPrepFails, Processed, Apart
  <1>3. CASE SwapRead(w) \/ SwapDone(w)
    BY <1>0, <1>3, Distinct DEF SwapRead, SwapDone, Processed, Apart
  <1>4. CASE PopWork(w)
    BY <1>0, <1>4, Distinct DEF PopWork, Apart
  <1> QED  BY <1>1, <1>2, <1>3, <1>4 DEF OwnSteps

\* They move its work between these, or to and from its hands.
LEMMA OwnStays ==
    ASSUME IInv, IInv', HandInv, NEW w \in Workers, OwnSteps(w)
    PROVE  NothingNew /\ KeptSame /\ Stays
  <1> USE DEF Goto, Handing, queueVars, swapVars, itemVars, histVars, enqVars
  <1>0. /\ pc \in [Procs -> WorkerPC \cup EnqueuePC \cup MainPC]
        /\ new_work \in [Procs -> Work \cup {NoItem}]
        /\ waiting \in [Workers -> Seq(Work)] /\ claimed \in [Workers -> Seq(Work)]
        /\ swap_write \in [Workers -> Seq(Items)] /\ swap_read \in [Workers -> Seq(Items)]
        /\ qi \in [Workers -> Work \cup {NoItem}] /\ todo \in [Workers -> Seq(Items)]
    BY DEF IInv, TypeOK, ThreadTypes, EnqTypes, QueueTypes, SwapTypes, ItemTypes
  <1>t. w # Main /\ w \in Procs /\ NoItem # Token /\ NoItem \notin Items /\ Token \notin Items
    BY Distinct, ItemsAssumption
  <1>e. \A i \in Items : TimesIn(<<>>, i) = 0
    BY TimesEmpty
  <1>n. \A i \in Items : /\ TimesIn(waiting[w], i) \in Nat /\ TimesIn(claimed[w], i) \in Nat
                         /\ TimesIn(swap_write[w], i) \in Nat /\ TimesIn(swap_read[w], i) \in Nat
                         /\ TimesIn(todo[w], i) \in Nat
    BY TimesAreNumbers DEF IInv
  <1> SUFFICES /\ UNCHANGED <<runs, accepted>> /\ (qi'[w] \in Items => qi'[w] = qi[w])
               /\ \A i \in Items : Kept(w, i)' = Kept(w, i) /\ Coming(w, i)' <= Coming(w, i)
    BY OwnApart, StaysAlone DEF IInv
  <1>1. CASE ClaimWork(w)
    <2>1. \A i \in Items : TimesIn(claimed'[w], i) = TimesIn(claimed[w], i) + TimesIn(waiting[w], i)
      <3>1. claimed'[w] = claimed[w] \o waiting[w]
        BY <1>0, <1>1 DEF ClaimWork
      <3>2. claimed[w] \in Seq(Work) /\ waiting[w] \in Seq(Work)
        BY <1>0
      <3>3. \A i \in Items : TimesIn(claimed[w] \o waiting[w], i) =
                                 TimesIn(claimed[w], i) + TimesIn(waiting[w], i)
        BY <3>2, TimesConcat
      <3> QED  BY <3>1, <3>3
    <2>2. waiting'[w] = <<>> /\ ~Handing(w) /\ ~Handing(w)'
      BY <1>0, <1>1, <1>t DEF ClaimWork
    <2>3. UNCHANGED <<swap_write, swap_read, qi, todo, runs, accepted>>
      BY <1>1 DEF ClaimWork
    <2> HIDE DEF Handing
    <2> QED  BY <1>e, <1>n, <1>t, <2>1, <2>2, <2>3 DEF Kept, Stored, Coming, Carried
  <1>2. CASE Spawn(w)
    <2>1. todo[w] \in Seq(Items) /\ todo[w] # <<>> /\ todo'[w] = Tail(todo[w])
      BY <1>0, <1>2 DEF Spawn
    <2>2. \A i \in Items : TimesIn(todo[w], i) =
                               (IF Head(todo[w]) = i THEN 1 ELSE 0) + TimesIn(todo'[w], i)
      BY <2>1, TimesHeadTail, Zenon
    <2>3. Handing(w)' /\ new_work'[w] = Head(todo[w]) /\ ~Handing(w)
      BY <1>0, <1>2, <1>t DEF Spawn
    <2>4. qi[w] # Token
      BY <1>2, <1>t DEF Spawn, HandInv
    <2>5. UNCHANGED <<waiting, claimed, swap_write, swap_read, qi, runs, accepted>>
      BY <1>2 DEF Spawn
    <2>6. \A i \in Items : TimesIn(todo'[w], i) \in Nat
      BY TimesAreNumbersNext DEF IInv
    <2> HIDE DEF Handing
    <2> QED  BY <1>n, <1>t, <2>2, <2>3, <2>4, <2>5, <2>6 DEF Kept, Stored, Coming, Carried
  <1>3. CASE RunSucceeds(w) \/ RunFails(w)
    <2>1. /\ UNCHANGED <<waiting, claimed, swap_write, swap_read, runs, accepted>>
          /\ qi'[w] = NoItem /\ todo'[w] = <<>> /\ ~Handing(w) /\ ~Handing(w)'
      BY <1>0, <1>3, <1>t DEF RunSucceeds, RunFails, Processed
    <2> HIDE DEF Handing
    <2> QED  BY <1>e, <1>n, <1>t, <2>1 DEF Kept, Stored, Coming, Carried
  <1>4. CASE SwapEmpty(w)
    <2>1. /\ UNCHANGED <<waiting, claimed, swap_write, runs, accepted>>
          /\ qi'[w] = NoItem /\ todo'[w] = <<>> /\ swap_read'[w] = <<>>
          /\ ~Handing(w) /\ ~Handing(w)'
      BY <1>0, <1>4, <1>t DEF SwapEmpty, Processed
    <2>2. swap_read[w] = <<>>
      BY <1>4 DEF SwapEmpty, HandInv, EnqueuePC
    <2> HIDE DEF Handing
    <2> QED  BY <1>e, <1>n, <1>t, <2>1, <2>2 DEF Kept, Stored, Coming, Carried
  <1>5. CASE SwapPrep(w)
    <2>1. /\ UNCHANGED <<waiting, claimed, qi, todo, runs, accepted>>
          /\ swap_read'[w] = swap_write[w] /\ swap_write'[w] = <<>>
          /\ ~Handing(w) /\ ~Handing(w)'
      BY <1>0, <1>5, <1>t DEF SwapPrep
    <2>2. swap_read[w] = <<>>
      BY <1>5 DEF SwapPrep, HandInv, EnqueuePC
    <2> HIDE DEF Handing
    <2> QED  BY <1>e, <1>n, <1>t, <2>1, <2>2 DEF Kept, Stored, Coming, Carried
  <1>6. CASE SwapRead(w)
    <2>1. swap_read[w] \in Seq(Items) /\ swap_read[w] # <<>> /\ swap_read'[w] = Tail(swap_read[w])
      BY <1>0, <1>6 DEF SwapRead
    <2>2. \A i \in Items : TimesIn(swap_read[w], i) =
                               (IF Head(swap_read[w]) = i THEN 1 ELSE 0) + TimesIn(swap_read'[w], i)
      BY <2>1, TimesHeadTail, Zenon
    <2>3. Handing(w)' /\ new_work'[w] = Head(swap_read[w]) /\ ~Handing(w)
      BY <1>0, <1>6, <1>t DEF SwapRead
    <2>4. qi[w] = Token
      BY <1>6, <1>t DEF SwapRead, HandInv
    <2>5. UNCHANGED <<waiting, claimed, swap_write, todo, qi, runs, accepted>>
      BY <1>6 DEF SwapRead
    <2>6. \A i \in Items : TimesIn(swap_read'[w], i) \in Nat
      BY TimesAreNumbersNext DEF IInv
    <2> HIDE DEF Handing
    <2> QED  BY <1>n, <1>t, <2>2, <2>3, <2>4, <2>5, <2>6 DEF Kept, Stored, Coming, Carried
  <1>7. CASE SwapDone(w)
    <2>1. /\ UNCHANGED <<waiting, claimed, swap_write, swap_read, runs, accepted>>
          /\ qi'[w] = NoItem /\ todo'[w] = <<>> /\ ~Handing(w) /\ ~Handing(w)'
      BY <1>0, <1>7, <1>t DEF SwapDone, Processed
    <2> HIDE DEF Handing
    <2> QED  BY <1>e, <1>n, <1>t, <2>1 DEF Kept, Stored, Coming, Carried
  <1> QED  BY <1>1, <1>2, <1>3, <1>4, <1>5, <1>6, <1>7 DEF OwnSteps

-----------------------------------------------------------------------------
(* The steps that move work between threads.                               *)

\* A thief leaves exactly what it does not take.
LEMMA StealTimes ==
    ASSUME TypeOK, props.num > 0, NEW q \in Seq(Work), q # <<>>, NEW i
    PROVE  TimesIn(First(q), i) + TimesIn(Rest(q), i) = TimesIn(q, i)
  <1>1. Len(q) \in Nat \ {0}
    BY EmptySeq, LenProperties
  <1>2. Take(Len(q)) \in 1 .. Len(q)
    BY <1>1, TakeType
  <1> DEFINE k == Take(Len(q))
  <1> HIDE DEF k
  <1>3. TimesIn(SubSeq(q, 1, k), i) + TimesIn(SubSeq(q, k + 1, Len(q)), i) = TimesIn(q, i)
    BY <1>2, TimesSplit DEF k
  <1> QED  BY <1>3 DEF First, Rest, k

\* Work moves from one thread to another, exactly.
MovesExactly(a, b) ==
    /\ a # b
    /\ \A i \in Items : /\ Kept(a, i)' + Kept(b, i)' = Kept(a, i) + Kept(b, i)
                        /\ \A w \in Workers \ {a, b} : Kept(w, i)' = Kept(w, i)

\* maybe_steal_work moves work, and neither loses nor copies any.
LEMMA StealMoves ==
    ASSUME IInv, IInv', HandInv, NEW w \in Workers, StealWaiting(w) \/ StealClaimed(w)
    PROVE  NothingNew /\ \E v \in Workers : MovesExactly(w, v)
  <1>0. /\ pc \in [Procs -> WorkerPC \cup EnqueuePC \cup MainPC]
        /\ waiting \in [Workers -> Seq(Work)] /\ claimed \in [Workers -> Seq(Work)]
    BY DEF IInv, TypeOK, ThreadTypes, QueueTypes
  <1> PICK v \in Workers : v = Neighbor(w)
    BY NeighborType DEF IInv
  <1>1. v = Neighbor(w) /\ v # w /\ props.num > 0
    BY DEF IInv, StealInv, StealWaiting, StealClaimed
  <1>2. /\ UNCHANGED <<swap_write, swap_read, todo, qi, runs, accepted, new_work>>
        /\ \A p \in Procs : Handing(p)' = Handing(p)
    <2>1. \A p \in Procs : p # w => pc'[p] = pc[p]
      BY <1>0, Distinct DEF StealWaiting, StealClaimed, Goto
    <2>2. pc[w] \in {"steal_waiting", "steal_claimed"} /\ pc'[w] = "wait"
      BY <1>0, Distinct DEF StealWaiting, StealClaimed, Goto
    <2>3. \A p \in Procs : Handing(p)' = Handing(p)
      BY <2>1, <2>2 DEF Handing
    <2> QED  BY <2>3 DEF StealWaiting, StealClaimed, swapVars, itemVars, enqVars, histVars
  <1>3. \A p \in Procs : \A i \in Items : Carried(p, i)' = Carried(p, i)
    BY <1>2 DEF Carried
  <1>4. \A p \in Procs : \A i \in Items : Coming(p, i)' = Coming(p, i)
    BY <1>2, <1>3, Distinct DEF Coming, Procs
  <1>5. \A i \in Items : \A u \in Workers :
            /\ TimesIn(waiting[u], i) \in Nat /\ TimesIn(claimed[u], i) \in Nat
            /\ TimesIn(swap_write[u], i) \in Nat /\ TimesIn(swap_read[u], i) \in Nat
            /\ TimesIn(waiting'[u], i) \in Nat /\ TimesIn(claimed'[u], i) \in Nat
            /\ Carried(u, i) \in Nat
    BY TimesAreNumbers, TimesAreNumbersNext DEF Carried, IInv
  <1>6. \A i \in Items : \A u \in Workers \ {v, w} :
            waiting'[u] = waiting[u] /\ claimed'[u] = claimed[u]
    BY <1>0, <1>1 DEF StealWaiting, StealClaimed
  <1>7. ASSUME NEW i \in Items
        PROVE  TimesIn(waiting'[w], i) + TimesIn(claimed'[w], i)
                   + (TimesIn(waiting'[v], i) + TimesIn(claimed'[v], i))
               = TimesIn(waiting[w], i) + TimesIn(claimed[w], i)
                   + (TimesIn(waiting[v], i) + TimesIn(claimed[v], i))
    <2>0. /\ TimesIn(waiting[v], i) \in Nat /\ TimesIn(claimed[v], i) \in Nat
          /\ TimesIn(waiting[w], i) \in Nat /\ TimesIn(claimed[w], i) \in Nat
          /\ TimesIn(waiting'[v], i) \in Nat /\ TimesIn(claimed'[v], i) \in Nat
          /\ TimesIn(waiting'[w], i) \in Nat /\ TimesIn(claimed'[w], i) \in Nat
      BY <1>5
    <2>1. CASE StealWaiting(w)
      <3>1. /\ waiting[v] \in Seq(Work) /\ waiting[w] \in Seq(Work) /\ waiting[v] # <<>>
            /\ waiting'[w] = waiting[w] \o First(waiting[v])
            /\ waiting'[v] = Rest(waiting[v])
            /\ claimed'[v] = claimed[v] /\ claimed'[w] = claimed[w]
        BY <1>0, <1>1, <2>1 DEF StealWaiting
      <3>2. First(waiting[v]) \in Seq(Work) /\ Rest(waiting[v]) \in Seq(Work)
        BY <1>1, <3>1, StealType DEF IInv
      <3>3. TimesIn(waiting[w] \o First(waiting[v]), i) =
                TimesIn(waiting[w], i) + TimesIn(First(waiting[v]), i)
        BY <3>1, <3>2, TimesConcat
      <3>4. TimesIn(First(waiting[v]), i) + TimesIn(Rest(waiting[v]), i) = TimesIn(waiting[v], i)
        BY <1>1, <3>1, StealTimes DEF IInv
      <3>5. TimesIn(First(waiting[v]), i) \in Nat
        BY <3>2, TimesType
      <3> QED  BY <2>0, <3>1, <3>3, <3>4, <3>5
    <2>2. CASE StealClaimed(w)
      <3>1. /\ claimed[v] \in Seq(Work) /\ waiting[w] \in Seq(Work) /\ claimed[v] # <<>>
            /\ waiting'[w] = waiting[w] \o First(claimed[v]) /\ waiting'[v] = waiting[v]
            /\ claimed'[v] = Rest(claimed[v]) /\ claimed'[w] = claimed[w]
        BY <1>0, <1>1, <2>2 DEF StealClaimed
      <3>2. First(claimed[v]) \in Seq(Work) /\ Rest(claimed[v]) \in Seq(Work)
        BY <1>1, <3>1, StealType DEF IInv
      <3>3. TimesIn(waiting[w] \o First(claimed[v]), i) =
                TimesIn(waiting[w], i) + TimesIn(First(claimed[v]), i)
        BY <3>1, <3>2, TimesConcat
      <3>4. TimesIn(First(claimed[v]), i) + TimesIn(Rest(claimed[v]), i) = TimesIn(claimed[v], i)
        BY <1>1, <3>1, StealTimes DEF IInv
      <3>5. TimesIn(First(claimed[v]), i) \in Nat
        BY <3>2, TimesType
      <3> QED  BY <2>0, <3>1, <3>3, <3>4, <3>5
    <2> QED  BY <2>1, <2>2
  <1>8. ASSUME NEW i \in Items PROVE Kept(w, i)' + Kept(v, i)' = Kept(w, i) + Kept(v, i)
    <2>0. /\ TimesIn(waiting[v], i) \in Nat /\ TimesIn(claimed[v], i) \in Nat
          /\ TimesIn(waiting[w], i) \in Nat /\ TimesIn(claimed[w], i) \in Nat
          /\ TimesIn(waiting'[v], i) \in Nat /\ TimesIn(claimed'[v], i) \in Nat
          /\ TimesIn(waiting'[w], i) \in Nat /\ TimesIn(claimed'[w], i) \in Nat
          /\ TimesIn(swap_write[v], i) \in Nat /\ TimesIn(swap_read[v], i) \in Nat
          /\ TimesIn(swap_write[w], i) \in Nat /\ TimesIn(swap_read[w], i) \in Nat
      BY <1>5
    <2>1. Stored(w, i)' + Stored(v, i)' = Stored(w, i) + Stored(v, i)
      <3>1. swap_write' = swap_write /\ swap_read' = swap_read
        BY <1>2
      <3> DEFINE Q(u) == TimesIn(waiting[u], i) + TimesIn(claimed[u], i)
                 P(u) == TimesIn(waiting'[u], i) + TimesIn(claimed'[u], i)
                 R(u) == TimesIn(swap_write[u], i) + TimesIn(swap_read[u], i)
      <3>2. \A a, b, c \in Nat : a + (b + c) = (a + b) + c /\ a + b \in Nat
        OBVIOUS
      <3>3. \A u \in {v, w} : /\ Stored(u, i) = Q(u) + R(u) /\ Stored(u, i)' = P(u) + R(u)
                              /\ Q(u) \in Nat /\ P(u) \in Nat /\ R(u) \in Nat
        BY <2>0, <3>1, <3>2 DEF Stored
      <3>4. P(w) + P(v) = Q(w) + Q(v)
        BY <1>7
      <3> HIDE DEF P, Q, R
      <3> QED  BY <3>3, <3>4
    <2>2. /\ Stored(w, i) \in Nat /\ Stored(v, i) \in Nat
          /\ Stored(w, i)' \in Nat /\ Stored(v, i)' \in Nat
          /\ Carried(w, i) \in Nat /\ Carried(v, i) \in Nat
      BY <1>1, <1>2, <1>5 DEF Stored
    <2> QED  BY <1>1, <1>2, <1>3, <2>1, <2>2, Distinct DEF Kept
  <1>9. \A i \in Items : \A u \in Workers \ {w, v} : Kept(u, i)' = Kept(u, i)
    BY <1>1, <1>2, <1>3, <1>6, Distinct DEF Kept, Stored
  <1>10. \A i \in Items : \A p \in Procs : Coming(p, i)' <= Coming(p, i)
    BY <1>4, CopiesType DEF IInv
  <1> QED  BY <1>1, <1>2, <1>8, <1>9, <1>10 DEF MovesExactly, NothingNew

\* Work that is moved exactly is moved.
LEMMA ExactlyIsMoves ==
    ASSUME TypeOK, NEW a \in Workers, NEW b \in Workers, MovesExactly(a, b)
    PROVE  Moves(a, b)
  BY CopiesType DEF MovesExactly, Moves

-----------------------------------------------------------------------------
(* An enqueue places its item.                                             *)

\* One more copy of the item is stored with the target, one less is in the
\* hands of the enqueue.
LEMMA PlaceCounts ==
    ASSUME IInv, IInv', NEW p \in Procs, PlaceInMemory(p) \/ PlaceInSwap(p),
           NEW t \in Workers, t = target[p]
    PROVE  /\ UNCHANGED <<runs, qi, todo>>
           /\ accepted' = IF new_work[p] = Token THEN accepted ELSE accepted \cup {new_work[p]}
           /\ new_work[p] \in Work
           /\ \A i \in Items : \A w \in Workers :
                  Stored(w, i)' = Stored(w, i) + (IF w = t /\ new_work[p] = i THEN 1 ELSE 0)
           /\ \A i \in Items : \A q \in Procs : q # p => Carried(q, i)' = Carried(q, i)
           /\ \A i \in Items : /\ Carried(p, i)' = 0
                               /\ Carried(p, i) = IF new_work[p] = i THEN 1 ELSE 0
  <1>0. /\ pc \in [Procs -> WorkerPC \cup EnqueuePC \cup MainPC]
        /\ waiting \in [Workers -> Seq(Work)] /\ swap_write \in [Workers -> Seq(Items)]
    BY DEF IInv, TypeOK, ThreadTypes, QueueTypes, SwapTypes
  <1>1. /\ UNCHANGED <<runs, qi, todo, claimed, swap_read, new_work>>
        /\ accepted' = IF new_work[p] = Token THEN accepted ELSE accepted \cup {new_work[p]}
    BY DEF PlaceInMemory, PlaceInSwap, itemVars, enqVars, swapVars, queueVars, Accepted
  <1>2. new_work[p] \in Work
    BY DEF PlaceInMemory, PlaceInSwap, IInv, EnqueueInv
  <1>3. \A q \in Procs : q # p => Handing(q)' = Handing(q)
    BY <1>0 DEF PlaceInMemory, PlaceInSwap, Goto, Handing
  <1>4. Handing(p) /\ ~Handing(p)'
    BY <1>0 DEF PlaceInMemory, PlaceInSwap, Goto, Handing
  <1>5. ASSUME NEW i \in Items, NEW w \in Workers
        PROVE  Stored(w, i)' = Stored(w, i) + (IF w = t /\ new_work[p] = i THEN 1 ELSE 0)
    <2>0. /\ TimesIn(waiting[w], i) \in Nat /\ TimesIn(claimed[w], i) \in Nat
          /\ TimesIn(swap_write[w], i) \in Nat /\ TimesIn(swap_read[w], i) \in Nat
      BY TimesAreNumbers DEF IInv
    <2>1. CASE PlaceInMemory(p)
      <3>1. swap_write' = swap_write
        BY <2>1 DEF PlaceInMemory, swapVars
      <3>2. waiting'[w] = IF w = t THEN Append(waiting[w], new_work[p]) ELSE waiting[w]
        BY <1>0, <2>1 DEF PlaceInMemory
      <3>3. TimesIn(Append(waiting[w], new_work[p]), i) =
                TimesIn(waiting[w], i) + (IF new_work[p] = i THEN 1 ELSE 0)
        BY <1>0, <1>2, TimesAppend
      <3> QED  BY <1>1, <2>0, <3>1, <3>2, <3>3 DEF Stored
    <2>2. CASE PlaceInSwap(p)
      <3>1. waiting' = waiting
        BY <2>2 DEF PlaceInSwap, queueVars
      <3>2. swap_write'[w] = IF w = t THEN Append(swap_write[w], new_work[p]) ELSE swap_write[w]
        BY <1>0, <2>2 DEF PlaceInSwap
      <3>3. new_work[p] \in Items
        BY <2>2, SwappedIsItem DEF PlaceInSwap
      <3>4. TimesIn(Append(swap_write[w], new_work[p]), i) =
                TimesIn(swap_write[w], i) + (IF new_work[p] = i THEN 1 ELSE 0)
        BY <1>0, <3>3, TimesAppend
      <3> QED  BY <1>1, <2>0, <3>1, <3>2, <3>4 DEF Stored
    <2> QED  BY <2>1, <2>2
  <1>6. \A i \in Items : \A q \in Procs : q # p => Carried(q, i)' = Carried(q, i)
    BY <1>1, <1>3 DEF Carried
  <1>7. \A i \in Items : Carried(p, i)' = 0 /\ Carried(p, i) = IF new_work[p] = i THEN 1 ELSE 0
    BY <1>4 DEF Carried
  <1> QED  BY <1>1, <1>2, <1>5, <1>6, <1>7

\* The pool accepts an item.
Accepts(p, t, j) ==
    /\ UNCHANGED <<runs, qi>> /\ accepted' = accepted \cup {j}
    /\ \A i \in Items : \A w \in Workers :
           Kept(w, i)' = Kept(w, i) + (IF w = t /\ i = j THEN 1 ELSE 0)
    /\ \A i \in Items : \A q \in Procs :
           Coming(q, i)' = Coming(q, i) - (IF q = p /\ i = j THEN 1 ELSE 0)

\* It accepts a new item, or puts back one that was in a swap file.
LEMMA PlaceKinds ==
    ASSUME IInv, IInv', LifeInv, NEW p \in Procs, PlaceInMemory(p) \/ PlaceInSwap(p)
    PROVE  \/ NothingNew /\ (KeptSame \/ \E a, b \in Workers : MovesExactly(a, b))
           \/ \E t \in Workers, j \in Items : Accepts(p, t, j) /\ Coming(p, j) > 0
  <1> PICK t \in Workers : t = target[p]
    BY DEF IInv, TypeOK, EnqTypes
  <1> DEFINE j == new_work[p]
  <1>1. /\ UNCHANGED <<runs, qi, todo>>
        /\ accepted' = IF j = Token THEN accepted ELSE accepted \cup {j}
        /\ j \in Work
        /\ \A i \in Items : \A w \in Workers :
               Stored(w, i)' = Stored(w, i) + (IF w = t /\ j = i THEN 1 ELSE 0)
        /\ \A i \in Items : \A q \in Procs : q # p => Carried(q, i)' = Carried(q, i)
        /\ \A i \in Items : Carried(p, i)' = 0 /\ Carried(p, i) = IF j = i THEN 1 ELSE 0
    BY PlaceCounts
  <1> HIDE DEF j
  <1>2. /\ \A i \in Items : \A w \in Workers : Stored(w, i) \in Nat
        /\ \A i \in Items : \A q \in Procs : Carried(q, i) \in Nat
        /\ \A i \in Items : \A w \in Workers : TimesIn(todo[w], i) \in Nat
    BY TimesAreNumbers DEF IInv, Stored, Carried
  <1>3. CASE p \in Workers /\ qi[p] = Token
    <2>1. ASSUME NEW i \in Items, NEW w \in Workers
          PROVE  Kept(w, i)' = Kept(w, i) + (IF w = t /\ j = i THEN 1 ELSE 0)
                                          - (IF w = p /\ j = i THEN 1 ELSE 0)
      BY <1>1, <1>2, <1>3, Distinct DEF Kept
    <2>2. \A i \in Items : \A q \in Procs : Coming(q, i)' = Coming(q, i)
      BY <1>1, <1>3, Distinct DEF Coming, Procs
    <2>3. j = Token \/ j \in accepted
      <3>1. j \in Items => Kept(p, j) > 0
        BY <1>1, <1>2, <1>3 DEF Kept
      <3> QED  BY <1>1, <1>3, <3>1 DEF LifeInv, Work
    <2>4. accepted' = accepted
      BY <1>1, <2>3
    <2>5. NothingNew
      BY <1>1, <2>2, <2>4, CopiesType DEF NothingNew, IInv
    <2>6. \A i \in Items : \A w \in Workers : Kept(w, i) \in Nat
      BY CopiesType DEF IInv
    <2>7. CASE p = t
      BY <2>1, <2>5, <2>6, <2>7 DEF KeptSame
    <2>8. CASE p # t
      <3>1. MovesExactly(p, t)
        BY <1>3, <2>1, <2>6, <2>8 DEF MovesExactly
      <3> QED  BY <1>3, <2>5, <3>1
    <2> QED  BY <2>7, <2>8
  <1>4. CASE ~(p \in Workers /\ qi[p] = Token)
    <2>1. ASSUME NEW i \in Items, NEW w \in Workers
          PROVE  Kept(w, i)' = Kept(w, i) + (IF w = t /\ j = i THEN 1 ELSE 0)
      BY <1>1, <1>2, <1>4, Distinct DEF Kept
    <2>2. ASSUME NEW i \in Items, NEW q \in Procs
          PROVE  Coming(q, i)' = Coming(q, i) - (IF q = p /\ j = i THEN 1 ELSE 0)
      BY <1>1, <1>2, <1>4, Distinct DEF Coming, Procs
    <2>3. CASE j = Token
      <3>1. \A i \in Items : j # i
        BY <2>3, ItemsAssumption
      <3>2. \A i \in Items : /\ \A w \in Workers : Kept(w, i) \in Nat
                             /\ \A q \in Procs : Coming(q, i) \in Nat
        BY CopiesType DEF IInv
      <3> QED  BY <1>1, <2>1, <2>2, <2>3, <3>1, <3>2 DEF NothingNew, KeptSame
    <2>4. CASE j \in Items
      <3>1. Accepts(p, t, j)
        BY <1>1, <2>1, <2>2, <2>4, ItemsAssumption DEF Accepts
      <3>2. Coming(p, j) > 0
        BY <1>1, <1>2, <1>4, <2>4 DEF Coming, Procs
      <3> QED  BY <2>4, <3>1, <3>2
    <2> QED  BY <1>1, <2>3, <2>4 DEF Work
  <1> QED  BY <1>3, <1>4

\* An item that is accepted still has one place: the queue or the swap file
\* of the target.
LEMMA PlaceAccepts ==
    ASSUME TypeOK, TypeOK', OnePlace, LifeInv, NEW p \in Procs, NEW t \in Workers,
           NEW j \in Items, Accepts(p, t, j), Coming(p, j) > 0
    PROVE  OnePlace' /\ LifeInv'
  <1>0. \A i \in Items : /\ \A w \in Workers : Kept(w, i) \in Nat /\ Kept(w, i)' \in Nat
                         /\ \A q \in Procs : Coming(q, i) \in Nat /\ Coming(q, i)' \in Nat
    BY CopiesType, CopiesTypeNext
  <1>1. ASSUME NEW i \in Items, NEW q \in Procs
        PROVE  /\ Copies(q, i) \in Nat
               /\ Copies(q, i)' = Copies(q, i) + (IF q = t /\ i = j THEN 1 ELSE 0)
                                               - (IF q = p /\ i = j THEN 1 ELSE 0)
    BY <1>0, Distinct DEF Copies, Accepts, Procs
  <1>2. ASSUME NEW i \in Items, NEW q \in Procs PROVE Copies(q, i)' \in Nat
    BY CopiesTypeNext
  <1>3. OnePlace'
    <2> SUFFICES ASSUME NEW i \in Items, NEW q \in Procs, NEW r \in Procs
                 PROVE  /\ Copies(q, i)' <= 1
                        /\ q # r => Copies(q, i)' + Copies(r, i)' <= 1
      BY DEF OnePlace
    <2>1. Copies(q, i) <= 1 /\ Copies(r, i) <= 1 /\ (q # r => Copies(q, i) + Copies(r, i) <= 1)
      BY DEF OnePlace
    <2>2. /\ q # p => Copies(q, i) + Copies(p, i) <= 1
          /\ r # p => Copies(r, i) + Copies(p, i) <= 1
      BY DEF OnePlace
    <2>3. i = j => Copies(p, i) >= 1
      BY <1>0, <1>1, Distinct DEF Copies, Procs
    <2> QED  BY <1>1, <1>2, <2>1, <2>2, <2>3
  <1>4. \A q \in Procs : Coming(q, j)' = 0
    <2> SUFFICES ASSUME NEW q \in Procs PROVE Coming(q, j)' = 0
      OBVIOUS
    <2>1. Kept(t, j)' >= 1
      BY <1>0 DEF Accepts
    <2>2. Copies(t, j)' >= 1 + Coming(t, j)'
      BY <1>0, <2>1, Distinct DEF Copies
    <2>3. Copies(t, j)' <= 1 /\ (q # t => Copies(q, j)' + Copies(t, j)' <= 1)
      BY <1>3, Distinct DEF OnePlace
    <2>4. Copies(q, j)' >= Coming(q, j)'
      BY <1>0, Distinct DEF Copies, Procs
    <2>5. t \in Procs
      BY Distinct
    <2> QED  BY <1>0, <1>2, <2>2, <2>3, <2>4, <2>5
  <1>5. j \notin accepted /\ runs[j] = 0 /\ (j \in Roots \cup HereItems \/ Born(j))
    <2>1. j \notin accepted /\ (j \in Roots \cup HereItems \/ Born(j))
      BY DEF LifeInv, Procs
    <2>2. runs[j] \in Nat
      BY DEF TypeOK, HistTypes
    <2> QED  BY <2>1, <2>2 DEF LifeInv
  <1>6. runs' = runs /\ qi' = qi /\ accepted' = accepted \cup {j}
    BY DEF Accepts
  <1>7. \A i \in Items : Born(i)' = Born(i)
    BY <1>6 DEF Born
  <1>8. \A i \in Items : i # j => /\ \A w \in Workers : Kept(w, i)' = Kept(w, i)
                                  /\ \A q \in Procs : Coming(q, i)' = Coming(q, i)
    BY <1>0 DEF Accepts
  <1>9. \A i \in Items, w \in Workers : Kept(w, i)' > 0 => i \in accepted' /\ runs[i] = 0
    BY <1>5, <1>6, <1>8 DEF LifeInv
  <1>10. \A i \in Items, w \in Workers : Coming(w, i)' > 0 => i \notin accepted' /\ Born(i)
    BY <1>4, <1>6, <1>8, Distinct DEF LifeInv
  <1>11. \A i \in Items : Coming(Main, i)' > 0 => i \in (Roots \cup HereItems) \ accepted'
    BY <1>4, <1>6, <1>8, Distinct DEF LifeInv
  <1>12. \A i \in Items, v, w \in Workers : qi'[v] = i => runs[i] > 0 /\ (qi'[w] = i => v = w)
    BY <1>6 DEF LifeInv
  <1>13. /\ \A i \in Items : runs[i] > 0 => i \in accepted'
         /\ \A i \in Items : i \in accepted' => i \in Roots \cup HereItems \/ Born(i)
    BY <1>5, <1>6 DEF LifeInv
  <1>14. LifeInv'
    BY <1>6, <1>7, <1>9, <1>10, <1>11, <1>12, <1>13, Zenon DEF LifeInv
  <1> QED  BY <1>3, <1>14

-----------------------------------------------------------------------------
(* A thread takes the next item off its claimed queue.                     *)

\* The thread calls the user function of an item it has kept, which from then
\* on is to enqueue what the item spawns.
Begins(w, j) ==
    /\ Kept(w, j) > 0
    /\ qi[w] = NoItem
    /\ runs' = [runs EXCEPT ![j] = @ + 1]
    /\ qi' = [qi EXCEPT ![w] = j]
    /\ accepted' = accepted
    /\ \A i \in Items : \A v \in Workers :
           Kept(v, i)' = Kept(v, i) - (IF v = w /\ i = j THEN 1 ELSE 0)
    /\ \A i \in Items : \A p \in Procs :
           Coming(p, i)' = IF p = w THEN TimesIn(Spawns[j], i) ELSE Coming(p, i)

\* sll_pop_front hands the thread a Token, which moves nothing, or an item.
LEMMA PopBegins ==
    ASSUME IInv, IInv', HandInv, NEW w \in Workers, PopWork(w)
    PROVE  \/ qi[w] = NoItem /\ qi' = [qi EXCEPT ![w] = Token] /\ NothingNew /\ KeptSame
           \/ \E j \in Items : Begins(w, j)
  <1> USE DEF Goto, swapVars, enqVars
  <1>0. /\ pc \in [Procs -> WorkerPC \cup EnqueuePC \cup MainPC]
        /\ claimed \in [Workers -> Seq(Work)]
        /\ qi \in [Workers -> Work \cup {NoItem}] /\ todo \in [Workers -> Seq(Items)]
    BY DEF IInv, TypeOK, ThreadTypes, QueueTypes, ItemTypes
  <1>t. w # Main /\ w \in Procs /\ NoItem # Token /\ NoItem \notin Items /\ Token \notin Items
    BY Distinct, ItemsAssumption
  <1>n. \A i \in Items : /\ TimesIn(waiting[w], i) \in Nat /\ TimesIn(claimed[w], i) \in Nat
                         /\ TimesIn(swap_write[w], i) \in Nat /\ TimesIn(swap_read[w], i) \in Nat
                         /\ TimesIn(todo[w], i) \in Nat
    BY TimesAreNumbers DEF IInv
  <1> DEFINE j == Head(claimed[w])
  <1>1. claimed[w] \in Seq(Work) /\ claimed[w] # <<>> /\ claimed'[w] = Tail(claimed[w])
    BY <1>0 DEF PopWork
  <1>2. \A i \in Items : TimesIn(claimed[w], i) = (IF j = i THEN 1 ELSE 0) + TimesIn(claimed'[w], i)
    BY <1>1, TimesHeadTail, Zenon
  <1>3. j \in Work
    BY <1>1
  <1>4. ~Handing(w) /\ ~Handing(w)'
    BY <1>0, <1>t DEF PopWork, Handing
  <1>5. qi[w] = NoItem
    BY DEF PopWork, HandInv, EnqueuePC
  <1>6. /\ UNCHANGED <<waiting, swap_write, swap_read, accepted>>
        /\ qi' = [qi EXCEPT ![w] = j] /\ qi'[w] = j
        /\ todo'[w] = IF j = Token THEN <<>> ELSE Spawns[j]
        /\ runs' = IF j = Token THEN runs ELSE [runs EXCEPT ![j] = @ + 1]
    BY <1>0 DEF PopWork
  <1> HIDE DEF j
  <1>7. \A i \in Items : TimesIn(claimed'[w], i) \in Nat
    BY TimesAreNumbersNext DEF IInv
  <1>8. \A i \in Items : /\ Kept(w, i) = Stored(w, i) /\ Kept(w, i)' = Stored(w, i)'
                         /\ Stored(w, i)' = Stored(w, i) - (IF j = i THEN 1 ELSE 0)
                         /\ Stored(w, i) \in Nat /\ Stored(w, i)' \in Nat
    <2> SUFFICES ASSUME NEW i \in Items
                 PROVE  /\ Kept(w, i) = Stored(w, i) /\ Kept(w, i)' = Stored(w, i)'
                        /\ Stored(w, i)' = Stored(w, i) - (IF j = i THEN 1 ELSE 0)
                        /\ Stored(w, i) \in Nat /\ Stored(w, i)' \in Nat
      OBVIOUS
    <2>1. Stored(w, i) \in Nat /\ Stored(w, i)' \in Nat
      BY <1>n, <1>6, <1>7 DEF Stored
    <2>2. Stored(w, i)' = Stored(w, i) - (IF j = i THEN 1 ELSE 0)
      BY <1>n, <1>2, <1>6, <1>7 DEF Stored
    <2>3. Carried(w, i) = 0 /\ Carried(w, i)' = 0
      BY <1>4 DEF Carried
    <2> QED  BY <2>1, <2>2, <2>3 DEF Kept
  <1>9. \A i \in Items : Coming(w, i) = TimesIn(todo[w], i) /\ Coming(w, i)' = TimesIn(todo'[w], i)
    <2> SUFFICES ASSUME NEW i \in Items
                 PROVE  Coming(w, i) = TimesIn(todo[w], i) /\ Coming(w, i)' = TimesIn(todo'[w], i)
      OBVIOUS
    <2>1. Carried(w, i) = 0 /\ Carried(w, i)' = 0
      BY <1>4 DEF Carried
    <2>2. TimesIn(todo[w], i) \in Nat /\ TimesIn(todo'[w], i) \in Nat
      BY TimesAreNumbers, TimesAreNumbersNext DEF IInv
    <2> QED  BY <1>t, <2>1, <2>2 DEF Coming
  <1>10. CASE j = Token
    <2>1. \A i \in Items : Kept(w, i)' = Kept(w, i) /\ Coming(w, i)' <= Coming(w, i)
      <3>1. \A i \in Items : TimesIn(<<>>, i) = 0
        BY TimesEmpty
      <3>2. todo'[w] = <<>> /\ \A i \in Items : j # i
        BY <1>6, <1>10, <1>t
      <3> QED  BY <1>n, <1>8, <1>9, <3>1, <3>2
    <2>2. UNCHANGED <<runs, accepted>> /\ ~(qi'[w] \in Items)
      BY <1>6, <1>10, <1>t
    <2>3. NothingNew /\ KeptSame
      BY <2>1, <2>2, OwnApart, StaysAlone DEF IInv
    <2> QED  BY <1>5, <1>6, <1>10, <2>3
  <1>11. CASE j # Token
    <2>1. j \in Items
      BY <1>3, <1>11 DEF Work
    <2>2. \A i \in Items : /\ \A v \in Workers \ {w} : Kept(v, i)' = Kept(v, i)
                           /\ \A p \in Procs \ {w} : Coming(p, i)' = Coming(p, i)
      BY OwnApart, ApartSame
    <2>3. ASSUME NEW i \in Items, NEW v \in Workers
          PROVE  Kept(v, i)' = Kept(v, i) - (IF v = w /\ i = j THEN 1 ELSE 0)
      <3>1. Kept(v, i) \in Nat
        BY CopiesType DEF IInv
      <3> QED  BY <1>8, <2>2, <3>1
    <2>4. ASSUME NEW i \in Items, NEW p \in Procs
          PROVE  Coming(p, i)' = IF p = w THEN TimesIn(Spawns[j], i) ELSE Coming(p, i)
      BY <1>6, <1>9, <1>11, <2>2
    <2>5. Kept(w, j) > 0
      BY <1>8, <2>1
    <2>6. Begins(w, j)
      BY <1>5, <1>6, <1>11, <2>3, <2>4, <2>5 DEF Begins
    <2> QED  BY <2>1, <2>6
  <1> QED  BY <1>10, <1>11

\* Only the one call of its user function makes an item bring others.
LEMMA Unborn ==
    ASSUME NEW j \in Items, NEW i \in Range(Spawns[j]), runs[j] = 0
    PROVE  ~Born(i) /\ i \notin Roots \cup HereItems
  <1>1. PICK k \in DOMAIN Spawns[j] : Spawns[j][k] = i
    BY DEF Range
  <1>2. ASSUME Born(i) PROVE FALSE
    <2>1. PICK m \in Items : runs[m] > 0 /\ i \in Range(Spawns[m])
      BY <1>2 DEF Born
    <2>2. PICK l \in DOMAIN Spawns[m] : Spawns[m][l] = i
      BY <2>1 DEF Range
    <2>3. m = j
      BY <1>1, <2>2, OwnItemAssumption
    <2> QED  BY <2>1, <2>3
  <1> QED  BY <1>1, <1>2, OwnItemAssumption

\* A user function enqueues an item at most once.
LEMMA SpawnsOnce ==
    ASSUME NEW j \in Items
    PROVE  \A i \in Items : /\ TimesIn(Spawns[j], i) \in 0 .. 1
                            /\ TimesIn(Spawns[j], i) > 0 => i \in Range(Spawns[j])
  <1>1. Spawns[j] \in Seq(Items)
    BY ItemsAssumption
  <1>2. \A k, l \in DOMAIN Spawns[j] : Spawns[j][k] = Spawns[j][l] => k = l
    BY OwnItemAssumption
  <1>3. ASSUME NEW i \in Items
        PROVE  /\ TimesIn(Spawns[j], i) \in Nat /\ TimesIn(Spawns[j], i) <= 1
               /\ TimesIn(Spawns[j], i) = 0 <=> i \notin Range(Spawns[j])
    BY <1>1, <1>2, TimesType, TimesInjective
  <1> QED  BY <1>3

\* An item that runs has no place, and what it spawns has one: no other call
\* of a user function brings the same items.
LEMMA PlaceBegins ==
    ASSUME TypeOK, TypeOK', OnePlace, LifeInv, NEW w \in Workers, NEW j \in Items, Begins(w, j)
    PROVE  OnePlace' /\ LifeInv'
  <1>0. \A i \in Items : /\ \A v \in Workers : Kept(v, i) \in Nat /\ Kept(v, i)' \in Nat
                         /\ \A q \in Procs : Coming(q, i) \in Nat /\ Coming(q, i)' \in Nat
                         /\ \A q \in Procs : Copies(q, i) \in Nat /\ Copies(q, i)' \in Nat
    BY CopiesType, CopiesTypeNext
  <1>t. runs \in [Items -> Nat] /\ qi \in [Workers -> Work \cup {NoItem}] /\ w \in Procs /\ w # Main
    BY Distinct DEF TypeOK, HistTypes, ItemTypes
  <1>1. j \in accepted /\ runs[j] = 0
    BY DEF Begins, LifeInv
  <1>2. \A i \in Range(Spawns[j]) : ~Born(i) /\ i \notin Roots \cup HereItems
    BY <1>1, Unborn
  <1>3. \A i \in Items : i \in Range(Spawns[j]) =>
            /\ i \notin accepted /\ i # j
            /\ \A v \in Workers : Kept(v, i) = 0
            /\ \A q \in Procs : Coming(q, i) = 0
    <2> SUFFICES ASSUME NEW i \in Items, i \in Range(Spawns[j])
                 PROVE  /\ i \notin accepted /\ i # j
                        /\ \A v \in Workers : Kept(v, i) = 0
                        /\ \A q \in Procs : Coming(q, i) = 0
      OBVIOUS
    <2>1. i \notin accepted
      BY <1>2 DEF LifeInv
    <2>2. \A v \in Workers : Kept(v, i) = 0
      BY <1>0, <2>1 DEF LifeInv
    <2>3. \A q \in Workers : Coming(q, i) = 0
      BY <1>0, <1>2, Distinct DEF LifeInv
    <2>4. Coming(Main, i) = 0
      BY <1>0, <1>2, Distinct DEF LifeInv
    <2> QED  BY <1>1, <2>1, <2>2, <2>3, <2>4 DEF Procs
  <1>4. \A i \in Items : /\ TimesIn(Spawns[j], i) \in 0 .. 1
                         /\ TimesIn(Spawns[j], i) > 0 => i \in Range(Spawns[j])
    BY SpawnsOnce
  <1>5. ASSUME NEW i \in Items, i \in Range(Spawns[j]), NEW q \in Procs
        PROVE  Copies(q, i)' <= IF q = w THEN 1 ELSE 0
    BY <1>0, <1>3, <1>4, <1>5 DEF Begins, Copies, Procs
  <1>6. ASSUME NEW i \in Items, i \notin Range(Spawns[j]), NEW q \in Procs
        PROVE  Copies(q, i)' <= Copies(q, i)
    <2>1. Coming(q, i)' <= Coming(q, i)
      BY <1>0, <1>4, <1>6 DEF Begins
    <2>2. q \in Workers => Kept(q, i)' <= Kept(q, i)
      BY <1>0 DEF Begins
    <2> QED  BY <1>0, <2>1, <2>2 DEF Copies, Procs
  <1>7. OnePlace'
    <2> SUFFICES ASSUME NEW i \in Items, NEW q \in Procs, NEW r \in Procs
                 PROVE  /\ Copies(q, i)' <= 1
                        /\ q # r => Copies(q, i)' + Copies(r, i)' <= 1
      BY DEF OnePlace
    <2>1. CASE i \in Range(Spawns[j])
      BY <1>0, <1>5, <2>1
    <2>2. CASE i \notin Range(Spawns[j])
      <3>1. Copies(q, i) <= 1 /\ (q # r => Copies(q, i) + Copies(r, i) <= 1)
        BY DEF OnePlace
      <3> QED  BY <1>0, <1>6, <2>2, <3>1
    <2> QED  BY <2>1, <2>2
  <1>8. \A v \in Workers : Kept(v, j)' = 0
    <2> SUFFICES ASSUME NEW v \in Workers PROVE Kept(v, j)' = 0
      OBVIOUS
    <2>1. Copies(w, j) <= 1 /\ (v # w => Copies(v, j) + Copies(w, j) <= 1)
      BY <1>t, Distinct DEF OnePlace
    <2>2. Copies(w, j) >= Kept(w, j) /\ Copies(v, j) >= Kept(v, j) /\ Kept(w, j) > 0
      BY <1>0, Distinct DEF Copies, Begins
    <2>3. Kept(v, j)' = Kept(v, j) - (IF v = w THEN 1 ELSE 0)
      BY DEF Begins
    <2> QED  BY <1>0, <1>t, <2>1, <2>2, <2>3, Distinct
  <1>9. accepted' = accepted /\ runs' = [runs EXCEPT ![j] = @ + 1] /\ qi' = [qi EXCEPT ![w] = j]
    BY DEF Begins
  <1>10. \A i \in Items : (runs[i] > 0 => runs'[i] > 0) /\ (i # j => runs'[i] = runs[i])
    BY <1>t, <1>9
  <1>11. runs'[j] > 0
    BY <1>t, <1>9
  <1>12. \A i \in Items : /\ Born(i) => Born(i)'
                          /\ i \in Range(Spawns[j]) => Born(i)'
    BY <1>10, <1>11 DEF Born
  <1>13. \A i \in Items, v \in Workers : Kept(v, i)' > 0 => i \in accepted' /\ runs'[i] = 0
    <2> SUFFICES ASSUME NEW i \in Items, NEW v \in Workers, Kept(v, i)' > 0
                 PROVE  i \in accepted' /\ runs'[i] = 0
      OBVIOUS
    <2>1. i # j
      BY <1>8
    <2>2. Kept(v, i) > 0
      BY <1>0, <2>1 DEF Begins
    <2> QED  BY <1>9, <1>10, <2>1, <2>2 DEF LifeInv
  <1>14. \A i \in Items, v \in Workers : Coming(v, i)' > 0 => i \notin accepted' /\ Born(i)'
    <2> SUFFICES ASSUME NEW i \in Items, NEW v \in Workers, Coming(v, i)' > 0
                 PROVE  i \notin accepted' /\ Born(i)'
      OBVIOUS
    <2>1. CASE v = w
      <3>1. i \in Range(Spawns[j])
        BY <1>4, <1>t, <2>1 DEF Begins
      <3> QED  BY <1>3, <1>9, <1>12, <3>1
    <2>2. CASE v # w
      <3>1. Coming(v, i) > 0
        BY <2>2, Distinct DEF Begins
      <3> QED  BY <1>9, <1>12, <3>1 DEF LifeInv
    <2> QED  BY <2>1, <2>2
  <1>15. \A i \in Items : Coming(Main, i)' > 0 => i \in (Roots \cup HereItems) \ accepted'
    BY <1>9, <1>t, Distinct DEF Begins, LifeInv
  <1>16. \A i \in Items, u, v \in Workers : qi'[u] = i => runs'[i] > 0 /\ (qi'[v] = i => u = v)
    <2>1. \A u \in Workers : qi'[u] = IF u = w THEN j ELSE qi[u]
      BY <1>9, <1>t
    <2>2. \A u \in Workers : qi[u] # j
      BY <1>1 DEF LifeInv
    <2> QED  BY <1>10, <1>11, <2>1, <2>2 DEF LifeInv
  <1>17. /\ \A i \in Items : runs'[i] > 0 => i \in accepted'
         /\ \A i \in Items : i \in accepted' => i \in Roots \cup HereItems \/ Born(i)'
    BY <1>1, <1>9, <1>10, <1>12 DEF LifeInv
  <1>18. LifeInv'
    BY <1>13, <1>14, <1>15, <1>16, <1>17, Zenon DEF LifeInv
  <1> QED  BY <1>7, <1>18

-----------------------------------------------------------------------------
(* main() enqueues an item.                                                *)

Comes(j) ==
    /\ j \in (Roots \cup HereItems) \ accepted
    /\ UNCHANGED <<runs, accepted, qi>>
    /\ KeptSame
    /\ \A i \in Items : \A p \in Procs :
           Coming(p, i)' = IF p = Main THEN (IF i = j THEN 1 ELSE 0) ELSE Coming(p, i)

\* main() enqueues an item it has not enqueued before.
LEMMA UserComes ==
    ASSUME IInv, NEW j \in Items,
           UserEnqueue(j) \/ UserEnqueueHere(j, "WAIT") \/ UserEnqueueHere(j, "SWAP")
    PROVE  Comes(j)
  <1> USE DEF Goto, swapVars, queueVars, itemVars, histVars
  <1>0. /\ pc \in [Procs -> WorkerPC \cup EnqueuePC \cup MainPC]
        /\ new_work \in [Procs -> Work \cup {NoItem}]
    BY DEF IInv, TypeOK, ThreadTypes, EnqTypes
  <1>1. /\ UNCHANGED <<waiting, claimed, swap_write, swap_read, todo, qi, runs, accepted>>
        /\ j \in (Roots \cup HereItems) \ accepted
    BY DEF UserEnqueue, UserEnqueueHere
  <1>2. Handing(Main)' /\ new_work'[Main] = j
    BY <1>0, Distinct DEF UserEnqueue, UserEnqueueHere, Handing
  <1>3. \A w \in Workers : Handing(w)' = Handing(w) /\ new_work'[w] = new_work[w]
    BY <1>0, Distinct DEF UserEnqueue, UserEnqueueHere, Handing
  <1>4. \A i \in Items : \A w \in Workers : Carried(w, i)' = Carried(w, i)
    BY <1>3 DEF Carried
  <1>5. \A i \in Items : Carried(Main, i)' = IF i = j THEN 1 ELSE 0
    BY <1>2 DEF Carried
  <1>6. \A i \in Items : \A w \in Workers : Kept(w, i)' = Kept(w, i)
    BY <1>1, <1>4 DEF Kept, Stored
  <1>7. \A i \in Items : \A p \in Procs :
            Coming(p, i)' = IF p = Main THEN (IF i = j THEN 1 ELSE 0) ELSE Coming(p, i)
    BY <1>1, <1>4, <1>5, Distinct DEF Coming, Procs
  <1> QED  BY <1>1, <1>6, <1>7 DEF Comes, KeptSame

\* Such an item has been nowhere yet.
LEMMA PlaceComes ==
    ASSUME TypeOK, TypeOK', OnePlace, LifeInv, NEW j \in Items, Comes(j)
    PROVE  OnePlace' /\ LifeInv'
  <1>0. \A i \in Items : /\ \A v \in Workers : Kept(v, i) \in Nat
                         /\ \A q \in Procs : Coming(q, i) \in Nat
                         /\ \A q \in Procs : Copies(q, i) \in Nat /\ Copies(q, i)' \in Nat
    BY CopiesType, CopiesTypeNext
  <1>1. ~Born(j)
    <2>1. ASSUME NEW k \in Items, j \in Range(Spawns[k]) PROVE FALSE
      <3>1. PICK l \in DOMAIN Spawns[k] : Spawns[k][l] = j
        BY <2>1 DEF Range
      <3> QED  BY <3>1, OwnItemAssumption DEF Comes
    <2> QED  BY <2>1 DEF Born
  <1>2. \A v \in Workers : Kept(v, j) = 0 /\ Coming(v, j) = 0
    BY <1>0, <1>1, Distinct DEF LifeInv, Comes
  <1>3. /\ \A i \in Items : \A v \in Workers : Copies(v, i)' = Copies(v, i)
        /\ \A v \in Workers : Copies(v, j) = 0
        /\ \A i \in Items : Copies(Main, i)' = IF i = j THEN 1 ELSE 0
    BY <1>0, <1>2, Distinct DEF Copies, Comes, KeptSame
  <1>4. OnePlace'
    <2> SUFFICES ASSUME NEW i \in Items, NEW q \in Procs, NEW r \in Procs
                 PROVE  /\ Copies(q, i)' <= 1
                        /\ q # r => Copies(q, i)' + Copies(r, i)' <= 1
      BY DEF OnePlace
    <2>1. Copies(q, i) <= 1 /\ (q # r => Copies(q, i) + Copies(r, i) <= 1)
      BY DEF OnePlace
    <2>2. /\ q # Main => Copies(q, i) + Copies(Main, i) <= 1
          /\ r # Main => Copies(r, i) + Copies(Main, i) <= 1
          /\ Copies(Main, i) >= 0 /\ Copies(r, i) <= 1
      BY <1>0, Distinct DEF OnePlace
    <2>3. q = Main \/ q \in Workers
      BY DEF Procs
    <2>4. r = Main \/ r \in Workers
      BY DEF Procs
    <2> QED  BY <1>0, <1>3, <2>1, <2>2, <2>3, <2>4
  <1>5. runs' = runs /\ accepted' = accepted /\ qi' = qi
    BY DEF Comes
  <1>6. \A i \in Items : Born(i)' = Born(i)
    BY <1>5 DEF Born
  <1>7. \A i \in Items, v \in Workers : Kept(v, i)' > 0 => i \in accepted /\ runs[i] = 0
    BY DEF LifeInv, Comes, KeptSame
  <1>8. \A i \in Items, v \in Workers : Coming(v, i)' > 0 => i \notin accepted /\ Born(i)
    BY Distinct DEF LifeInv, Comes
  <1>9. \A i \in Items : Coming(Main, i)' > 0 => i \in (Roots \cup HereItems) \ accepted
    BY Distinct DEF Comes
  <1>10. \A i \in Items, u, v \in Workers : qi[u] = i => runs[i] > 0 /\ (qi[v] = i => u = v)
    BY DEF LifeInv
  <1>11. /\ \A i \in Items : runs[i] > 0 => i \in accepted
         /\ \A i \in Items : i \in accepted => i \in Roots \cup HereItems \/ Born(i)
    BY DEF LifeInv
  <1>12. LifeInv'
    BY <1>5, <1>6, <1>7, <1>8, <1>9, <1>10, <1>11, Zenon DEF LifeInv
  <1> QED  BY <1>4, <1>12

-----------------------------------------------------------------------------
(* The steps that give work up.                                            *)

\* Queues are emptied, and nothing else happens to any work.
Clears ==
    /\ UNCHANGED <<todo, new_work, qi, runs, accepted>>
    /\ \A p \in Procs : Handing(p)' = Handing(p)
    /\ \A w \in Workers :
           /\ waiting'[w] \in {waiting[w], <<>>} /\ claimed'[w] \in {claimed[w], <<>>}
           /\ swap_write'[w] \in {swap_write[w], <<>>} /\ swap_read'[w] \in {swap_read[w], <<>>}

\* Emptying queues brings nothing and moves nothing.
LEMMA ClearsStays ==
    ASSUME TypeOK, Clears
    PROVE  NothingNew /\ Stays
  <1>1. \A p \in Procs : \A i \in Items : Carried(p, i)' = Carried(p, i)
    BY DEF Clears, Carried
  <1>2. ASSUME NEW i \in Items, NEW w \in Workers
        PROVE  /\ Stored(w, i) \in Nat /\ Stored(w, i)' \in Nat
               /\ Stored(w, i)' <= Stored(w, i)
    <2>1. /\ TimesIn(waiting[w], i) \in Nat /\ TimesIn(claimed[w], i) \in Nat
          /\ TimesIn(swap_write[w], i) \in Nat /\ TimesIn(swap_read[w], i) \in Nat
          /\ TimesIn(<<>>, i) = 0
      BY TimesAreNumbers, TimesEmpty
    <2>2. /\ TimesIn(waiting'[w], i) \in {TimesIn(waiting[w], i), 0}
          /\ TimesIn(claimed'[w], i) \in {TimesIn(claimed[w], i), 0}
          /\ TimesIn(swap_write'[w], i) \in {TimesIn(swap_write[w], i), 0}
          /\ TimesIn(swap_read'[w], i) \in {TimesIn(swap_read[w], i), 0}
      BY <2>1 DEF Clears
    <2> QED  BY <2>1, <2>2 DEF Stored
  <1>3. ASSUME NEW i \in Items, NEW w \in Workers PROVE Kept(w, i)' <= Kept(w, i)
    <2>1. Carried(w, i) \in Nat
      BY DEF Carried
    <2>2. Carried(w, i)' = Carried(w, i) /\ qi' = qi
      BY <1>1, Distinct DEF Clears
    <2> QED  BY <1>2, <2>1, <2>2 DEF Kept
  <1>4. \A i \in Items : \A p \in Procs : Coming(p, i)' = Coming(p, i)
    BY <1>1, Distinct DEF Coming, Clears, Procs
  <1>5. \A i \in Items : \A p \in Procs : Coming(p, i) \in Nat
    BY CopiesType
  <1> QED  BY <1>3, <1>4, <1>5 DEF NothingNew, Stays, Clears

\* A setting may drop the swap files.
LEMMA SetClears ==
    ASSUME TypeOK, NEW s \in Settings, Set(s[1], s[2])
    PROVE  Clears
  <1>1. /\ UNCHANGED <<pc, waiting, claimed, swap_read, todo, new_work, qi, runs, accepted>>
        /\ swap_write' = [w \in Workers |-> <<>>] \/ swap_write' = swap_write
    BY DEF Set, queueVars, itemVars, enqVars, histVars
  <1>2. \A p \in Procs : Handing(p)' = Handing(p)
    BY <1>1 DEF Handing
  <1> QED  BY <1>1, <1>2 DEF Clears

\* QPTPool_destroy drops everything.
LEMMA DestroyClears ==
    ASSUME TypeOK, Destroy
    PROVE  Clears
  <1>0. pc \in [Procs -> WorkerPC \cup EnqueuePC \cup MainPC]
    BY DEF TypeOK, ThreadTypes
  <1>1. /\ UNCHANGED <<todo, new_work, qi, runs, accepted>>
        /\ waiting' = [w \in Workers |-> <<>>] /\ claimed' = [w \in Workers |-> <<>>]
        /\ swap_write' = [w \in Workers |-> <<>>] /\ swap_read' = [w \in Workers |-> <<>>]
    BY DEF Destroy, itemVars, enqVars, histVars
  <1>2. \A p \in Procs : Handing(p)' = Handing(p)
    BY <1>0, Distinct DEF Destroy, Goto, Handing
  <1> QED  BY <1>1, <1>2 DEF Clears

\* swap_read_prep that fails drops the swap file of its thread.
LEMMA PrepFailsStays ==
    ASSUME IInv, IInv', HandInv, NEW w \in Workers, SwapPrepFails(w)
    PROVE  NothingNew /\ Stays
  <1>0. /\ pc \in [Procs -> WorkerPC \cup EnqueuePC \cup MainPC]
        /\ qi \in [Workers -> Work \cup {NoItem}] /\ todo \in [Workers -> Seq(Items)]
        /\ swap_write \in [Workers -> Seq(Items)] /\ swap_read \in [Workers -> Seq(Items)]
    BY DEF IInv, TypeOK, ThreadTypes, ItemTypes, SwapTypes
  <1>t. w # Main /\ w \in Procs /\ NoItem # Token /\ NoItem \notin Items
    BY Distinct, ItemsAssumption
  <1>1. /\ UNCHANGED <<waiting, claimed, runs, accepted>>
        /\ qi'[w] = NoItem /\ todo'[w] = <<>>
        /\ swap_write'[w] = <<>> /\ swap_read'[w] = <<>>
    BY <1>0 DEF SwapPrepFails, Processed, queueVars
  <1>2. ~Handing(w) /\ ~Handing(w)'
    BY <1>0, <1>t DEF SwapPrepFails, Goto, Handing
  <1>3. \A i \in Items : /\ \A v \in Workers \ {w} : Kept(v, i)' = Kept(v, i)
                         /\ \A p \in Procs \ {w} : Coming(p, i)' = Coming(p, i)
    BY OwnApart, ApartSame
  <1>4. ASSUME NEW i \in Items PROVE Kept(w, i)' <= Kept(w, i) /\ Coming(w, i)' <= Coming(w, i)
    <2>1. /\ TimesIn(waiting[w], i) \in Nat /\ TimesIn(claimed[w], i) \in Nat
          /\ TimesIn(swap_write[w], i) \in Nat /\ TimesIn(swap_read[w], i) \in Nat
          /\ TimesIn(todo[w], i) \in Nat /\ TimesIn(<<>>, i) = 0
      BY TimesAreNumbers, TimesEmpty DEF IInv
    <2>2. Carried(w, i) = 0 /\ Carried(w, i)' = 0
      BY <1>2 DEF Carried
    <2> QED  BY <1>1, <1>t, <2>1, <2>2 DEF Kept, Stored, Coming
  <1>5. \A i \in Items : /\ \A v \in Workers : Kept(v, i) \in Nat
                         /\ \A p \in Procs : Coming(p, i) \in Nat
    BY CopiesType DEF IInv
  <1>6. \A v \in Workers : qi'[v] \in Items => qi'[v] = qi[v]
    BY <1>1, <1>t, OwnApart DEF Apart
  <1> QED  BY <1>1, <1>3, <1>4, <1>5, <1>6 DEF NothingNew, Stays

-----------------------------------------------------------------------------
(* What the client of the abstract pool sees.                              *)

PoolStatus == [i \in Items |-> StatusOf(i)]
Client     == IF ClientBlocked THEN "blocked" ELSE "free"
Phase      == IF pc[Main] = "destroyed" THEN "closed"
              ELSE IF starts = 0 THEN "configuring" ELSE "started"

\* Only the work changes.
OnlyWork == UNCHANGED <<Client, Phase, Failed>>

\* Enqueueing, stealing, starting and ending a user function are not seen in
\* a call of main(), nor do they make the pool fail.
LEMMA WorkOnly ==
    ASSUME IInv,
           \/ \E p \in Procs : PlaceInMemory(p) \/ PlaceInSwap(p)
           \/ \E w \in Workers : \/ PopWork(w) \/ RunSucceeds(w) \/ RunFails(w)
                                 \/ StealWaiting(w) \/ StealClaimed(w)
           \/ \E i \in Items : \/ UserEnqueue(i) \/ UserEnqueueHere(i, "WAIT")
                               \/ UserEnqueueHere(i, "SWAP")
    PROVE  OnlyWork
  <1> USE DEF Goto, poolVars, mainVars, histVars
  <1>0. pc \in [Procs -> WorkerPC \cup EnqueuePC \cup MainPC]
    BY DEF IInv, TypeOK, ThreadTypes
  <1>1. UNCHANGED <<props, errored, swap_lost, call, starts>>
    <2>1. CASE \E p \in Procs : PlaceInMemory(p) \/ PlaceInSwap(p)
      BY <2>1 DEF PlaceInMemory, PlaceInSwap
    <2>2. CASE \E w \in Workers : \/ PopWork(w) \/ RunSucceeds(w) \/ RunFails(w)
                                 \/ StealWaiting(w) \/ StealClaimed(w)
      BY <2>2 DEF PopWork, RunSucceeds, RunFails, StealWaiting, StealClaimed
    <2>3. CASE \E i \in Items : \/ UserEnqueue(i) \/ UserEnqueueHere(i, "WAIT")
                               \/ UserEnqueueHere(i, "SWAP")
      BY <2>3 DEF UserEnqueue, UserEnqueueHere
    <2> QED  BY <2>1, <2>2, <2>3
  <1>2. \/ pc'[Main] = pc[Main]
        \/ {pc[Main], pc'[Main]} \subseteq EnqueuePC \cup {"user"}
    <2>1. ASSUME NEW p \in Procs, PlaceInMemory(p) \/ PlaceInSwap(p)
          PROVE  \/ pc'[Main] = pc[Main]
                 \/ {pc[Main], pc'[Main]} \subseteq EnqueuePC \cup {"user"}
      BY <1>0, <2>1, Distinct DEF PlaceInMemory, PlaceInSwap, EnqueuePC
    <2>2. ASSUME NEW w \in Workers, \/ PopWork(w) \/ RunSucceeds(w) \/ RunFails(w)
                                    \/ StealWaiting(w) \/ StealClaimed(w)
          PROVE  pc'[Main] = pc[Main]
      BY <1>0, <2>2, Distinct DEF PopWork, RunSucceeds, RunFails, StealWaiting, StealClaimed
    <2>3. ASSUME NEW i \in Items, \/ UserEnqueue(i) \/ UserEnqueueHere(i, "WAIT")
                                  \/ UserEnqueueHere(i, "SWAP")
          PROVE  {pc[Main], pc'[Main]} \subseteq EnqueuePC \cup {"user"}
      BY <1>0, <2>3, Distinct DEF UserEnqueue, UserEnqueueHere, EnqueuePC
    <2> QED  BY <2>1, <2>2, <2>3
  <1> QED  BY <1>1, <1>2 DEF OnlyWork, Client, Phase, Failed, ClientBlocked, StoppedOnError,
           EnqueuePC

-----------------------------------------------------------------------------
(* The effect of any step.                                                 *)

\* A quiet step loses an item only when it leaves the pool failed.
LEMMA QuietKeeps ==
    ASSUME TypeOK, Quiet
    PROVE  Failed' \/ KeptSame
  <1> SUFFICES ASSUME ~Failed' PROVE KeptSame
    OBVIOUS
  <1>1. \A w \in Workers : \A i \in Items : qi[w] = Token => Carried(w, i)' = Carried(w, i)
    BY ItemsAssumption, Distinct DEF Quiet, Carried
  <1>2. \A w \in Workers : \A i \in Items : Stored(w, i)' = Stored(w, i)
    BY DEF Quiet, Stored
  <1> QED  BY <1>1, <1>2 DEF KeptSame, Kept, Quiet

\* The threads process what they did before.
SameHands == \A w \in Workers : \A i \in Items : qi'[w] = i <=> qi[w] = i

\* Work stays where it is, or is lost or given up for a reason.
Leaves ==
    /\ NothingNew /\ SameHands /\ Stays
    /\ KeptSame \/ Failed' \/ (pc[Main] = "user" /\ starts = 0) \/ Destroy

\* It moves from thread to thread.
Shifts == NothingNew /\ SameHands /\ \E a, b \in Workers : MovesExactly(a, b)

\* The user function of an item returns.
Ends(w) ==
    /\ NothingNew /\ KeptSame
    /\ qi[w] \in Items
    /\ qi' = [qi EXCEPT ![w] = NoItem]

\* There is no other kind of step.
LEMMA Effects ==
    ASSUME IInv, IInv', HandInv, LifeInv, UseInv, [Next]_vars
    PROVE  \/ Leaves
           \/ /\ OnlyWork
              /\ \/ Shifts
                 \/ \E p \in Procs, t \in Workers, j \in Items :
                        Accepts(p, t, j) /\ Coming(p, j) > 0
                 \/ \E w \in Workers, j \in Items : Begins(w, j)
                 \/ \E w \in Workers : Ends(w)
                 \/ \E j \in Items : Comes(j)
  <1> DEFINE Changes ==
                \/ Shifts
                \/ \E p \in Procs, t \in Workers, j \in Items :
                       Accepts(p, t, j) /\ Coming(p, j) > 0
                \/ \E w \in Workers, j \in Items : Begins(w, j)
                \/ \E w \in Workers : Ends(w)
                \/ \E j \in Items : Comes(j)
             Goal == Leaves \/ (OnlyWork /\ Changes)
  <1>0. /\ TypeOK /\ TypeOK'
        /\ qi \in [Workers -> Work \cup {NoItem}] /\ Token \notin Items /\ NoItem \notin Items
    BY ItemsAssumption DEF IInv, TypeOK, ItemTypes
  <1>1. ASSUME Quiet PROVE Goal
    <2>1. SameHands
      BY <1>1 DEF Quiet, SameHands
    <2> QED  BY <1>0, <1>1, <2>1, QuietStays, QuietKeeps DEF Leaves
  <1>2. ASSUME NEW p \in Procs, EnqueueSteps(p) PROVE Goal
    <2>1. CASE QuietSteps(p)
      BY <1>1, <2>1, QuietEnqueue
    <2>2. CASE PlaceInMemory(p) \/ PlaceInSwap(p)
      <3>1. qi' = qi
        BY <2>2 DEF PlaceInMemory, PlaceInSwap, itemVars
      <3>2. SameHands
        BY <3>1 DEF SameHands
      <3>3. KeptSame => Stays
        BY <1>0, CopiesType DEF KeptSame, Stays
      <3>4. \/ NothingNew /\ (KeptSame \/ \E a, b \in Workers : MovesExactly(a, b))
            \/ \E t \in Workers, j \in Items : Accepts(p, t, j) /\ Coming(p, j) > 0
        BY <2>2, PlaceKinds
      <3>5. OnlyWork
        BY <2>2, WorkOnly
      <3> QED  BY <3>2, <3>3, <3>4, <3>5 DEF Leaves, Shifts
    <2> QED  BY <1>2, <2>1, <2>2 DEF EnqueueSteps, QuietSteps
  <1>3. ASSUME NEW w \in Workers, WorkerSteps(w) \/ SpuriousWakeup(w) PROVE Goal
    <2>1. CASE QuietWorkerSteps(w)
      BY <1>1, <2>1, QuietWorker
    <2>2. CASE ClaimWork(w) \/ Spawn(w) \/ SwapPrep(w) \/ SwapRead(w)
      <3>1. qi' = qi
        BY <2>2 DEF ClaimWork, Spawn, SwapPrep, SwapRead, itemVars
      <3>2. SameHands
        BY <3>1 DEF SameHands
      <3> QED  BY <2>2, <3>2, OwnStays DEF OwnSteps, Leaves
    <2>3. CASE SwapEmpty(w) \/ SwapDone(w)
      <3>1. qi[w] = Token /\ qi' = [qi EXCEPT ![w] = NoItem]
        BY <2>3 DEF SwapEmpty, SwapDone, Processed, HandInv
      <3>2. SameHands
        BY <1>0, <3>1 DEF SameHands
      <3> QED  BY <2>3, <3>2, OwnStays DEF OwnSteps, Leaves
    <2>4. CASE RunSucceeds(w) \/ RunFails(w)
      <3>1. qi[w] \in Items /\ qi' = [qi EXCEPT ![w] = NoItem]
        BY <2>4 DEF RunSucceeds, RunFails, Processed, HandInv
      <3>2. Ends(w)
        BY <2>4, <3>1, OwnStays DEF OwnSteps, Ends
      <3>3. OnlyWork
        BY <2>4, WorkOnly
      <3> QED  BY <3>2, <3>3
    <2>5. CASE SwapPrepFails(w)
      <3>1. qi[w] = Token /\ qi' = [qi EXCEPT ![w] = NoItem] /\ Failed'
        BY <2>5 DEF SwapPrepFails, Processed, HandInv, Failed
      <3>2. SameHands
        BY <1>0, <3>1 DEF SameHands
      <3> QED  BY <2>5, <3>1, <3>2, PrepFailsStays DEF Leaves
    <2>6. CASE PopWork(w)
      <3>1. CASE qi[w] = NoItem /\ qi' = [qi EXCEPT ![w] = Token] /\ NothingNew /\ KeptSame
        <4>1. SameHands
          BY <1>0, <3>1 DEF SameHands
        <4>2. Stays
          BY <1>0, <3>1, CopiesType DEF KeptSame, Stays
        <4> QED  BY <3>1, <4>1, <4>2 DEF Leaves
      <3>2. OnlyWork
        BY <2>6, WorkOnly
      <3> QED  BY <2>6, <3>1, <3>2, PopBegins
    <2>7. CASE StealWaiting(w) \/ StealClaimed(w)
      <3>1. qi' = qi
        BY <2>7 DEF StealWaiting, StealClaimed, itemVars
      <3>2. SameHands
        BY <3>1 DEF SameHands
      <3>3. OnlyWork
        BY <2>7, WorkOnly
      <3> QED  BY <2>7, <3>2, <3>3, StealMoves DEF Shifts
    <2> QED  BY <1>3, <2>1, <2>2, <2>3, <2>4, <2>5, <2>6, <2>7 DEF WorkerSteps, QuietWorkerSteps
  <1>4. ASSUME UserSteps PROVE Goal
    <2>1. CASE QuietMainSteps
      BY <1>1, <2>1, QuietMain
    <2>2. ASSUME NEW j \in Items,
                 UserEnqueue(j) \/ UserEnqueueHere(j, "WAIT") \/ UserEnqueueHere(j, "SWAP")
          PROVE  Goal
      <3>1. OnlyWork
        BY <2>2, WorkOnly
      <3> QED  BY <2>2, <3>1, UserComes
    <2>3. ASSUME NEW s \in Settings, Set(s[1], s[2]) PROVE Goal
      <3>1. Clears /\ pc[Main] = "user" /\ starts = 0
        BY <1>0, <2>3, SetClears DEF Set, UseInv
      <3>2. SameHands
        BY <3>1 DEF Clears, SameHands
      <3> QED  BY <1>0, <3>1, <3>2, ClearsStays DEF Leaves
    <2>4. CASE Destroy
      <3>1. Clears
        BY <1>0, <2>4, DestroyClears
      <3>2. SameHands
        BY <3>1 DEF Clears, SameHands
      <3> QED  BY <1>0, <2>4, <3>1, <3>2, ClearsStays DEF Leaves
    <2>5. \A j \in Items, q \in {"WAIT", "SWAP"} : UserEnqueueHere(j, q) =>
              UserEnqueueHere(j, "WAIT") \/ UserEnqueueHere(j, "SWAP")
      OBVIOUS
    <2> HIDE DEF Goal
    <2> QED  BY <1>4, <2>1, <2>2, <2>3, <2>4, <2>5, Zenon DEF UserSteps, QuietMainSteps
  <1>5. ASSUME WaitSteps \/ SpuriousMainWakeup PROVE Goal
    BY <1>1, <1>5, QuietMain DEF QuietMainSteps
  <1>6. ASSUME UNCHANGED vars PROVE Goal
    <2>1. Quiet
      BY <1>6 DEF vars, queueVars, swapVars, itemVars, enqVars, histVars, Quiet, Handing
    <2> QED  BY <1>1, <2>1
  <1> HIDE DEF Goal
  <1>7. Goal
    BY <1>2, <1>3, <1>4, <1>5, <1>6 DEF Next, Terminated
  <1> QED  BY <1>7 DEF Goal

-----------------------------------------------------------------------------
(* The invariant.                                                          *)

\* The use of the pool stays as it is.
LEMMA UseStep ==
    ASSUME IInv, UseInv, [Next]_vars
    PROVE  UseInv'
  <1> USE DEF Goto, EnqueuePC, poolVars, mainVars, UseInv
  <1>0. TypeOK /\ pc \in [Procs -> WorkerPC \cup EnqueuePC \cup MainPC]
    BY DEF IInv, TypeOK, ThreadTypes
  <1>t. \A p \in Procs : p = Main \/ p \in Workers
    BY DEF Procs
  <1>1. ASSUME NEW p \in Procs, EnqueueSteps(p) PROVE UseInv'
    BY <1>0, <1>1, <1>t, Distinct DEF EnqueueSteps, Enqueue, LockTarget, LockHere, WakeTarget,
       PlaceInMemory, PlaceInSwap, PlaceFails, Return, MoreTokens, Woken
  <1>2. ASSUME NEW w \in Workers, WorkerSteps(w) \/ SpuriousWakeup(w) PROVE UseInv'
    <2>1. CASE \/ LockThread(w) \/ LockPool(w) \/ StealNothing(w) \/ StealWaiting(w)
               \/ StealClaimed(w) \/ Sleep(w) \/ Reacquire(w) \/ Relock(w) \/ Leave(w)
      BY <1>0, <2>1, Distinct DEF LockThread, LockPool, StealNothing, StealWaiting,
         StealClaimed, Sleep, Reacquire, Relock, Leave
    <2>2. CASE \/ Proceed(w) \/ ClaimWork(w) \/ PopWork(w) \/ PopNothing(w) \/ Spawn(w)
               \/ RunSucceeds(w) \/ RunFails(w) \/ SetErrored(w) \/ SpuriousWakeup(w)
      BY <1>0, <2>2, Distinct DEF Proceed, ClaimWork, PopWork, PopNothing, Spawn,
         RunSucceeds, RunFails, SetErrored, SpuriousWakeup
    <2>3. CASE \/ Account(w) \/ ExitBroadcast(w) \/ SwapEmpty(w) \/ SwapPrep(w)
               \/ SwapPrepFails(w) \/ SwapRead(w) \/ SwapDone(w)
      BY <1>0, <2>3, Distinct DEF Account, ExitBroadcast, SwapEmpty, SwapPrep,
         SwapPrepFails, SwapRead, SwapDone, MainWoken, Woken
    <2> QED  BY <1>2, <2>1, <2>2, <2>3 DEF WorkerSteps
  <1>3. ASSUME WaitSteps \/ SpuriousMainWakeup PROVE UseInv'
    BY <1>0, <1>3, Distinct DEF WaitSteps, WaitMem, SwapRound, WaitReturns, SetStopping,
       StopBroadcast, Join, SpuriousMainWakeup, Woken
  <1>4. ASSUME UserSteps PROVE UseInv'
    <2>1. ASSUME NEW k \in 0 .. NThreads, Start(k) PROVE UseInv'
      BY <1>0, <2>1, Distinct DEF Start
    <2>2. ASSUME NEW c \in {"wait_mem", "wait", "stop"}, NEW n \in LteCounts \cup {0},
                 UserWait(c, n)
          PROVE  UseInv'
      BY <1>0, <2>2, Distinct DEF UserWait
    <2>3. ASSUME NEW i \in Items, NEW q \in {"WAIT", "SWAP"},
                 UserEnqueue(i) \/ UserEnqueueHere(i, q)
          PROVE  UseInv'
      BY <1>0, <2>3, Distinct DEF UserEnqueue, UserEnqueueHere
    <2>4. ASSUME NEW s \in Settings, Set(s[1], s[2]) PROVE UseInv'
      BY <2>4 DEF Set
    <2>5. ASSUME Destroy PROVE UseInv'
      BY <1>0, <2>5, Distinct DEF Destroy
    <2>6. \A i \in Items : UserEnqueue(i) => UseInv'
      BY <2>3
    <2> QED  BY <1>4, <2>1, <2>2, <2>3, <2>4, <2>5, <2>6 DEF UserSteps
  <1>5. UNCHANGED vars => UseInv'
    BY DEF vars
  <1> QED  BY <1>1, <1>2, <1>3, <1>4, <1>5 DEF Next, Terminated

\* Every step keeps every item in one place.
LEMMA PlaceStep ==
    ASSUME IInv, IInv', HandInv, PlaceInv, [Next]_vars
    PROVE  PlaceInv'
  <1>0. TypeOK /\ TypeOK' /\ OnePlace /\ LifeInv /\ UseInv
    BY DEF IInv, PlaceInv
  <1>1. UseInv'
    BY <1>0, UseStep
  <1>2. OnePlace' /\ LifeInv'
    <2>1. CASE Leaves
      BY <1>0, <2>1, PlaceStays DEF Leaves
    <2>2. CASE Shifts
      <3>1. PICK a, b \in Workers : MovesExactly(a, b)
        BY <2>2 DEF Shifts
      <3> QED  BY <1>0, <2>2, <3>1, ExactlyIsMoves, PlaceMoves DEF Shifts
    <2>3. ASSUME NEW p \in Procs, NEW t \in Workers, NEW j \in Items,
                 Accepts(p, t, j), Coming(p, j) > 0
          PROVE  OnePlace' /\ LifeInv'
      BY <1>0, <2>3, PlaceAccepts
    <2>4. ASSUME NEW w \in Workers, NEW j \in Items, Begins(w, j)
          PROVE  OnePlace' /\ LifeInv'
      BY <1>0, <2>4, PlaceBegins
    <2>5. ASSUME NEW w \in Workers, Ends(w)
          PROVE  OnePlace' /\ LifeInv'
      <3>1. Stays
        BY <1>0, <2>5, CopiesType DEF Ends, KeptSame, Stays
      <3> QED  BY <1>0, <2>5, <3>1, PlaceStays DEF Ends
    <2>6. ASSUME NEW j \in Items, Comes(j)
          PROVE  OnePlace' /\ LifeInv'
      BY <1>0, <2>6, PlaceComes
    <2> QED  BY <1>0, <2>1, <2>2, <2>3, <2>4, <2>5, <2>6, Effects
  <1> QED  BY <1>1, <1>2 DEF PlaceInv

\* At first no item is anywhere.
LEMMA InitPlace == Init => PlaceInv
  <1> SUFFICES ASSUME Init PROVE PlaceInv
    OBVIOUS
  <1>1. /\ \A w \in Workers : /\ waiting[w] = <<>> /\ claimed[w] = <<>> /\ swap_write[w] = <<>>
                              /\ swap_read[w] = <<>> /\ todo[w] = <<>> /\ qi[w] = NoItem
        /\ \A p \in Procs : ~Handing(p)
        /\ accepted = {} /\ \A i \in Items : runs[i] = 0
        /\ \A w \in Workers : pc[w] = "idle"
        /\ starts = 0
    BY Distinct DEF Init, Handing
  <1>2. NoItem \notin Items /\ NoItem # Token
    BY ItemsAssumption
  <1>3. ASSUME NEW i \in Items
        PROVE  /\ \A w \in Workers : Kept(w, i) = 0
               /\ \A p \in Procs : Coming(p, i) = 0
    <2>1. TimesIn(<<>>, i) = 0
      BY TimesEmpty
    <2>2. \A p \in Procs : Carried(p, i) = 0
      BY <1>1 DEF Carried
    <2> QED  BY <1>1, <1>2, <2>1, <2>2, Distinct DEF Kept, Stored, Coming, Procs
  <1>4. OnePlace
    BY <1>3, Distinct DEF OnePlace, Copies, Procs
  <1>5. LifeInv
    BY <1>1, <1>2, <1>3, Distinct DEF LifeInv
  <1>6. UseInv
    BY <1>1 DEF UseInv
  <1> QED  BY <1>4, <1>5, <1>6 DEF PlaceInv

\* An item that has been accepted is in exactly one queue, swap file or pair
\* of hands until a thread takes it, and nowhere afterwards, however much it
\* is stolen, swapped and read back.
THEOREM PlaceInvariant == Spec => []PlaceInv
  <1>1. IInv /\ IInv' /\ CountInv /\ PlaceInv /\ [Next]_vars => PlaceInv'
    BY PlaceStep DEF CountInv
  <1> QED  BY Invariant, CountInvariant, InitPlace, <1>1, PTL DEF Spec

-----------------------------------------------------------------------------
(* The statistics.                                                          *)

\* No thread has a Token, or is about to get one.
Tokenless ==
    /\ waiting \in [Workers -> Seq(Items)]
    /\ claimed \in [Workers -> Seq(Items)]
    /\ \A w \in Workers : qi[w] # Token
    /\ \A p \in Procs : new_work[p] # Token

\* There are Tokens only in a pool with a limit, and only after it was started.
TokenInv ==
    /\ props.queue_limit = 0 => Tokenless /\ swapped = 0
    /\ state = "INITIALIZED" => Tokenless

\* A pool that was not started has run and counted nothing.
FreshInv ==
    state = "INITIALIZED" =>
        /\ \A w \in Workers : threads_started[w] = 0 /\ work_count[w] = 0 /\ qi[w] = NoItem
        /\ \A i \in Items : runs[i] = 0

\* A user function is called at most once for an item.
OnceInv == \A i \in Items : runs[i] <= 1

StatInv == TokenInv /\ FreshInv /\ OnceInv

-----------------------------------------------------------------------------
(* Where a Token can be.                                                    *)

\* The items of a queue that has no Token are those of its parts.
LEMMA StealItems ==
    ASSUME TypeOK, props.num > 0, NEW q \in Seq(Items), q # <<>>
    PROVE  First(q) \in Seq(Items) /\ Rest(q) \in Seq(Items)
  <1>1. Len(q) \in Nat \ {0}
    BY EmptySeq, LenProperties
  <1>2. Take(Len(q)) \in 1 .. Len(q)
    BY <1>1, TakeType
  <1> DEFINE k == Take(Len(q))
  <1>3. SubSeq(q, 1, k) \in Seq(Items)
    BY <1>1, <1>2, SubSeqProperties
  <1>4. SubSeq(q, k + 1, Len(q)) \in Seq(Items)
    BY <1>1, <1>2, SubSeqProperties
  <1> QED  BY <1>3, <1>4 DEF First, Rest

\* A thread that has no Token reads no swap file.
LEMMA NoTokenNoSwap ==
    ASSUME HandInv, Tokenless, NEW w \in Workers
    PROVE  ~SwapEmpty(w) /\ ~SwapPrep(w) /\ ~SwapPrepFails(w) /\ ~SwapRead(w) /\ ~SwapDone(w)
  BY DEF HandInv, Tokenless, SwapEmpty, SwapPrep, SwapPrepFails, SwapRead, SwapDone

\* Only the rounds of QPTPool_wait bring a Token.
LEMMA TokenlessStep ==
    ASSUME IInv, IInv', HandInv, Tokenless, [Next]_vars, ~SwapRound
    PROVE  Tokenless'
  <1> USE DEF Tokenless, Goto, queueVars, itemVars, enqVars
  <1>0. /\ TypeOK /\ Token # NoItem /\ Token \notin Items
        /\ qi \in [Workers -> Work \cup {NoItem}]
        /\ new_work \in [Procs -> Work \cup {NoItem}]
        /\ todo \in [Workers -> Seq(Items)]
        /\ waiting \in [Workers -> Seq(Items)]
        /\ claimed \in [Workers -> Seq(Items)]
        /\ target \in [Procs -> Workers]
    BY ItemsAssumption DEF IInv, TypeOK, ItemTypes, EnqTypes
  <1>1. ASSUME NEW p \in Procs, EnqueueSteps(p) PROVE Tokenless'
    <2>1. CASE PlaceInMemory(p)
      <3>1. new_work[p] \in Items
        BY <2>1 DEF PlaceInMemory, IInv, EnqueueInv, Work
      <3>2. waiting' = [waiting EXCEPT ![target[p]] = Append(@, new_work[p])]
        BY <2>1 DEF PlaceInMemory
      <3>3. Append(waiting[target[p]], new_work[p]) \in Seq(Items)
        BY <1>0, <3>1, AppendProperties
      <3>4. waiting' \in [Workers -> Seq(Items)]
        BY <1>0, <3>2, <3>3
      <3> QED  BY <2>1, <3>4 DEF PlaceInMemory
    <2>2. CASE Enqueue(p) \/ LockHere(p) \/ WakeTarget(p)
      BY <1>0, <2>2 DEF Enqueue, LockHere, WakeTarget, Return
    <2>3. CASE LockTarget(p) \/ PlaceInSwap(p) \/ PlaceFails(p)
      BY <2>3 DEF LockTarget, PlaceInSwap, PlaceFails
    <2> QED  BY <1>1, <2>1, <2>2, <2>3 DEF EnqueueSteps
  <1>2. ASSUME NEW w \in Workers, WorkerSteps(w) \/ SpuriousWakeup(w) PROVE Tokenless'
    <2>1. CASE \/ LockThread(w) \/ LockPool(w) \/ StealNothing(w) \/ Sleep(w) \/ Reacquire(w)
               \/ Relock(w) \/ Leave(w) \/ Proceed(w) \/ PopNothing(w) \/ SetErrored(w)
               \/ ExitBroadcast(w) \/ SpuriousWakeup(w) \/ Account(w)
      BY <2>1 DEF LockThread, LockPool, StealNothing, Sleep, Reacquire, Relock, Leave,
         Proceed, PopNothing, SetErrored, ExitBroadcast, SpuriousWakeup, Account
    <2>2. CASE StealWaiting(w)
      <3> DEFINE v == Neighbor(w)
      <3>1. v \in Workers /\ v # w /\ waiting[v] # <<>> /\ props.num > 0
        BY <1>0, <2>2, NeighborType DEF StealWaiting, IInv, StealInv
      <3>2. waiting' = [waiting EXCEPT ![w] = @ \o First(waiting[v]), ![v] = Rest(@)]
        BY <2>2 DEF StealWaiting
      <3> HIDE DEF v
      <3>3. First(waiting[v]) \in Seq(Items) /\ Rest(waiting[v]) \in Seq(Items)
        BY <1>0, <3>1, StealItems
      <3>4. waiting[w] \o First(waiting[v]) \in Seq(Items)
        BY <1>0, <3>3, ConcatProperties
      <3>5. waiting' \in [Workers -> Seq(Items)]
        BY <1>0, <3>1, <3>2, <3>3, <3>4
      <3> QED  BY <2>2, <3>5 DEF StealWaiting
    <2>3. CASE StealClaimed(w)
      <3> DEFINE v == Neighbor(w)
      <3>1. v \in Workers /\ v # w /\ claimed[v] # <<>> /\ props.num > 0
        BY <1>0, <2>3, NeighborType DEF StealClaimed, IInv, StealInv
      <3>2. /\ waiting' = [waiting EXCEPT ![w] = @ \o First(claimed[v])]
            /\ claimed' = [claimed EXCEPT ![v] = Rest(@)]
        BY <2>3 DEF StealClaimed
      <3> HIDE DEF v
      <3>3. First(claimed[v]) \in Seq(Items) /\ Rest(claimed[v]) \in Seq(Items)
        BY <1>0, <3>1, StealItems
      <3>4. waiting[w] \o First(claimed[v]) \in Seq(Items)
        BY <1>0, <3>3, ConcatProperties
      <3>5. waiting' \in [Workers -> Seq(Items)] /\ claimed' \in [Workers -> Seq(Items)]
        BY <1>0, <3>1, <3>2, <3>3, <3>4
      <3> QED  BY <2>3, <3>5 DEF StealClaimed
    <2>4. CASE ClaimWork(w)
      <3>1. claimed[w] \o waiting[w] \in Seq(Items) /\ <<>> \in Seq(Items)
        BY <1>0, ConcatProperties, EmptySeq
      <3>2. waiting' \in [Workers -> Seq(Items)] /\ claimed' \in [Workers -> Seq(Items)]
        BY <1>0, <2>4, <3>1 DEF ClaimWork
      <3> QED  BY <2>4, <3>2 DEF ClaimWork
    <2>5. CASE PopWork(w)
      <3>1. claimed[w] # <<>> /\ claimed[w] \in Seq(Items)
        BY <1>0, <2>5 DEF PopWork
      <3>2. Head(claimed[w]) \in Items /\ Tail(claimed[w]) \in Seq(Items)
        BY <3>1, HeadTailProperties
      <3>3. claimed' \in [Workers -> Seq(Items)]
        BY <1>0, <2>5, <3>2 DEF PopWork
      <3>4. \A v \in Workers : qi'[v] # Token
        BY <1>0, <2>5, <3>2 DEF PopWork
      <3> QED  BY <2>5, <3>3, <3>4 DEF PopWork
    <2>6. CASE Spawn(w)
      <3>1. todo[w] # <<>> /\ todo[w] \in Seq(Items)
        BY <1>0, <2>6 DEF Spawn
      <3>2. Head(todo[w]) \in Items
        BY <3>1, HeadTailProperties
      <3> QED  BY <1>0, <2>6, <3>2, Distinct DEF Spawn
    <2>7. CASE RunSucceeds(w) \/ RunFails(w)
      BY <1>0, <2>7 DEF RunSucceeds, RunFails, Processed
    <2> QED  BY <1>2, <2>1, <2>2, <2>3, <2>4, <2>5, <2>6, <2>7, NoTokenNoSwap DEF WorkerSteps
  <1>3. ASSUME WaitSteps \/ SpuriousMainWakeup PROVE Tokenless'
    BY <1>3 DEF WaitSteps, WaitMem, WaitReturns, SetStopping, StopBroadcast, Join,
       SpuriousMainWakeup
  <1>4. ASSUME UserSteps PROVE Tokenless'
    <2>1. CASE \E i \in Items : UserEnqueue(i) \/ \E q \in {"WAIT", "SWAP"} : UserEnqueueHere(i, q)
      BY <1>0, <2>1, Distinct DEF UserEnqueue, UserEnqueueHere
    <2>2. CASE Destroy
      <3>1. <<>> \in Seq(Items)
        BY EmptySeq
      <3>2. waiting' \in [Workers -> Seq(Items)] /\ claimed' \in [Workers -> Seq(Items)]
        BY <2>2, <3>1 DEF Destroy
      <3> QED  BY <2>2, <3>2 DEF Destroy
    <2>3. ASSUME NEW s \in Settings, Set(s[1], s[2]) PROVE Tokenless'
      BY <2>3 DEF Set
    <2>4. ASSUME NEW k \in 0 .. NThreads, Start(k) PROVE Tokenless'
      BY <2>4 DEF Start
    <2>5. ASSUME NEW c, NEW n, UserWait(c, n) PROVE Tokenless'
      BY <2>5 DEF UserWait
    <2> QED  BY <1>4, <2>1, <2>2, <2>3, <2>4, <2>5 DEF UserSteps
  <1>5. UNCHANGED vars => Tokenless'
    BY DEF vars
  <1> QED  BY <1>1, <1>2, <1>3, <1>4, <1>5 DEF Next, Terminated

\* The settings change only in a pool that was not started, which is so from
\* the beginning.
LEMMA SettingsStay ==
    ASSUME [Next]_vars
    PROVE  /\ \/ props' = props
              \/ /\ state = "INITIALIZED" /\ state' = state
                 /\ \E s \in Settings : Set(s[1], s[2])
           /\ state' = "INITIALIZED" => state = "INITIALIZED"
  <1> USE DEF poolVars
  <1>1. ASSUME NEW p \in Procs, EnqueueSteps(p) PROVE props' = props /\ state' = state
    BY <1>1 DEF EnqueueSteps, Enqueue, LockTarget, LockHere, WakeTarget,
       PlaceInMemory, PlaceInSwap, PlaceFails
  <1>2. ASSUME NEW w \in Workers, WorkerSteps(w) \/ SpuriousWakeup(w)
        PROVE  props' = props /\ state' = state
    BY <1>2 DEF WorkerSteps, LockThread, LockPool, StealNothing, StealWaiting,
       StealClaimed, Sleep, Reacquire, Relock, Leave, Proceed, ClaimWork, PopWork, PopNothing,
       Spawn, RunSucceeds, RunFails, SetErrored, SpuriousWakeup, Account, ExitBroadcast,
       SwapEmpty, SwapPrep, SwapPrepFails, SwapRead, SwapDone
  <1>3. ASSUME WaitSteps \/ SpuriousMainWakeup PROVE props' = props /\ state' \in {state, "STOPPING"}
    BY <1>3 DEF WaitSteps, WaitMem, SwapRound, WaitReturns, SetStopping, StopBroadcast, Join,
       SpuriousMainWakeup
  <1>4. ASSUME UserSteps, ~\E s \in Settings : Set(s[1], s[2])
        PROVE  props' = props /\ state' \in {state, "RUNNING"}
    BY <1>4 DEF UserSteps, UserEnqueue, UserEnqueueHere, Start, UserWait, Destroy
  <1>5. ASSUME NEW s \in Settings, Set(s[1], s[2]) PROVE state = "INITIALIZED" /\ state' = state
    BY <1>5 DEF Set
  <1>6. UNCHANGED vars => props' = props /\ state' = state
    BY DEF vars
  <1> QED  BY <1>1, <1>2, <1>3, <1>4, <1>5, <1>6 DEF Next, Terminated

\* A pool without a limit writes to no swap file, and reads from none.
LEMMA SwappedStays ==
    ASSUME HandInv, LimitInv, TypeOK, Tokenless, props.queue_limit = 0, [Next]_vars
    PROVE  swapped' = swapped \/ swapped' = 0
  <1> USE DEF poolVars
  <1>1. ASSUME NEW p \in Procs, EnqueueSteps(p) PROVE swapped' = swapped
    <2>1. ~PlaceInSwap(p)
      BY DEF PlaceInSwap, LimitInv, TypeOK, EnqTypes
    <2> QED  BY <1>1, <2>1 DEF EnqueueSteps, Enqueue, LockTarget, LockHere, WakeTarget,
                PlaceInMemory, PlaceFails
  <1>2. ASSUME NEW w \in Workers, WorkerSteps(w) \/ SpuriousWakeup(w) PROVE swapped' = swapped
    BY <1>2, NoTokenNoSwap DEF WorkerSteps, LockThread, LockPool, StealNothing, StealWaiting,
       StealClaimed, Sleep, Reacquire, Relock, Leave, Proceed, ClaimWork, PopWork, PopNothing,
       Spawn, RunSucceeds, RunFails, SetErrored, SpuriousWakeup, Account, ExitBroadcast
  <1>3. ASSUME WaitSteps \/ SpuriousMainWakeup PROVE swapped' = swapped
    BY <1>3 DEF WaitSteps, WaitMem, SwapRound, WaitReturns, SetStopping, StopBroadcast, Join,
       SpuriousMainWakeup
  <1>4. ASSUME UserSteps PROVE swapped' = swapped \/ swapped' = 0
    BY <1>4 DEF UserSteps, UserEnqueue, UserEnqueueHere, Start, UserWait, Destroy, Set
  <1>5. UNCHANGED vars => swapped' = swapped
    BY DEF vars
  <1> QED  BY <1>1, <1>2, <1>3, <1>4, <1>5 DEF Next, Terminated

\* Every step keeps the Tokens out of a pool without a limit.
LEMMA TokenStep ==
    ASSUME IInv, IInv', CountInv, CallInv, TokenInv, [Next]_vars
    PROVE  TokenInv'
  <1> USE DEF CountInv
  <1>0. TypeOK /\ EnqueuePC \subseteq {"enqueue", "here", "target", "place", "wake"}
    BY DEF IInv, EnqueuePC
  <1>1. state = "INITIALIZED" => ~SwapRound
    BY <1>0 DEF SwapRound, CallInv
  <1>2. state' = "INITIALIZED" => Tokenless'
    BY <1>1, SettingsStay, TokenlessStep DEF TokenInv
  <1>3. ASSUME props' = props, props.queue_limit = 0 PROVE Tokenless' /\ swapped' = 0
    <2>1. Tokenless /\ swapped = 0
      BY <1>3 DEF TokenInv
    <2>2. ~SwapRound
      BY <2>1 DEF SwapRound
    <2> QED  BY <1>0, <1>3, <2>1, <2>2, TokenlessStep, SwappedStays
  <1>4. ASSUME NEW s \in Settings, Set(s[1], s[2]), state = "INITIALIZED", state' = state,
               props'.queue_limit = 0
        PROVE  Tokenless' /\ swapped' = 0
    <2>1. Tokenless'
      BY <1>2, <1>4
    <2>2. s[1] \in Settable
      BY PropsAssumption
    <2>3. CASE s[1] = "queue_limit"
      BY <1>4, <2>1, <2>3 DEF Set, DropsSwap
    <2>4. CASE s[1] # "queue_limit"
      <3>1. props \in PropType
        BY <1>0 DEF TypeOK, PoolTypes
      <3>2. props'.queue_limit = props.queue_limit
        BY <1>4, <2>2, <2>4, <3>1 DEF Set, Settable, PropType
      <3>3. swapped = 0
        BY <1>4, <3>2 DEF TokenInv
      <3> QED  BY <1>4, <2>1, <3>3 DEF Set
    <2> QED  BY <2>3, <2>4
  <1> QED  BY <1>2, <1>3, <1>4, SettingsStay DEF TokenInv

-----------------------------------------------------------------------------
(* What is counted, and how often.                                          *)

\* The step counts no call of a user function.
Uncounted == UNCHANGED <<threads_started, work_count, qi, runs>>

\* Only these steps count, in a pool that has no Token.
LEMMA StatKinds ==
    ASSUME HandInv, [Next]_vars
    PROVE  \/ Uncounted \/ Destroy
           \/ \E w \in Workers :
                 \/ PopWork(w) \/ RunSucceeds(w) \/ RunFails(w) \/ Account(w)
                 \/ qi[w] = Token
  <1> USE DEF Uncounted, itemVars, statVars, histVars
  <1>1. ASSUME NEW p \in Procs, EnqueueSteps(p) PROVE Uncounted
    BY <1>1 DEF EnqueueSteps, Enqueue, LockTarget, LockHere, WakeTarget,
       PlaceInMemory, PlaceInSwap, PlaceFails
  <1>2. ASSUME NEW w \in Workers, WorkerSteps(w) \/ SpuriousWakeup(w)
        PROVE  \/ Uncounted \/ qi[w] = Token
               \/ PopWork(w) \/ RunSucceeds(w) \/ RunFails(w) \/ Account(w)
    BY <1>2 DEF WorkerSteps, LockThread, LockPool, StealNothing, StealWaiting,
       StealClaimed, Sleep, Reacquire, Relock, Leave, Proceed, ClaimWork, PopNothing,
       Spawn, SetErrored, SpuriousWakeup, ExitBroadcast,
       SwapEmpty, SwapPrep, SwapPrepFails, SwapRead, SwapDone, HandInv
  <1>3. ASSUME WaitSteps \/ SpuriousMainWakeup PROVE Uncounted
    BY <1>3 DEF WaitSteps, WaitMem, SwapRound, WaitReturns, SetStopping, StopBroadcast, Join,
       SpuriousMainWakeup
  <1>4. ASSUME UserSteps PROVE Uncounted \/ Destroy
    BY <1>4 DEF UserSteps, UserEnqueue, UserEnqueueHere, Start, UserWait, Set
  <1>5. UNCHANGED vars => Uncounted
    BY DEF vars
  <1> QED  BY <1>1, <1>2, <1>3, <1>4, <1>5 DEF Next, Terminated

\* Nothing runs before the first start.
LEMMA FreshStep ==
    ASSUME IInv, HandInv, TokenInv, FreshInv, CallInv, [Next]_vars
    PROVE  FreshInv'
  <1> SUFFICES ASSUME state' = "INITIALIZED" PROVE FreshInv'
    BY DEF FreshInv
  <1>1. state = "INITIALIZED"
    BY SettingsStay
  <1>2. pc[Main] \notin {"stop_wake", "join"}
    BY <1>1 DEF IInv, StartedInv
  <1>3. \A w \in Workers : pc[w] \in {"idle", "gone"}
    BY <1>1, <1>2 DEF IInv, StartedInv
  <1>4. \A w \in Workers : ~PopWork(w) /\ ~RunSucceeds(w) /\ ~RunFails(w) /\ ~Account(w)
    BY <1>3 DEF PopWork, RunSucceeds, RunFails, Account
  <1>5. \A w \in Workers : qi[w] # Token
    BY <1>1 DEF TokenInv, Tokenless
  <1>6. CASE Uncounted
    BY <1>1, <1>6 DEF Uncounted, FreshInv
  <1>7. CASE Destroy
    BY <1>1, <1>7 DEF Destroy, FreshInv, itemVars, histVars
  <1> QED  BY <1>4, <1>5, <1>6, <1>7, StatKinds

\* An item that a thread takes has not been run.
LEMMA OnceStep ==
    ASSUME IInv, IInv', HandInv, PlaceInv, OnceInv, [Next]_vars
    PROVE  OnceInv'
  <1>0. LifeInv /\ UseInv /\ runs \in [Items -> Nat]
    BY DEF PlaceInv, IInv, TypeOK, HistTypes
  <1>1. CASE runs' = runs
    BY <1>1 DEF OnceInv
  <1>2. ASSUME NEW w \in Workers, NEW j \in Items, Begins(w, j) PROVE OnceInv'
    <2>1. runs[j] = 0
      BY <1>0, <1>2 DEF Begins, LifeInv
    <2> QED  BY <1>0, <1>2, <2>1 DEF Begins, OnceInv
  <1> QED  BY <1>0, <1>1, <1>2, Effects DEF Leaves, Shifts, Ends, Comes, Accepts, NothingNew

\* A thread's share of the calls that are counted, before and after a step.
Counted(w) == threads_started[w] + Batch(w)

\* It is a number.
LEMMA CountedType ==
    ASSUME TypeOK
    PROVE  [w \in Workers |-> Counted(w)] \in [Workers -> Nat]
  <1>1. \A w \in Workers : threads_started[w] \in Nat
    BY BoundsAssumption DEF TypeOK, StatTypes
  <1>2. \A w \in Workers : Batch(w) \in Nat
    BY CountsType
  <1>3. \A w \in Workers : Counted(w) \in Nat
    BY <1>1, <1>2 DEF Counted
  <1> QED  BY <1>3

\* The same of the state a step leads to.
LEMMA CountedTypeNext ==
    ASSUME TypeOK'
    PROVE  [w \in Workers |-> Counted(w)'] \in [Workers -> Nat]
  <1>1. \A w \in Workers : threads_started'[w] \in Nat
    BY BoundsAssumption DEF TypeOK, StatTypes
  <1>2. \A w \in Workers : Batch(w)' \in Nat
    BY CountsTypeNext
  <1>3. \A w \in Workers : Counted(w)' \in Nat
    BY <1>1, <1>2 DEF Counted
  <1> QED  BY <1>3

\* The statistics do not reach their bound.
LEMMA StatisticsFit ==
    ASSUME IsFiniteSet(Items), Cardinality(Items) <= CountBound,
           TypeOK, OnceInv, pc[Main] # "destroyed", props.queue_limit = 0, StatisticsExact,
           NEW w \in Workers
    PROVE  threads_started[w] + work_count[w] <= CountBound
  <1> DEFINE f == [v \in Workers |-> Counted(v)]
  <1>1. f \in [Workers -> Nat]
    BY CountedType
  <1>2. runs \in [Items -> 0 .. 1]
    BY DEF TypeOK, HistTypes, OnceInv
  <1>3. SumFunction(runs) <= Cardinality(Items)
    BY <1>2, SumAtMost, Zenon
  <1>4. SumFunction(f) = SumFunction(runs)
    BY Zenon DEF StatisticsExact, Counted
  <1>5. f[w] = threads_started[w] + Batch(w)
    BY DEF Counted
  <1> HIDE DEF f
  <1>6. SumFunction(f) >= f[w]
    BY <1>1, SumBound, WorkersFinite
  <1>7. SumFunction(f) \in Int
    <2>1. f \in [Workers -> Int]
      BY <1>1
    <2> QED  BY <2>1, SumType, WorkersFinite, Zenon
  <1>8. /\ threads_started[w] \in Nat /\ work_count[w] \in Nat
        /\ Batch(w) >= work_count[w] /\ Batch(w) \in Nat
    BY BoundsAssumption DEF TypeOK, StatTypes, ItemTypes, Batch
  <1>9. Cardinality(Items) \in Nat /\ CountBound \in Nat
    BY FS_CardinalityType, BoundsAssumption
  <1> QED  BY <1>3, <1>4, <1>5, <1>6, <1>7, <1>8, <1>9

\* Every step keeps the statistics exact.
LEMMA StatisticsStep ==
    ASSUME IsFiniteSet(Items), Cardinality(Items) <= CountBound,
           IInv, IInv', HandInv, StatInv, StatInv', StatisticsExact, [Next]_vars
    PROVE  StatisticsExact'
  <1> SUFFICES ASSUME pc'[Main] # "destroyed", props'.queue_limit = 0
               PROVE  StatisticsExact'
    BY DEF StatisticsExact
  <1> DEFINE f == [v \in Workers |-> Counted(v)]
             g == [v \in Workers |-> Counted(v)']
  <1>0. /\ TypeOK /\ TypeOK' /\ pc[Main] # "destroyed" /\ ~Destroy
        /\ f \in [Workers -> Nat] /\ g \in [Workers -> Nat]
    BY Destroyed, CountedType, CountedTypeNext DEF IInv
  <1>g. SumFunction(g) = SumFunction(runs') => StatisticsExact'
    BY Zenon DEF StatisticsExact, Counted
  <1>1. ASSUME NEW s \in Settings, Set(s[1], s[2]), state = "INITIALIZED", state' = state
        PROVE  StatisticsExact'
    <2>1. g \in [Workers -> {0}]
      BY <1>1 DEF StatInv, FreshInv, Counted, Batch
    <2>2. runs' \in [Items -> {0}]
      BY <1>0, <1>1 DEF StatInv, FreshInv, TypeOK, HistTypes
    <2> HIDE DEF g
    <2>3. SumFunction(g) = 0 /\ SumFunction(runs') = 0
      BY <2>1, <2>2, SumZero, WorkersFinite, Zenon
    <2> QED  BY <1>g, <2>3
  <1>2. ASSUME props' = props PROVE StatisticsExact'
    <2>1. props.queue_limit = 0 /\ SumFunction(f) = SumFunction(runs)
      BY <1>0, <1>2, Zenon DEF StatisticsExact, Counted
    <2>2. \A w \in Workers : qi[w] # Token
      BY <2>1 DEF StatInv, TokenInv, Tokenless
    <2>n. /\ \A w \in Workers : threads_started[w] \in Nat /\ work_count[w] \in Nat
          /\ threads_started \in [Workers -> 0 .. CountBound]
          /\ work_count \in [Workers -> Nat] /\ qi \in [Workers -> Work \cup {NoItem}]
          /\ runs \in [Items -> Nat] /\ CountBound \in Nat /\ NoItem \notin Items
      BY <1>0, BoundsAssumption, ItemsAssumption DEF TypeOK, StatTypes, ItemTypes, HistTypes
    <2>s. (\A v \in Workers : Counted(v)' = Counted(v)) /\ runs' = runs => StatisticsExact'
      <3>1. (\A v \in Workers : Counted(v)' = Counted(v)) => g = f
        OBVIOUS
      <3> HIDE DEF f, g
      <3> QED  BY <1>g, <2>1, <3>1
    <2>3. CASE Uncounted
      BY <2>3, <2>s DEF Uncounted, Counted, Batch
    <2>4. ASSUME NEW w \in Workers, RunSucceeds(w) \/ RunFails(w) PROVE StatisticsExact'
      <3>1. qi[w] # NoItem
        BY <2>4, <2>n DEF RunSucceeds, RunFails, HandInv
      <3>2. /\ qi' = [qi EXCEPT ![w] = NoItem] /\ work_count' = [work_count EXCEPT ![w] = @ + 1]
            /\ UNCHANGED <<threads_started, runs>>
        BY <2>4 DEF RunSucceeds, RunFails, Processed, histVars
      <3>3. \A v \in Workers : Counted(v)' = Counted(v)
        BY <2>n, <3>1, <3>2 DEF Counted, Batch
      <3> QED  BY <2>s, <3>2, <3>3
    <2>5. ASSUME NEW w \in Workers, Account(w) PROVE StatisticsExact'
      <3>1. threads_started[w] + work_count[w] <= CountBound
        BY <1>0, <2>1, StatisticsFit DEF StatInv
      <3>2. /\ threads_started' = [threads_started EXCEPT ![w] = Cap(@ + work_count[w])]
            /\ work_count' = [work_count EXCEPT ![w] = 0]
            /\ UNCHANGED <<qi, runs>>
        BY <2>5 DEF Account, histVars
      <3>3. Cap(threads_started[w] + work_count[w]) = threads_started[w] + work_count[w]
        BY <2>n, <3>1 DEF Cap
      <3>4. \A v \in Workers : Counted(v)' = Counted(v)
        BY <2>n, <3>2, <3>3 DEF Counted, Batch
      <3> QED  BY <2>s, <3>2, <3>4
    <2>6. ASSUME NEW w \in Workers, PopWork(w) PROVE StatisticsExact'
      <3> DEFINE i == Head(claimed[w])
      <3>1. i \in Items
        <4>1. claimed[w] # <<>> /\ claimed[w] \in Seq(Items)
          BY <2>1, <2>6 DEF PopWork, StatInv, TokenInv, Tokenless
        <4> QED  BY <4>1, HeadTailProperties
      <3>2. i # Token /\ qi[w] = NoItem
        BY <2>6, <3>1, ItemsAssumption DEF PopWork, HandInv, EnqueuePC
      <3>3. /\ qi' = [qi EXCEPT ![w] = i] /\ runs' = [runs EXCEPT ![i] = @ + 1]
            /\ UNCHANGED <<threads_started, work_count>>
        BY <2>6, <3>2 DEF PopWork, statVars
      <3> HIDE DEF i
      <3>4. \A v \in Workers : v # w => g[v] = f[v]
        BY <2>n, <3>3 DEF Counted, Batch
      <3>5. g[w] = f[w] + 1
        BY <2>n, <3>1, <3>2, <3>3 DEF Counted, Batch
      <3>6. /\ runs \in [Items -> Int] /\ runs' \in [Items -> Int]
            /\ runs'[i] = runs[i] + 1 /\ \A x \in Items \ {i} : runs'[x] = runs[x]
        BY <2>n, <3>1, <3>3
      <3> HIDE DEF f, g
      <3>7. SumFunction(g) = SumFunction(f) + g[w] - f[w]
        BY <1>0, <3>4, OneChanges
      <3>8. SumFunction(runs') = SumFunction(runs) + runs'[i] - runs[i]
        BY <3>1, <3>6, SumUpdate
      <3>9. f[w] \in Nat /\ runs[i] \in Nat /\ SumFunction(runs) \in Int
        BY <1>0, <2>n, <3>1, <3>6, SumType
      <3>10. SumFunction(g) = SumFunction(runs')
        BY <2>1, <3>5, <3>6, <3>7, <3>8, <3>9
      <3> QED  BY <1>g, <3>10
    <2> QED  BY <1>0, <2>2, <2>3, <2>4, <2>5, <2>6, StatKinds
  <1> QED  BY <1>1, <1>2, SettingsStay

\* At first nothing was run.
LEMMA InitStatistics ==
    ASSUME IsFiniteSet(Items)
    PROVE  Init => StatInv /\ CallInv /\ StatisticsExact
  <1> SUFFICES ASSUME Init PROVE StatInv /\ CallInv /\ StatisticsExact
    OBVIOUS
  <1>1. /\ waiting \in [Workers -> {<<>>}] /\ claimed \in [Workers -> {<<>>}]
        /\ \A w \in Workers : /\ qi[w] = NoItem /\ threads_started[w] = 0 /\ work_count[w] = 0
        /\ \A p \in Procs : new_work[p] = NoItem
        /\ runs \in [Items -> {0}] /\ swapped = 0
    BY DEF Init
  <1>2. Tokenless
    <2>1. <<>> \in Seq(Items)
      BY EmptySeq
    <2>2. waiting \in [Workers -> Seq(Items)] /\ claimed \in [Workers -> Seq(Items)]
      BY <1>1, <2>1
    <2> QED  BY <1>1, <2>2, ItemsAssumption DEF Tokenless
  <1>3. StatInv
    BY <1>1, <1>2 DEF StatInv, TokenInv, FreshInv, OnceInv
  <1>4. CallInv
    BY Distinct DEF Init, CallInv
  <1>5. StatisticsExact
    <2> DEFINE f == [w \in Workers |-> threads_started[w] + Batch(w)]
    <2>1. f \in [Workers -> {0}]
      BY <1>1 DEF Batch
    <2>2. SumFunction(f) = 0 /\ SumFunction(runs) = 0
      BY <1>1, <2>1, SumZero, WorkersFinite, Zenon
    <2> QED  BY <2>2 DEF StatisticsExact
  <1> QED  BY <1>3, <1>4, <1>5

\* The statistics that the tools print are exact, as long as the counters are
\* large enough for the work: each call of a user function is counted once,
\* whichever thread took the item in the end and whatever it had stolen.
THEOREM StatisticsAreExact ==
    ASSUME IsFiniteSet(Items), Cardinality(Items) <= CountBound
    PROVE  Spec => []StatisticsExact
  <1>1. /\ IInv /\ IInv' /\ CountInv /\ PlaceInv
        /\ StatInv /\ CallInv /\ StatisticsExact /\ [Next]_vars
        => StatInv' /\ CallInv' /\ StatisticsExact'
    <2> SUFFICES ASSUME IInv, IInv', CountInv, PlaceInv, StatInv, CallInv, StatisticsExact,
                        [Next]_vars
                 PROVE  StatInv' /\ CallInv' /\ StatisticsExact'
      OBVIOUS
    <2>1. CallInv'
      BY CallStep
    <2>2. StatInv'
      BY TokenStep, FreshStep, OnceStep DEF CountInv, StatInv
    <2>3. StatisticsExact'
      BY <2>2, StatisticsStep DEF CountInv
    <2> QED  BY <2>1, <2>2, <2>3
  <1> QED  BY Invariant, CountInvariant, PlaceInvariant, InitStatistics, <1>1, PTL DEF Spec

-----------------------------------------------------------------------------
(* What has become of an item, before a step and after it.                 *)

Running(i) == \E w \in Workers : qi[w] = i

\* An item is held, as the abstract pool understands it, when a copy of it is
\* kept.
LEMMA HeldIsKept ==
    ASSUME TypeOK, UseInv
    PROVE  \A i \in Items : Held(i) <=> \E w \in Workers : Kept(w, i) > 0
  <1> SUFFICES ASSUME NEW i \in Items
               PROVE  Held(i) <=> \E w \in Workers : Kept(w, i) > 0
    OBVIOUS
  <1>1. ASSUME NEW w \in Workers
        PROVE  Kept(w, i) > 0 <=>
                   \/ i \in Range(waiting[w]) \cup Range(claimed[w])
                   \/ i \in Range(swap_write[w]) \cup Range(swap_read[w])
                   \/ Rereading(w) /\ new_work[w] = i /\ pc[w] \in {"enqueue", "target", "place"}
    <2>1. /\ waiting[w] \in Seq(Work) /\ claimed[w] \in Seq(Work)
          /\ swap_write[w] \in Seq(Items) /\ swap_read[w] \in Seq(Items)
      BY DEF TypeOK, QueueTypes, SwapTypes
    <2>2. /\ TimesIn(waiting[w], i) \in Nat
          /\ TimesIn(waiting[w], i) = 0 <=> i \notin Range(waiting[w])
      BY <2>1, TimesType
    <2>3. /\ TimesIn(claimed[w], i) \in Nat
          /\ TimesIn(claimed[w], i) = 0 <=> i \notin Range(claimed[w])
      BY <2>1, TimesType
    <2>4. /\ TimesIn(swap_write[w], i) \in Nat
          /\ TimesIn(swap_write[w], i) = 0 <=> i \notin Range(swap_write[w])
      BY <2>1, TimesType
    <2>5. /\ TimesIn(swap_read[w], i) \in Nat
          /\ TimesIn(swap_read[w], i) = 0 <=> i \notin Range(swap_read[w])
      BY <2>1, TimesType
    <2>6. /\ Carried(w, i) \in {0, 1}
          /\ (qi[w] = Token /\ Carried(w, i) = 1) <=>
                 Rereading(w) /\ new_work[w] = i /\ pc[w] \in {"enqueue", "target", "place"}
      BY DEF Carried, Handing, Rereading, UseInv
    <2>7. \A a, b, c, e \in Nat :
              /\ a + (b + (c + e)) \in Nat
              /\ a + (b + (c + e)) > 0 <=> a # 0 \/ b # 0 \/ c # 0 \/ e # 0
      OBVIOUS
    <2>8. /\ Stored(w, i) \in Nat
          /\ Stored(w, i) > 0 <=> \/ TimesIn(waiting[w], i) # 0 \/ TimesIn(claimed[w], i) # 0
                                 \/ TimesIn(swap_write[w], i) # 0 \/ TimesIn(swap_read[w], i) # 0
      BY <2>2, <2>3, <2>4, <2>5, <2>7 DEF Stored
    <2>9. Kept(w, i) > 0 <=> Stored(w, i) > 0 \/ (qi[w] = Token /\ Carried(w, i) = 1)
      BY <2>6, <2>8 DEF Kept
    <2> QED  BY <2>2, <2>3, <2>4, <2>5, <2>6, <2>8, <2>9
  <1> QED  BY <1>1 DEF Held

\* The same of the state a step leads to.
LEMMA HeldIsKeptNext ==
    ASSUME TypeOK', UseInv'
    PROVE  \A i \in Items : Held(i)' <=> \E w \in Workers : Kept(w, i)' > 0
  <1> SUFFICES ASSUME NEW i \in Items
               PROVE  Held(i)' <=> \E w \in Workers : Kept(w, i)' > 0
    OBVIOUS
  <1>1. ASSUME NEW w \in Workers
        PROVE  Kept(w, i)' > 0 <=>
                   \/ i \in Range(waiting'[w]) \cup Range(claimed'[w])
                   \/ i \in Range(swap_write'[w]) \cup Range(swap_read'[w])
                   \/ Rereading(w)' /\ new_work'[w] = i /\ pc'[w] \in {"enqueue", "target", "place"}
    <2>1. /\ waiting'[w] \in Seq(Work) /\ claimed'[w] \in Seq(Work)
          /\ swap_write'[w] \in Seq(Items) /\ swap_read'[w] \in Seq(Items)
      BY DEF TypeOK, QueueTypes, SwapTypes
    <2>2. /\ TimesIn(waiting'[w], i) \in Nat
          /\ TimesIn(waiting'[w], i) = 0 <=> i \notin Range(waiting'[w])
      BY <2>1, TimesType
    <2>3. /\ TimesIn(claimed'[w], i) \in Nat
          /\ TimesIn(claimed'[w], i) = 0 <=> i \notin Range(claimed'[w])
      BY <2>1, TimesType
    <2>4. /\ TimesIn(swap_write'[w], i) \in Nat
          /\ TimesIn(swap_write'[w], i) = 0 <=> i \notin Range(swap_write'[w])
      BY <2>1, TimesType
    <2>5. /\ TimesIn(swap_read'[w], i) \in Nat
          /\ TimesIn(swap_read'[w], i) = 0 <=> i \notin Range(swap_read'[w])
      BY <2>1, TimesType
    <2>6. /\ Carried(w, i)' \in {0, 1}
          /\ (qi'[w] = Token /\ Carried(w, i)' = 1) <=>
                 Rereading(w)' /\ new_work'[w] = i /\ pc'[w] \in {"enqueue", "target", "place"}
      BY DEF Carried, Handing, Rereading, UseInv
    <2>7. \A a, b, c, e \in Nat :
              /\ a + (b + (c + e)) \in Nat
              /\ a + (b + (c + e)) > 0 <=> a # 0 \/ b # 0 \/ c # 0 \/ e # 0
      OBVIOUS
    <2>8. /\ Stored(w, i)' \in Nat
          /\ Stored(w, i)' > 0 <=> \/ TimesIn(waiting'[w], i) # 0 \/ TimesIn(claimed'[w], i) # 0
                                 \/ TimesIn(swap_write'[w], i) # 0 \/ TimesIn(swap_read'[w], i) # 0
      BY <2>2, <2>3, <2>4, <2>5, <2>7 DEF Stored
    <2>9. Kept(w, i)' > 0 <=> Stored(w, i)' > 0 \/ (qi'[w] = Token /\ Carried(w, i)' = 1)
      BY <2>6, <2>8 DEF Kept
    <2> QED  BY <2>2, <2>3, <2>4, <2>5, <2>6, <2>8, <2>9
  <1> QED  BY <1>1 DEF Held

\* Work that stays where it is, or moves, is still held, and the rest of what
\* decides its status is the same.
LEMMA StatusSame ==
    ASSUME NEW i \in Items, runs'[i] = runs[i], i \in accepted' <=> i \in accepted,
           Running(i)' <=> Running(i), Held(i)' <=> Held(i)
    PROVE  StatusOf(i)' = StatusOf(i)
  BY DEF StatusOf, Running

\* Work that is no longer held has been given up.
LEMMA StatusLeaves ==
    ASSUME TypeOK, TypeOK', LifeInv, UseInv, UseInv', NothingNew, SameHands, Stays
    PROVE  \A i \in Items : \/ StatusOf(i)' = StatusOf(i)
                            \/ StatusOf(i) = "accepted" /\ StatusOf(i)' = "dropped"
  <1> SUFFICES ASSUME NEW i \in Items
               PROVE  \/ StatusOf(i)' = StatusOf(i)
                      \/ StatusOf(i) = "accepted" /\ StatusOf(i)' = "dropped"
    OBVIOUS
  <1>1. runs' = runs /\ accepted' = accepted /\ (Running(i)' <=> Running(i))
    BY DEF NothingNew, SameHands, Running
  <1>2. \A w \in Workers : Kept(w, i) \in Nat /\ Kept(w, i)' \in Nat
    BY CopiesType, CopiesTypeNext
  <1>3. Held(i)' => Held(i)
    BY <1>2, HeldIsKept, HeldIsKeptNext DEF Stays
  <1>4. CASE Held(i)' <=> Held(i)
    BY <1>1, <1>4, StatusSame
  <1>5. CASE Held(i) /\ ~Held(i)'
    <2>1. i \in accepted /\ runs[i] = 0
      BY <1>2, <1>5, HeldIsKept DEF LifeInv
    <2>2. ~Running(i)
      BY <2>1 DEF LifeInv, Running
    <2> QED  BY <1>1, <1>5, <2>1, <2>2 DEF StatusOf, Running
  <1> QED  BY <1>3, <1>4, <1>5

\* Nothing becomes of an item that is kept by somebody, be it somebody else.
LEMMA StatusKept ==
    ASSUME TypeOK, TypeOK', UseInv, UseInv', NothingNew, SameHands,
           KeptSame \/ \E a, b \in Workers : MovesExactly(a, b)
    PROVE  PoolStatus' = PoolStatus
  <1>1. ASSUME NEW i \in Items PROVE StatusOf(i)' = StatusOf(i)
    <2>1. runs' = runs /\ accepted' = accepted /\ (Running(i)' <=> Running(i))
      BY DEF NothingNew, SameHands, Running
    <2>2. \A w \in Workers : Kept(w, i) \in Nat /\ Kept(w, i)' \in Nat
      BY CopiesType, CopiesTypeNext
    <2>3. (\E w \in Workers : Kept(w, i)' > 0) <=> \E w \in Workers : Kept(w, i) > 0
      <3>1. CASE KeptSame
        BY <3>1 DEF KeptSame
      <3>2. ASSUME NEW a \in Workers, NEW b \in Workers, MovesExactly(a, b)
            PROVE  (\E w \in Workers : Kept(w, i)' > 0) <=> \E w \in Workers : Kept(w, i) > 0
        <4>1. Kept(a, i)' + Kept(b, i)' = Kept(a, i) + Kept(b, i)
          BY <3>2 DEF MovesExactly
        <4>2. \A w \in Workers : w # a /\ w # b => Kept(w, i)' = Kept(w, i)
          BY <3>2 DEF MovesExactly
        <4>3. (Kept(a, i)' > 0 \/ Kept(b, i)' > 0) <=> (Kept(a, i) > 0 \/ Kept(b, i) > 0)
          BY <2>2, <4>1
        <4> QED  BY <4>2, <4>3
      <3> QED  BY <3>1, <3>2
    <2>4. Held(i)' <=> Held(i)
      BY <2>3, HeldIsKept, HeldIsKeptNext
    <2> QED  BY <2>1, <2>4, StatusSame
  <1> QED  BY <1>1 DEF PoolStatus

-----------------------------------------------------------------------------
(* A step of the pool is a step of the abstract pool.                      *)

\* A failed pool stays failed, and only these calls are seen by the client.
LEMMA ControlStays ==
    ASSUME IInv, [Next]_vars
    PROVE  /\ Failed => Failed'
           /\ \/ UNCHANGED <<Client, Phase>>
              \/ \E k \in 0 .. NThreads : Start(k)
              \/ \E c \in {"wait_mem", "wait", "stop"}, n \in LteCounts \cup {0} : UserWait(c, n)
              \/ WaitReturns \/ Destroy
  <1> USE DEF Goto, poolVars, mainVars, histVars, Failed, StoppedOnError, Client, Phase,
          ClientBlocked
  <1>0. TypeOK /\ pc \in [Procs -> WorkerPC \cup EnqueuePC \cup MainPC] /\ props \in PropType
    BY DEF IInv, TypeOK, ThreadTypes, PoolTypes
  <1>p. \A p \in Procs : PlaceFails(p) =>
            UNCHANGED <<props, errored, call, starts>> /\ (swap_lost => swap_lost')
    BY Zenon DEF PlaceFails
  <1>1. ASSUME NEW w \in Workers, EnqueueSteps(w) \/ WorkerSteps(w) \/ SpuriousWakeup(w)
        PROVE  (Failed => Failed') /\ UNCHANGED <<Client, Phase>>
    <2>1. /\ pc'[Main] = pc[Main] \/ (pc[Main] = "wait_mem_asleep" /\ pc'[Main] = "wait_mem")
          /\ UNCHANGED <<call, state, lte, props>> /\ (errored => errored')
      BY <1>0, <1>1, WorkersLeaveMain
    <2>2. starts' = starts /\ (PlaceFails(w) \/ swap_lost' = TRUE \/ swap_lost' = swap_lost)
      <3>1. CASE EnqueueSteps(w)
        BY <1>p, <3>1, Distinct DEF EnqueueSteps, Enqueue, LockTarget, LockHere, WakeTarget,
           PlaceInMemory, PlaceInSwap
      <3>2. CASE \/ LockThread(w) \/ LockPool(w) \/ StealNothing(w) \/ StealWaiting(w)
                 \/ StealClaimed(w) \/ Sleep(w) \/ Reacquire(w) \/ Relock(w) \/ Leave(w)
        BY <3>2 DEF LockThread, LockPool, StealNothing, StealWaiting, StealClaimed, Sleep,
           Reacquire, Relock, Leave
      <3>3. CASE \/ Proceed(w) \/ ClaimWork(w) \/ PopWork(w) \/ PopNothing(w) \/ Spawn(w)
                 \/ RunSucceeds(w) \/ RunFails(w) \/ SetErrored(w) \/ SpuriousWakeup(w)
        BY <3>3 DEF Proceed, ClaimWork, PopWork, PopNothing, Spawn, RunSucceeds, RunFails,
           SetErrored, SpuriousWakeup
      <3>4. CASE \/ Account(w) \/ ExitBroadcast(w) \/ SwapEmpty(w) \/ SwapPrep(w)
                 \/ SwapPrepFails(w) \/ SwapRead(w) \/ SwapDone(w)
        BY <3>4 DEF Account, ExitBroadcast, SwapEmpty, SwapPrep, SwapPrepFails, SwapRead,
           SwapDone
      <3> QED  BY <1>1, <3>1, <3>2, <3>3, <3>4 DEF WorkerSteps
    <2>3. swap_lost => swap_lost'
      BY <1>p, <2>2, Distinct, Zenon
    <2> QED  BY <2>1, <2>2, <2>3
  <1>2. ASSUME EnqueueSteps(Main) PROVE (Failed => Failed') /\ UNCHANGED <<Client, Phase>>
    <2>0. /\ UNCHANGED <<props, errored, call, starts>>
          /\ PlaceFails(Main) \/ swap_lost' = swap_lost
      BY <1>2, <1>p, Distinct DEF EnqueueSteps, Enqueue, LockTarget, LockHere, WakeTarget,
         PlaceInMemory, PlaceInSwap
    <2>1. swap_lost => swap_lost'
      BY <1>p, <2>0, Distinct, Zenon
    <2>2. /\ pc[Main] \in EnqueuePC
          /\ pc'[Main] \in EnqueuePC \cup {"user", "wait_mem"}
      BY <1>0, <1>2, Distinct DEF EnqueueSteps, Enqueue, LockTarget, LockHere, WakeTarget,
         PlaceInMemory, PlaceInSwap, PlaceFails, Return, Woken, EnqueuePC
    <2> QED  BY <2>0, <2>1, <2>2 DEF EnqueuePC
  <1>3. ASSUME WaitMem \/ SpuriousMainWakeup \/ SwapRound
        PROVE  (Failed => Failed') /\ UNCHANGED <<Client, Phase>>
    BY <1>0, <1>3, Distinct DEF WaitMem, SpuriousMainWakeup, SwapRound
  <1>4. ASSUME SetStopping \/ StopBroadcast \/ Join
        PROVE  (Failed => Failed') /\ UNCHANGED <<Client, Phase>>
    BY <1>0, <1>4, Distinct DEF SetStopping, StopBroadcast, Join, Woken
  <1>5. ASSUME NEW i \in Items,
               UserEnqueue(i) \/ UserEnqueueHere(i, "WAIT") \/ UserEnqueueHere(i, "SWAP")
        PROVE  (Failed => Failed') /\ UNCHANGED <<Client, Phase>>
    BY <1>0, <1>5, Distinct DEF UserEnqueue, UserEnqueueHere
  <1>6. ASSUME NEW s \in Settings, Set(s[1], s[2])
        PROVE  (Failed => Failed') /\ UNCHANGED <<Client, Phase>>
    <2>1. UNCHANGED <<pc, call, starts, errored, swap_lost>>
      BY <1>6 DEF Set
    <2>2. props.stop_on_error => props'.stop_on_error
      <3>1. s[1] \in Settable
        BY PropsAssumption
      <3> QED  BY <1>0, <1>6, <3>1 DEF Set, PropType, Settable
    <2> QED  BY <2>1, <2>2
  <1>7. ASSUME \/ WaitReturns \/ Destroy
               \/ \E k \in 0 .. NThreads : Start(k)
               \/ \E c \in {"wait_mem", "wait", "stop"}, n \in LteCounts \cup {0} :
                      UserWait(c, n)
        PROVE  Failed => Failed'
    BY <1>7 DEF WaitReturns, Destroy, Start, UserWait
  <1>8. ASSUME UNCHANGED vars
        PROVE  (Failed => Failed') /\ UNCHANGED <<Client, Phase>>
    BY <1>8 DEF vars
  <1>9. \A p \in Procs : p = Main \/ p \in Workers
    BY DEF Procs
  <1>10. \A i \in Items, q \in {"WAIT", "SWAP"} : UserEnqueueHere(i, q) =>
             UserEnqueueHere(i, "WAIT") \/ UserEnqueueHere(i, "SWAP")
    OBVIOUS
  <1> HIDE DEF Failed, Client, Phase
  <1> QED  BY <1>1, <1>2, <1>3, <1>4, <1>5, <1>6, <1>7, <1>8, <1>9, <1>10
           DEF Next, WaitSteps, UserSteps, Terminated

\* The calls of main() that start a wait or the pool, or end a wait, touch no
\* work.
LEMMA CallsTouchNothing ==
    ASSUME IInv, IInv', UseInv, UseInv',
           \/ \E k \in 0 .. NThreads : Start(k)
           \/ \E c \in {"wait_mem", "wait", "stop"}, n \in LteCounts \cup {0} : UserWait(c, n)
           \/ WaitReturns
    PROVE  PoolStatus' = PoolStatus /\ Failed' = Failed
  <1> USE DEF Goto, queueVars, swapVars, poolVars, itemVars, histVars, enqVars, Handing
  <1>0. pc \in [Procs -> WorkerPC \cup EnqueuePC \cup MainPC]
    BY DEF IInv, TypeOK, ThreadTypes
  <1>1. /\ UNCHANGED <<waiting, claimed, swap_write, swap_read, todo, qi, runs, accepted>>
        /\ UNCHANGED <<new_work, props, errored, swap_lost>>
    <2>1. ASSUME NEW k \in 0 .. NThreads, Start(k)
          PROVE  /\ UNCHANGED <<waiting, claimed, swap_write, swap_read, todo, qi, runs, accepted>>
                 /\ UNCHANGED <<new_work, props, errored, swap_lost>>
      BY <2>1 DEF Start
    <2>2. ASSUME NEW c, NEW n, UserWait(c, n)
          PROVE  /\ UNCHANGED <<waiting, claimed, swap_write, swap_read, todo, qi, runs, accepted>>
                 /\ UNCHANGED <<new_work, props, errored, swap_lost>>
      BY <2>2 DEF UserWait
    <2>3. ASSUME WaitReturns
          PROVE  /\ UNCHANGED <<waiting, claimed, swap_write, swap_read, todo, qi, runs, accepted>>
                 /\ UNCHANGED <<new_work, props, errored, swap_lost>>
      BY <2>3 DEF WaitReturns
    <2> QED  BY <2>1, <2>2, <2>3
  <1>2. \A p \in Procs : Handing(p)' <=> Handing(p)
    <2>1. ASSUME NEW k \in 0 .. NThreads, Start(k) PROVE \A p \in Procs : Handing(p)' <=> Handing(p)
      <3>1. \A w \in Workers : pc[w] \in {"idle", "gone"}
        BY <2>1 DEF Start, IInv, StartedInv
      <3> QED  BY <1>0, <2>1, <3>1, Distinct DEF Start, Procs
    <2>2. ASSUME NEW c, NEW n, UserWait(c, n) PROVE \A p \in Procs : Handing(p)' <=> Handing(p)
      BY <1>0, <2>2, Distinct DEF UserWait
    <2>3. ASSUME WaitReturns PROVE \A p \in Procs : Handing(p)' <=> Handing(p)
      BY <1>0, <2>3, Distinct DEF WaitReturns
    <2> QED  BY <2>1, <2>2, <2>3
  <1> HIDE DEF Handing
  <1>3. \A p \in Procs : \A i \in Items : Carried(p, i)' = Carried(p, i)
    BY <1>1, <1>2 DEF Carried
  <1>4. KeptSame
    BY <1>1, <1>3, Distinct DEF KeptSame, Kept, Stored
  <1>5. \A p \in Procs : \A i \in Items : Coming(p, i)' = Coming(p, i)
    BY <1>1, <1>3, Distinct DEF Coming, Procs
  <1>6. NothingNew /\ SameHands
    BY <1>1, <1>5, CopiesType DEF NothingNew, SameHands, IInv
  <1>7. PoolStatus' = PoolStatus
    BY <1>4, <1>6, StatusKept DEF IInv
  <1> QED  BY <1>1, <1>7 DEF Failed, StoppedOnError

\* When a wait ends without a failure, nothing is accepted or running.
LEMMA AllEnded ==
    ASSUME IInv, CountInv, EmptyInv, WaitReturns, ~Failed, NEW i \in Items
    PROVE  StatusOf(i) \in {"new", "done", "dropped"}
  <1>1. pc[Main] # "destroyed" /\ incomplete = 0 /\ swapped = 0 /\ ~swap_lost
    BY DEF WaitReturns, EmptyInv, Failed
  <1>2. \A w \in Workers : /\ waiting[w] = <<>> /\ claimed[w] = <<>> /\ qi[w] = NoItem
                           /\ swap_write[w] = <<>> /\ swap_read[w] = <<>>
    BY <1>1, IdleWhenNothingIncomplete, NothingWhenNothingSwapped
  <1>3. NoItem # Token /\ NoItem # i
    BY ItemsAssumption
  <1>4. i \notin Range(<<>>)
    BY DEF Range
  <1>5. ~Held(i)
    BY <1>2, <1>3, <1>4 DEF Held, Rereading
  <1>6. ~\E w \in Workers : qi[w] = i
    BY <1>2, <1>3
  <1> QED  BY <1>5, <1>6 DEF StatusOf

\* Items that are no longer held are given up together.
LEMMA GivesUp ==
    ASSUME \A i \in Items : \/ StatusOf(i)' = StatusOf(i)
                            \/ StatusOf(i) = "accepted" /\ StatusOf(i)' = "dropped"
    PROVE  Pool!GiveUp
  <1> DEFINE I == {i \in Items : StatusOf(i) = "accepted" /\ StatusOf(i)' # "accepted"}
  <1>1. I \in SUBSET {i \in Items : [j \in Items |-> StatusOf(j)][i] = "accepted"}
    OBVIOUS
  <1>2. [i \in Items |-> StatusOf(i)]' =
            [i \in Items |-> IF i \in I THEN "dropped" ELSE [j \in Items |-> StatusOf(j)][i]]
    OBVIOUS
  <1> HIDE DEF I
  <1> QED  BY <1>1, <1>2 DEF Pool!GiveUp

\* The calls of main() the client sees.
LEMMA CallsMap ==
    ASSUME IInv, IInv', CountInv, CallInv, EmptyInv, UseInv, UseInv',
           \/ \E k \in 0 .. NThreads : Start(k)
           \/ \E c \in {"wait_mem", "wait", "stop"}, n \in LteCounts \cup {0} : UserWait(c, n)
           \/ WaitReturns
    PROVE  [Pool!Next]_Pool!vars
  <1> USE DEF Goto, poolVars, mainVars
  <1>0. /\ pc \in [Procs -> WorkerPC \cup EnqueuePC \cup MainPC]
        /\ starts \in Nat
    BY DEF IInv, TypeOK, ThreadTypes, MainTypes
  <1>1. PoolStatus' = PoolStatus /\ Failed' = Failed
    BY CallsTouchNothing
  <1>2. ASSUME NEW k \in 0 .. NThreads, Start(k) PROVE Pool!Start
    <2>1. Phase # "closed" /\ Client = "free" /\ Phase' = "started"
          /\ Client' \in {"free", "blocked"}
      BY <1>0, <1>2, Distinct DEF Start, Client, Phase, ClientBlocked, CallInv
    <2> QED  BY <1>1, <2>1 DEF Pool!Start, PoolStatus, Client, Phase, Failed
  <1>3. ASSUME NEW c \in {"wait_mem", "wait", "stop"}, NEW n \in LteCounts \cup {0},
               UserWait(c, n)
        PROVE  Pool!BeginWait \/ UNCHANGED Pool!vars
    <2>1. Client = "free" /\ Client' \in {"free", "blocked"} /\ Phase' = Phase
      BY <1>0, <1>3, Distinct DEF UserWait, Client, Phase, ClientBlocked, CallInv
    <2> QED  BY <1>1, <2>1 DEF Pool!BeginWait, Pool!vars, PoolStatus, Client, Phase, Failed
  <1>4. ASSUME WaitReturns PROVE Pool!EndWait
    <2>1. call \in {"wait", "stop"}
      BY <1>4 DEF WaitReturns, CallInv, EmptyInv, IInv, TypeOK, MainTypes, EnqueuePC
    <2>2. Client = "blocked" /\ Client' = "free" /\ Phase' = Phase
      BY <1>0, <1>4, <2>1, Distinct DEF WaitReturns, Client, Phase, ClientBlocked
    <2>3. Failed \/ \A i \in Items : StatusOf(i) \in {"new", "done", "dropped"}
      BY <1>4, AllEnded
    <2> QED  BY <1>1, <2>2, <2>3 DEF Pool!EndWait, PoolStatus, Client, Phase, Failed
  <1> QED  BY <1>2, <1>3, <1>4 DEF Pool!Next

\* Work that is lost is lost by a failure, given up by main(), or still there.
LEMMA LeavesMap ==
    ASSUME IInv, IInv', LifeInv, CallInv, UseInv, UseInv', Leaves, [Next]_vars,
           UNCHANGED <<Client, Phase>> \/ Destroy
    PROVE  [Pool!Next]_Pool!vars
  <1>0. /\ TypeOK /\ TypeOK' /\ NothingNew /\ SameHands /\ Stays
        /\ pc \in [Procs -> WorkerPC \cup EnqueuePC \cup MainPC]
    BY DEF IInv, TypeOK, ThreadTypes, Leaves
  <1>1. Pool!GiveUp
    BY <1>0, StatusLeaves, GivesUp
  <1>2. Failed => Failed'
    BY ControlStays
  <1>3. CASE Destroy
    <2>1. Client = "free" /\ Client' = "free" /\ Phase' = "closed" /\ Failed' = Failed
      BY <1>0, <1>3, Distinct DEF Destroy, Goto, Client, Phase, Failed, StoppedOnError,
         ClientBlocked, CallInv, poolVars, mainVars, histVars
    <2>2. Pool!Close
      BY <1>1, <2>1 DEF Pool!Close, Client, Phase, Failed
    <2> QED  BY <2>2 DEF Pool!Next
  <1>4. CASE UNCHANGED <<Client, Phase>> /\ KeptSame
    <2>1. PoolStatus' = PoolStatus
      BY <1>0, <1>4, StatusKept
    <2>2. CASE Failed'
      <3>1. Pool!Fail
        BY <1>4, <2>1, <2>2 DEF Pool!Fail, PoolStatus, Client, Phase, Failed
      <3> QED  BY <3>1 DEF Pool!Next
    <2>3. CASE ~Failed'
      <3>1. ~Failed
        BY <1>2, <2>3
      <3>2. UNCHANGED Pool!vars
        BY <1>4, <2>1, <2>3, <3>1 DEF Pool!vars, PoolStatus, Client, Phase, Failed
      <3> QED  BY <3>2
    <2> QED  BY <2>2, <2>3
  <1>5. CASE UNCHANGED <<Client, Phase>> /\ ~KeptSame /\ ~Destroy
    <2>1. Failed' \/ Phase = "configuring"
      BY <1>5 DEF Leaves, Phase
    <2>2. Pool!Drop
      BY <1>1, <1>2, <1>5, <2>1 DEF Pool!Drop, Client, Phase, Failed
    <2> QED  BY <2>2 DEF Pool!Next
  <1> QED  BY <1>3, <1>4, <1>5

\* An item is accepted.
LEMMA AcceptsMap ==
    ASSUME IInv, IInv', LifeInv, UseInv, UseInv', OnlyWork, NEW p \in Procs, NEW t \in Workers,
           NEW j \in Items, Accepts(p, t, j), Coming(p, j) > 0
    PROVE  Pool!Accept(j)
  <1>0. TypeOK /\ TypeOK'
    BY DEF IInv
  <1>1. \A i \in Items : \A w \in Workers : Kept(w, i) \in Nat
    BY <1>0, CopiesType
  <1>2. j \notin accepted /\ runs[j] = 0
    <2>1. j \notin accepted
      BY Distinct DEF LifeInv, Procs
    <2>2. runs[j] \in Nat
      BY DEF IInv, TypeOK, HistTypes
    <2> QED  BY <2>1, <2>2 DEF LifeInv
  <1>3. runs' = runs /\ qi' = qi /\ accepted' = accepted \cup {j}
    BY DEF Accepts
  <1>4. ~Held(j) /\ ~Running(j) /\ ~Running(j)'
    <2>1. \A w \in Workers : ~(Kept(w, j) > 0)
      BY <1>2 DEF LifeInv
    <2>2. ~Running(j)
      BY <1>2 DEF LifeInv, Running
    <2> QED  BY <1>0, <1>3, <2>1, <2>2, HeldIsKept DEF Running
  <1>5. Held(j)'
    <2>1. Kept(t, j)' > 0
      BY <1>1 DEF Accepts
    <2> QED  BY <1>0, <2>1, HeldIsKeptNext
  <1>6. StatusOf(j) = "new" /\ StatusOf(j)' = "accepted"
    BY <1>2, <1>4, <1>5 DEF StatusOf, Running
  <1>7. ASSUME NEW i \in Items, i # j PROVE StatusOf(i)' = StatusOf(i)
    <2>1. \A w \in Workers : Kept(w, i)' = Kept(w, i)
      BY <1>1, <1>7 DEF Accepts
    <2>2. Held(i)' <=> Held(i)
      BY <1>0, <2>1, HeldIsKept, HeldIsKeptNext
    <2> QED  BY <1>3, <1>7, <2>2, StatusSame DEF Running
  <1>8. PoolStatus[j] = "new" /\ PoolStatus' = [PoolStatus EXCEPT ![j] = "accepted"]
    BY <1>6, <1>7 DEF PoolStatus
  <1> QED  BY <1>8 DEF Pool!Accept, Pool!Move, OnlyWork, PoolStatus, Client, Phase, Failed

\* Its user function is called.
LEMMA BeginsMap ==
    ASSUME IInv, IInv', OnePlace, LifeInv, LifeInv', UseInv, UseInv', OnlyWork,
           NEW w \in Workers, NEW j \in Items, Begins(w, j)
    PROVE  Pool!Begin(j)
  <1>0. /\ TypeOK /\ TypeOK' /\ runs \in [Items -> Nat]
        /\ qi \in [Workers -> Work \cup {NoItem}] /\ NoItem \notin Items
    BY ItemsAssumption DEF IInv, TypeOK, HistTypes, ItemTypes
  <1>1. \A i \in Items : \A v \in Workers : Kept(v, i) \in Nat
    BY <1>0, CopiesType
  <1>2. j \in accepted /\ runs[j] = 0 /\ Held(j)
    BY <1>0, HeldIsKept DEF Begins, LifeInv
  <1>3. ~Running(j) /\ Running(j)'
    BY <1>0, <1>2 DEF Begins, LifeInv, Running
  <1>4. StatusOf(j) = "accepted" /\ StatusOf(j)' = "running"
    BY <1>2, <1>3 DEF StatusOf, Running
  <1>5. ASSUME NEW i \in Items, i # j PROVE StatusOf(i)' = StatusOf(i)
    <2>1. \A v \in Workers : Kept(v, i)' = Kept(v, i)
      BY <1>1, <1>5 DEF Begins
    <2>2. Held(i)' <=> Held(i)
      BY <1>0, <2>1, HeldIsKept, HeldIsKeptNext
    <2>3. \A v \in Workers : qi'[v] = i <=> qi[v] = i
      BY <1>0, <1>5 DEF Begins
    <2>4. runs'[i] = runs[i] /\ accepted' = accepted
      BY <1>0, <1>5 DEF Begins
    <2> QED  BY <2>2, <2>3, <2>4, StatusSame DEF Running
  <1>6. PoolStatus[j] = "accepted" /\ PoolStatus' = [PoolStatus EXCEPT ![j] = "running"]
    BY <1>4, <1>5 DEF PoolStatus
  <1> QED  BY <1>6 DEF Pool!Begin, Pool!Move, OnlyWork, PoolStatus, Client, Phase, Failed

\* And it returns.
LEMMA EndsMap ==
    ASSUME IInv, IInv', LifeInv, UseInv, UseInv', OnlyWork, NEW w \in Workers, Ends(w)
    PROVE  \E j \in Items : Pool!End(j)
  <1> PICK j \in Items : j = qi[w]
    BY DEF Ends
  <1>0. /\ TypeOK /\ TypeOK' /\ runs \in [Items -> Nat] /\ j \in Items
        /\ qi \in [Workers -> Work \cup {NoItem}] /\ NoItem \notin Items
    BY ItemsAssumption DEF IInv, TypeOK, HistTypes, ItemTypes, Ends
  <1>1. runs[j] > 0 /\ \A v \in Workers : qi[v] = j => v = w
    BY <1>0 DEF LifeInv
  <1>2. runs' = runs /\ accepted' = accepted /\ qi' = [qi EXCEPT ![w] = NoItem]
    BY DEF Ends, NothingNew
  <1>3. Running(j) /\ ~Running(j)'
    BY <1>0, <1>1, <1>2 DEF Running
  <1>4. \A i \in Items : Held(i)' <=> Held(i)
    BY <1>0, HeldIsKept, HeldIsKeptNext DEF Ends, KeptSame
  <1>5. ~Held(j)
    BY <1>0, <1>1, HeldIsKept DEF LifeInv
  <1>6. StatusOf(j) = "running"
    BY <1>3 DEF StatusOf, Running
  <1>7. StatusOf(j)' = "done"
    <2>1. ~Held(j)' /\ runs'[j] > 0
      BY <1>1, <1>2, <1>4, <1>5
    <2> QED  BY <1>3, <2>1 DEF StatusOf, Running
  <1>8. ASSUME NEW i \in Items, i # j PROVE StatusOf(i)' = StatusOf(i)
    <2>1. \A v \in Workers : qi'[v] = i <=> qi[v] = i
      BY <1>0, <1>2, <1>8
    <2> QED  BY <1>2, <1>4, <2>1, StatusSame DEF Running
  <1>9. PoolStatus[j] = "running" /\ PoolStatus' = [PoolStatus EXCEPT ![j] = "done"]
    BY <1>6, <1>7, <1>8 DEF PoolStatus
  <1>10. Pool!End(j)
    BY <1>9 DEF Pool!End, Pool!Move, OnlyWork, PoolStatus, Client, Phase, Failed
  <1> QED  BY <1>10

\* Every step of the pool is one of the abstract pool, or none.
LEMMA StepMaps ==
    ASSUME IInv, IInv', CountInv, CallInv, EmptyInv, PlaceInv, PlaceInv', [Next]_vars
    PROVE  [Pool!Next]_Pool!vars
  <1>0. /\ TypeOK /\ TypeOK' /\ HandInv /\ OnePlace
        /\ LifeInv /\ LifeInv' /\ UseInv /\ UseInv'
    BY DEF IInv, CountInv, PlaceInv
  <1>1. CASE \/ \E k \in 0 .. NThreads : Start(k)
             \/ \E c \in {"wait_mem", "wait", "stop"}, n \in LteCounts \cup {0} : UserWait(c, n)
             \/ WaitReturns
    BY <1>0, <1>1, CallsMap
  <1>2. CASE OnlyWork /\ Shifts
    <2>1. PoolStatus' = PoolStatus
      BY <1>0, <1>2, StatusKept DEF Shifts
    <2> QED  BY <1>2, <2>1 DEF Pool!vars, OnlyWork, PoolStatus, Client, Phase, Failed
  <1>3. ASSUME OnlyWork, NEW p \in Procs, NEW t \in Workers, NEW j \in Items,
               Accepts(p, t, j), Coming(p, j) > 0
        PROVE  Pool!Next
    BY <1>0, <1>3, AcceptsMap DEF Pool!Next
  <1>4. ASSUME OnlyWork, NEW w \in Workers, NEW j \in Items, Begins(w, j)
        PROVE  Pool!Next
    BY <1>0, <1>4, BeginsMap DEF Pool!Next
  <1>5. ASSUME OnlyWork, NEW w \in Workers, Ends(w)
        PROVE  Pool!Next
    BY <1>0, <1>5, EndsMap DEF Pool!Next
  <1>6. ASSUME OnlyWork, NEW j \in Items, Comes(j)
        PROVE  UNCHANGED Pool!vars
    <2>1. ASSUME NEW i \in Items PROVE StatusOf(i)' = StatusOf(i)
      <3>1. runs' = runs /\ accepted' = accepted /\ qi' = qi /\ KeptSame
        BY <1>6 DEF Comes
      <3>2. Held(i)' <=> Held(i)
        BY <1>0, <3>1, HeldIsKept, HeldIsKeptNext DEF KeptSame
      <3> QED  BY <3>1, <3>2, StatusSame DEF Running
    <2>2. PoolStatus' = PoolStatus
      BY <2>1 DEF PoolStatus
    <2> QED  BY <1>6, <2>2 DEF Pool!vars, OnlyWork, PoolStatus, Client, Phase, Failed
  <1>7. CASE Leaves /\ (UNCHANGED <<Client, Phase>> \/ Destroy)
    BY <1>0, <1>7, LeavesMap
  <1> QED  BY <1>0, <1>1, <1>2, <1>3, <1>4, <1>5, <1>6, <1>7, Effects, ControlStays

\* The pool starts as the abstract pool does.
LEMMA InitMaps == Init /\ PlaceInv /\ IInv => Pool!Init
  <1> SUFFICES ASSUME Init, PlaceInv, IInv PROVE Pool!Init
    OBVIOUS
  <1>1. Client = "free" /\ Phase = "configuring" /\ Failed = FALSE
    BY Distinct DEF Init, Client, Phase, Failed, ClientBlocked, StoppedOnError
  <1>2. ASSUME NEW i \in Items PROVE StatusOf(i) = "new"
    <2>1. accepted = {} /\ runs[i] = 0
      BY DEF Init
    <2>2. \A w \in Workers : ~(Kept(w, i) > 0) /\ qi[w] # i
      BY <2>1 DEF PlaceInv, LifeInv
    <2>3. ~Held(i)
      BY <2>2, HeldIsKept DEF IInv, PlaceInv
    <2> QED  BY <2>1, <2>2, <2>3 DEF StatusOf
  <1>3. PoolStatus = [i \in Items |-> "new"]
    BY <1>2 DEF PoolStatus
  <1> QED  BY <1>1, <1>3 DEF Pool!Init, PoolStatus, Client, Phase, Failed

\* The pool implements WorkPool: for any number of threads and items, and
\* under any settings, no accepted item is lost, run twice or run before it
\* was accepted, unless the pool has failed or its owner gives the item up,
\* and QPTPool_wait and QPTPool_stop end only when all of the work has.
THEOREM PoolImplementsWorkPool == Spec => ImplementsWorkPool
  <1>1. Init => CallInv /\ EmptyInv
    BY Distinct DEF Init, CallInv, EmptyInv
  <1>2. IInv /\ CallInv /\ [Next]_vars => CallInv'
    BY CallStep
  <1>3. IInv /\ CountInv /\ CallInv /\ EmptyInv /\ [Next]_vars => EmptyInv'
    BY EmptyStep
  <1>4. IInv /\ IInv' /\ CountInv /\ CallInv /\ EmptyInv /\ PlaceInv /\ PlaceInv' /\ [Next]_vars
            => [Pool!Next]_Pool!vars
    BY StepMaps
  <1> QED  BY Invariant, CountInvariant, PlaceInvariant, InitMaps, <1>1, <1>2, <1>3, <1>4,
           PTL DEF Spec, ImplementsWorkPool, Pool!Spec
=============================================================================
