--------------------------- MODULE BottomUpProofs ---------------------------
(***************************************************************************)
(* Safety of the parallel bottom-up walk, proved for every tree, every     *)
(* number of threads and every choice of what fails: no struct BottomUp is *)
(* used after it was freed, or freed twice, and a directory ascends only   *)
(* when everything below it is done.                                       *)
(*                                                                         *)
(* Both rest on one count: bu->refs.remaining of a directory is the number *)
(* of its subdirectories that have not come back, plus the threads that    *)
(* came back for one and have not yet counted it (Counted).                *)
(***************************************************************************)
EXTENDS BottomUp, FiniteSetTheorems, TLAPS

\* What still keeps a directory alive.
HasTask(d) == \E k \in pool : k.dir = d
HasThread(d) == \E t \in Threads : bu[t] = d
IsLeft(d) == \E t \in Threads : d \in left[t]
Active(d) == HasTask(d) \/ HasThread(d) \/ IsLeft(d) \/ remaining[d] # 0

\* Only threads at a place of L still have to do with d.
Over(d, L) ==
    /\ remaining[d] = 0 /\ ~HasTask(d) /\ ~IsLeft(d)
    /\ \A t \in Threads : bu[t] = d => pc[t] \in L

\* Nobody has touched c since bottomup_init.
Fresh(c) ==
    /\ frees[c] = 0 /\ ascended[c] = 0 /\ mutex[c] = Nobody /\ c \notin hung
    /\ \A e \in Subdirs[c] : e \notin alloc

\* The subdirectories of d that no thread has come back for.
Locking(d) == \E t \in Threads : bu[t] = d /\ pc[t] = "lock"
Out(d, c) == Active(c) \/ c \in hung \/ Task("ascend", d, c) \in pool \/ Locking(d)
NotBack(d) == {c \in Subdirs[d] : Out(d, c)}

\* The threads that have come back to d and are about to count that.
Counting(d) == {t \in Threads : bu[t] = d /\ pc[t] = "decrement"}

CountedAt(d) ==
    IF remaining[d] = 0 THEN NotBack(d) = {}
    ELSE remaining[d] = Cardinality(NotBack(d)) + Cardinality(Counting(d))
Counted == \A d \in Dirs : CountedAt(d)

\* A directory has one task, unless its subdirectories are coming back.
TasksAlone ==
    \A k \in pool :
        IF k.by = k.dir
        THEN /\ remaining[k.dir] = 0
             /\ ~HasThread(k.dir)
             /\ \A l \in pool : l.dir = k.dir => l = k
        ELSE /\ remaining[k.dir] # 0
             /\ k.fn = "ascend" /\ k.by \in Subdirs[k.dir]
             /\ ~Active(k.by) /\ k.by \notin hung

\* A directory has one thread, unless its subdirectories are being enqueued
\* or are coming back.
Alone(t) == ~HasTask(bu[t]) /\ \A u \in Threads : bu[u] = bu[t] => u = t

ThreadsAlone ==
    \A t \in Threads :
        /\ pc[t] \in {"open", "descend", "ascend", "cleanup", "up"} =>
              Alone(t) /\ remaining[bu[t]] = 0
        /\ pc[t] = "lock" => Alone(t) /\ remaining[bu[t]] # 0
        /\ pc[t] = "children" => mutex[bu[t]] = t /\ remaining[bu[t]] # 0
        /\ pc[t] = "decrement" =>
              \A u \in Threads \ {t} : bu[u] = bu[t] => remaining[bu[t]] # 0

LeftAlone ==
    \A t \in Threads : \A c \in left[t] :
        /\ pc[t] = "children" /\ c \in Subdirs[bu[t]]
        /\ remaining[c] = 0 /\ ~HasTask(c) /\ ~HasThread(c)

\* What has not been descended into is as bottomup_init left it.
Untouched ==
    /\ \A d \in Dirs : d \notin alloc => Fresh(d) /\ ~Active(d)
    /\ \A k \in pool : k.fn = "descend" => Fresh(k.dir) /\ k.by = k.dir
    /\ \A t \in Threads :
          /\ pc[t] = "open" => Fresh(bu[t])
          /\ \A c \in left[t] : Fresh(c)
          /\ pc[t] \in {"descend", "lock"} =>
                /\ ascended[bu[t]] = 0 /\ mutex[bu[t]] = Nobody
                /\ \A c \in Subdirs[bu[t]] : Fresh(c) /\ ~Active(c)

\* The subdirectories are allocated by the descent into their parent.
Allocated ==
    /\ \A d \in Dirs : remaining[d] # 0 => Subdirs[d] \subseteq alloc
    /\ \A k \in pool : k.fn = "ascend" => Subdirs[k.dir] \subseteq alloc
    /\ \A t \in Threads : pc[t] \notin {"idle", "open"} => Subdirs[bu[t]] \subseteq alloc

\* What is active is not freed, and a subdirectory is freed in three places.
Lifetime ==
    \A d \in Dirs :
        /\ frees[d] <= 1
        /\ Active(d) => d \in alloc /\ frees[d] = 0 /\ d \notin hung
        /\ \A c \in Subdirs[d] :
              frees[c] # 0 => c \in hung \/ d \in hung \/ mutex[d] = Destroyed

\* An ascent, and the end of a mutex, is the last that is done to a directory.
Past ==
    \A d \in Dirs :
        /\ mutex[d] = Destroyed => Over(d, {"up"})
        /\ ascended[d] <= 1
        /\ ascended[d] # 0 => Over(d, {"cleanup", "up"})

IInv ==
    /\ TypeOK /\ Counted /\ TasksAlone /\ ThreadsAlone /\ LeftAlone
    /\ Untouched /\ Allocated /\ Lifetime /\ Past

-----------------------------------------------------------------------------
(* The tree.                                                               *)

\* A subdirectory has one parent, which Parent finds.
LEMMA ParentOf ==
    /\ \A d \in Dirs : \A c \in Subdirs[d] : c \in Dirs /\ c # d /\ Parent(c) = d
    /\ \A c \in Dirs : Parent(c) # Nobody => Parent(c) \in Dirs /\ c \in Subdirs[Parent(c)]
<1>1. \A d \in Dirs : \A c \in Subdirs[d] : c \in Dirs /\ c # d /\ Parent(c) = d
  <2>1. SUFFICES ASSUME NEW d \in Dirs, NEW c \in Subdirs[d]
                 PROVE  c \in Dirs /\ c # d /\ Parent(c) = d
    OBVIOUS
  <2>2. c \in Dirs /\ c # d
    BY TreeAssumption
  <2>3. \A e \in Dirs : c \in Subdirs[e] => e = d
    BY TreeAssumption
  <2>4. QED
    BY <2>2, <2>3 DEF Parent
<1>2. ASSUME NEW c \in Dirs, Parent(c) # Nobody
      PROVE  Parent(c) \in Dirs /\ c \in Subdirs[Parent(c)]
  BY <1>2 DEF Parent
<1>3. QED
  BY <1>1, <1>2

\* A finite number of directories and of threads can be counted.
LEMMA Counts ==
    ASSUME TypeOK, NEW d \in Dirs
    PROVE  /\ IsFiniteSet(NotBack(d)) /\ Cardinality(NotBack(d)) \in Nat
           /\ IsFiniteSet(Counting(d)) /\ Cardinality(Counting(d)) \in Nat
           /\ IsFiniteSet(Subdirs[d]) /\ Cardinality(Subdirs[d]) \in Nat
<1>1. NotBack(d) \in SUBSET Dirs /\ Subdirs[d] \in SUBSET Dirs
  BY TreeAssumption DEF NotBack
<1>2. Counting(d) \in SUBSET Threads
  BY DEF Counting
<1>3. QED
  BY <1>1, <1>2, TreeAssumption, NamesAssumption, FS_Subset, FS_CardinalityType

-----------------------------------------------------------------------------
(* Type correctness.                                                       *)

LEMMA InitType == Init => TypeOK
  BY TreeAssumption, NamesAssumption DEF Init, TypeOK, Task

LEMMA NextType == TypeOK /\ [Next]_vars => TypeOK'
<1>1. SUFFICES ASSUME TypeOK, [Next]_vars PROVE TypeOK'
  OBVIOUS
<1>2. ASSUME NEW t \in Threads, Take(t) PROVE TypeOK'
  BY <1>1, <1>2, NamesAssumption DEF TypeOK, Take, Goto
<1>3. ASSUME NEW t \in Threads, OpenFails(t) PROVE TypeOK'
  BY <1>1, <1>3, NamesAssumption, ParentOf
     DEF TypeOK, OpenFails, TellParent, FreeAll, Done, Goto, Task
<1>4. ASSUME NEW t \in Threads, StatFails(t) PROVE TypeOK'
  BY <1>1, <1>4, NamesAssumption, TreeAssumption DEF TypeOK, StatFails, Done, Goto
<1>5. ASSUME NEW t \in Threads, Scan(t) PROVE TypeOK'
  BY <1>1, <1>5, NamesAssumption, TreeAssumption DEF TypeOK, Scan, Goto
<1>6. ASSUME NEW t \in Threads, DescendFails(t) PROVE TypeOK'
  BY <1>1, <1>6, NamesAssumption DEF TypeOK, DescendFails, FreeAll, Done, Goto
<1>7. ASSUME NEW t \in Threads, GoDown(t) PROVE TypeOK'
  <2>1. bu[t] \in Dirs
    BY <1>1, <1>7 DEF TypeOK, GoDown
  <2>2. Cardinality(Subdirs[bu[t]]) \in Nat
    BY <1>1, <2>1, Counts
  <2>3. QED
    BY <1>1, <1>7, <2>1, <2>2, NamesAssumption DEF TypeOK, GoDown, Goto
<1>8. ASSUME NEW t \in Threads, StartUp(t) PROVE TypeOK'
  BY <1>1, <1>8, NamesAssumption DEF TypeOK, StartUp, Done, Goto, Task
<1>9. ASSUME NEW t \in Threads, LockRefs(t) PROVE TypeOK'
  BY <1>1, <1>9, NamesAssumption, TreeAssumption DEF TypeOK, LockRefs, Goto
<1>10. ASSUME NEW t \in Threads, EnqueueChild(t) PROVE TypeOK'
  BY <1>1, <1>10 DEF TypeOK, EnqueueChild, Task
<1>11. ASSUME NEW t \in Threads, UnlockRefs(t) PROVE TypeOK'
  BY <1>1, <1>11, NamesAssumption DEF TypeOK, UnlockRefs, Done, Goto
<1>12. ASSUME NEW t \in Threads, Decrement(t) PROVE TypeOK'
  BY <1>1, <1>12, NamesAssumption DEF TypeOK, Decrement, MinusOne, Done, Goto
<1>13. ASSUME NEW t \in Threads, Ascend(t) PROVE TypeOK'
  BY <1>1, <1>13 DEF TypeOK, Ascend, Goto
<1>14. ASSUME NEW t \in Threads, Cleanup(t) PROVE TypeOK'
  BY <1>1, <1>14, NamesAssumption DEF TypeOK, Cleanup, FreeAll, Goto
<1>15. ASSUME NEW t \in Threads, GoUp(t) PROVE TypeOK'
  BY <1>1, <1>15, NamesAssumption, ParentOf
     DEF TypeOK, GoUp, TellParent, FreeAll, Done, Goto, Task
<1>16. CASE UNCHANGED vars
  BY <1>1, <1>16 DEF TypeOK, vars
<1>17. QED
  BY <1>1, <1>2, <1>3, <1>4, <1>5, <1>6, <1>7, <1>8, <1>9, <1>10, <1>11, <1>12, <1>13,
     <1>14, <1>15, <1>16 DEF Next, Steps, Fini
-----------------------------------------------------------------------------
(* The count.                                                              *)

\* A directory with a subdirectory that is not back waits for it.
LEMMA ParentWaits ==
    IInv => \A d \in Dirs : \A c \in Subdirs[d] : Out(d, c) => remaining[d] # 0
  BY DEF IInv, Counted, CountedAt, NotBack

\* A step that changes neither the count of d nor what it counts.
LEMMA SameCount ==
    ASSUME NEW d \in Dirs, CountedAt(d), remaining'[d] = remaining[d],
           \A c \in Subdirs[d] : Out(d, c)' <=> Out(d, c),
           Counting(d)' = Counting(d)
    PROVE  CountedAt(d)'
<1>1. NotBack(d)' = NotBack(d)
  BY DEF NotBack
<1>2. QED
  BY <1>1 DEF CountedAt

LEMMA InitInv == Init => IInv
<1>1. SUFFICES ASSUME Init PROVE IInv
  OBVIOUS
<1>2. TypeOK
  BY <1>1, InitType
<1>3. \A d \in Dirs : Active(d) => d \in Roots
  BY <1>1, NamesAssumption DEF Init, Active, HasTask, HasThread, IsLeft, Task
<1>4. Counted
  <2>1. \A d \in Dirs : \A c \in Subdirs[d] : ~Out(d, c)
    BY <1>1, <1>3, TreeAssumption, NamesAssumption DEF Init, Out, Locking, Task
  <2>2. QED
    BY <1>1, <2>1 DEF Init, Counted, CountedAt, NotBack
<1>5. TasksAlone
  BY <1>1, NamesAssumption, TreeAssumption DEF Init, TasksAlone, HasThread, Task
<1>6. ThreadsAlone /\ LeftAlone
  BY <1>1 DEF Init, ThreadsAlone, LeftAlone
<1>7. Untouched
  BY <1>1, <1>3, TreeAssumption DEF Init, Untouched, Fresh, Task
<1>8. Allocated /\ Lifetime
  BY <1>1, <1>3, TreeAssumption DEF Init, Allocated, Lifetime, Task
<1>9. Past
  BY <1>1, NamesAssumption DEF Init, Past
<1>10. QED
  BY <1>2, <1>4, <1>5, <1>6, <1>7, <1>8, <1>9 DEF IInv

-----------------------------------------------------------------------------
(* The invariant, action by action.                                        *)

\* What an enqueued task changes.
LEMMA NewTask ==
    ASSUME NEW fn, NEW d, NEW by, pool' = pool \cup {Task(fn, d, by)}
    PROVE  \A c : HasTask(c)' <=> HasTask(c) \/ c = d
<1>1. Task(fn, d, by).dir = d
  BY DEF Task
<1>2. QED
  BY <1>1 DEF HasTask

\* A directory that is done stays out until its parent has been told.
LEMMA ToldOut ==
    ASSUME IInv, NEW t \in Threads, bu[t] \in Dirs, pc[t] # "lock",
           TellParent(bu[t]), Done(t), UNCHANGED <<left, remaining, hung>>
    PROVE  \A d \in Dirs : \A c \in Subdirs[d] : Out(d, c)' <=> Out(d, c)
<1>1. SUFFICES ASSUME NEW d \in Dirs, NEW c \in Subdirs[d]
               PROVE  Out(d, c)' <=> Out(d, c)
  OBVIOUS
<1>2. \A e \in Dirs : \A f \in Subdirs[e] : Out(e, f) => remaining[e] # 0
  BY ParentWaits
<1>3. CASE c = bu[t]
  BY <1>3, ParentOf, NamesAssumption DEF TellParent, TypeOK, IInv, Out, Active,
     HasThread
<1>4. CASE c # bu[t]
  <2>1. Active(c)' <=> Active(c)
    <3>1. /\ HasThread(c)' <=> HasThread(c)
          /\ IsLeft(c)' <=> IsLeft(c)
          /\ remaining'[c] = remaining[c]
      BY <1>4, ParentOf, NamesAssumption DEF Done, Goto, TypeOK, IInv, HasThread, IsLeft
    <3>2. HasTask(c) => HasTask(c)'
      BY DEF TellParent, HasTask
    <3>3. HasTask(c)' => HasTask(c) \/ remaining[c] # 0
      BY <1>2, ParentOf, NamesAssumption
         DEF TellParent, TypeOK, IInv, Out, Active, HasTask, HasThread, Task
    <3>4. QED
      BY <3>1, <3>2, <3>3 DEF Active
  <2>2. Locking(d)' <=> Locking(d)
    BY NamesAssumption DEF Done, Goto, TypeOK, IInv, Locking
  <2>3. (Task("ascend", d, c) \in pool)' <=> Task("ascend", d, c) \in pool
    BY <1>4 DEF TellParent, Task
  <2>4. QED
    BY <2>1, <2>2, <2>3 DEF Out
<1>5. QED
  BY <1>3, <1>4

\* A task is taken.
LEMMA TakeInv ==
    ASSUME IInv, TypeOK', NEW t \in Threads, Take(t)
    PROVE  IInv'
<1>0. \A d \in Dirs : \A c \in Subdirs[d] : Out(d, c) => remaining[d] # 0
  BY ParentWaits
<1>1. PICK k \in pool :
         /\ pool' = pool \ {k} /\ bu' = [bu EXCEPT ![t] = k.dir]
         /\ pc' = [pc EXCEPT ![t] = IF k.fn = "descend" THEN "open" ELSE "decrement"]
  BY DEF Take, Goto
<1>2. pc[t] = "idle" /\ UNCHANGED <<left, remaining, mutex, alloc, frees, ascended, hung>>
  BY DEF Take
<1>3. k.dir \in Dirs /\ k.by \in Dirs /\ k = Task(k.fn, k.dir, k.by)
  BY DEF IInv, TypeOK, Task
<1> HIDE DEF Take
<1>4. Counted'
  <2>1. ASSUME NEW d \in Dirs, NEW c \in Subdirs[d], d # k.dir \/ c # k.by
        PROVE  Out(d, c)' <=> Out(d, c)
    BY <1>0, <1>1, <1>2, <1>3, <2>1, ParentOf, TreeAssumption, NamesAssumption DEF Goto,
       Task, TypeOK, IInv, Active, HasTask, HasThread, IsLeft, Out, Locking
  <2>2. CASE k.by = k.dir
    <3>1. \A d \in Dirs : \A c \in Subdirs[d] : Out(d, c)' <=> Out(d, c)
      BY <2>1, <2>2, ParentOf
    <3>2. \A d \in Dirs : remaining[d] # 0 => Counting(d)' = Counting(d)
      BY <1>0, <1>1, <1>2, <1>3, <2>2, ParentOf, TreeAssumption, NamesAssumption
         DEF Goto, Task, TypeOK, IInv, TasksAlone, ThreadsAlone, Alone, Active, HasTask,
         HasThread, IsLeft, Counting
    <3>3. QED
      BY <1>2, <3>1, <3>2, SameCount DEF IInv, Counted, CountedAt, NotBack
  <2>3. CASE k.by # k.dir
    <3>1. k = Task("ascend", k.dir, k.by) /\ remaining[k.dir] # 0 /\ k.by \in Subdirs[k.dir]
      BY <1>3, <2>3 DEF IInv, TasksAlone
    <3>2. ASSUME NEW d \in Dirs, d # k.dir PROVE CountedAt(d)'
      <4>1. \A c \in Subdirs[d] : Out(d, c)' <=> Out(d, c)
        BY <2>1, <3>2
      <4>2. Counting(d)' = Counting(d)
        BY <1>0, <1>1, <1>2, <1>3, <3>1, <3>2, ParentOf, TreeAssumption, NamesAssumption
           DEF Goto, Task, TypeOK, IInv, Counting
      <4>3. QED
        BY <1>2, <3>2, <4>1, <4>2, SameCount DEF IInv, Counted
    <3>3. CountedAt(k.dir)'
      <4>1. k.by \in NotBack(k.dir) /\ t \notin Counting(k.dir)
        BY <1>2, <3>1 DEF NotBack, Out, Counting
      <4>2. NotBack(k.dir)' = NotBack(k.dir) \ {k.by}
        <5>1. ~Out(k.dir, k.by)'
          BY <1>0, <1>1, <1>2, <1>3, <3>1, ParentOf, TreeAssumption, NamesAssumption
             DEF Goto, Task, TypeOK, IInv, TasksAlone, ThreadsAlone, Alone, Active,
             HasTask, HasThread, IsLeft, Out, Locking
        <5>2. QED
          BY <1>3, <2>1, <5>1 DEF NotBack
      <4>3. Counting(k.dir)' = Counting(k.dir) \cup {t}
        BY <1>1, <1>2, <3>1 DEF Counting, IInv, TypeOK, Task
      <4>4. Cardinality(NotBack(k.dir))' = Cardinality(NotBack(k.dir)) - 1
        BY <1>3, <4>1, <4>2, Counts, FS_RemoveElement DEF IInv
      <4>5. Cardinality(Counting(k.dir))' = Cardinality(Counting(k.dir)) + 1
        BY <1>3, <4>1, <4>3, Counts, FS_AddElement DEF IInv
      <4>6. QED
        BY <1>2, <1>3, <3>1, <4>4, <4>5, Counts DEF IInv, Counted, CountedAt
    <3>4. QED
      BY <1>3, <3>2, <3>3 DEF Counted
  <2>4. QED
    BY <2>2, <2>3
<1>5. TasksAlone'
  BY <1>0, <1>1, <1>2, <1>3, ParentOf, TreeAssumption, NamesAssumption DEF Goto, Task,
     TypeOK, IInv, TasksAlone, Active, HasTask, HasThread, IsLeft
<1>6. ThreadsAlone'
  BY <1>0, <1>1, <1>2, <1>3, ParentOf, TreeAssumption, NamesAssumption DEF Goto, Task,
     TypeOK, IInv, TasksAlone, ThreadsAlone, Alone, Active, HasTask, HasThread, IsLeft
<1>7. LeftAlone'
  BY <1>0, <1>1, <1>2, <1>3, ParentOf, TreeAssumption, NamesAssumption DEF Goto, Task,
     TypeOK, IInv, LeftAlone, HasTask, HasThread
<1>8. Untouched'
  BY <1>0, <1>1, <1>2, <1>3, ParentOf, TreeAssumption, NamesAssumption DEF Goto, Task,
     TypeOK, IInv, Untouched, Active, HasTask, HasThread, IsLeft, Fresh
<1>9. Allocated'
  BY <1>0, <1>1, <1>2, <1>3, ParentOf, TreeAssumption, NamesAssumption DEF Goto, Task,
     TypeOK, IInv, Allocated
<1>10. Lifetime'
  BY <1>0, <1>1, <1>2, <1>3, ParentOf, TreeAssumption, NamesAssumption DEF Goto, Task,
     TypeOK, IInv, Lifetime, Active, HasTask, HasThread, IsLeft
<1>11. Past'
  BY <1>0, <1>1, <1>2, <1>3, ParentOf, TreeAssumption, NamesAssumption DEF Goto, Task,
     TypeOK, IInv, Past, HasTask, IsLeft, Over
<1>12. QED
  BY <1>4, <1>5, <1>6, <1>7, <1>8, <1>9, <1>10, <1>11 DEF IInv

\* Opendir fails.
LEMMA OpenFailsInv ==
    ASSUME IInv, TypeOK', NEW t \in Threads, OpenFails(t)
    PROVE  IInv'
<1>1. \A d \in Dirs : \A c \in Subdirs[d] : Out(d, c) => remaining[d] # 0
  BY ParentWaits
<1>2. Counted'
  <2>1. \A d \in Dirs : \A c \in Subdirs[d] : Out(d, c)' <=> Out(d, c)
    BY ToldOut DEF OpenFails, IInv, TypeOK
  <2>2. \A d \in Dirs : Counting(d)' = Counting(d)
    BY <1>1, ParentOf, TreeAssumption, NamesAssumption DEF OpenFails, TellParent,
       FreeAll, Done, Goto, Task, TypeOK, IInv, Counting
  <2>3. \A d \in Dirs : remaining'[d] = remaining[d]
    BY <1>1, ParentOf, TreeAssumption, NamesAssumption DEF OpenFails, TellParent,
       FreeAll, Done, Goto, Task, TypeOK, IInv
  <2>4. QED
    BY <2>1, <2>2, <2>3, SameCount DEF IInv, Counted
<1>3. TasksAlone'
  BY <1>1, ParentOf, TreeAssumption, NamesAssumption DEF OpenFails, TellParent, FreeAll,
     Done, Goto, Task, TypeOK, IInv, TasksAlone, ThreadsAlone, Alone, LeftAlone,
     Allocated, Lifetime, Active, HasTask, HasThread, IsLeft, Out, Locking
<1>4. ThreadsAlone'
  BY <1>1, ParentOf, TreeAssumption, NamesAssumption DEF OpenFails, TellParent, FreeAll,
     Done, Goto, Task, TypeOK, IInv, TasksAlone, ThreadsAlone, Alone, LeftAlone,
     Untouched, Allocated, Lifetime, Past, Active, HasTask, HasThread, IsLeft, Over,
     Fresh, Out, Locking
<1>5. LeftAlone'
  BY <1>1, ParentOf, TreeAssumption, NamesAssumption DEF OpenFails, TellParent, FreeAll,
     Done, Goto, Task, TypeOK, IInv, TasksAlone, ThreadsAlone, Alone, LeftAlone,
     Untouched, Lifetime, Active, HasTask, HasThread, IsLeft, Fresh
<1>6. Untouched'
  BY <1>1, ParentOf, TreeAssumption, NamesAssumption DEF OpenFails, TellParent, FreeAll,
     Done, Goto, Task, TypeOK, IInv, ThreadsAlone, Alone, LeftAlone, Untouched, Active,
     HasTask, HasThread, IsLeft, Fresh
<1>7. Allocated'
  BY <1>1, ParentOf, TreeAssumption, NamesAssumption DEF OpenFails, TellParent, FreeAll,
     Done, Goto, Task, TypeOK, IInv, TasksAlone, ThreadsAlone, Alone, LeftAlone,
     Allocated, Lifetime, Active, HasTask, HasThread, IsLeft, Out, Locking
<1>8. Lifetime'
  BY <1>1, ParentOf, TreeAssumption, NamesAssumption DEF OpenFails, TellParent, FreeAll,
     Done, Goto, Task, TypeOK, IInv, TasksAlone, ThreadsAlone, Alone, LeftAlone,
     Allocated, Lifetime, Active, HasTask, HasThread, IsLeft, Out, Locking
<1>9. Past'
  BY <1>1, ParentOf, TreeAssumption, NamesAssumption DEF OpenFails, TellParent, FreeAll,
     Done, Goto, Task, TypeOK, IInv, TasksAlone, ThreadsAlone, Alone, LeftAlone,
     Allocated, Lifetime, Past, Active, HasTask, HasThread, IsLeft, Over, Out, Locking
<1>10. QED
  BY <1>2, <1>3, <1>4, <1>5, <1>6, <1>7, <1>8, <1>9 DEF IInv

\* An entry cannot be examined.
LEMMA StatFailsInv ==
    ASSUME IInv, TypeOK', NEW t \in Threads, StatFails(t)
    PROVE  IInv'
<1>1. \A d \in Dirs : \A c \in Subdirs[d] : Out(d, c) => remaining[d] # 0
  BY ParentWaits
<1>2. Counted'
  <2>1. ASSUME NEW e \in Dirs, NEW c \in Subdirs[e] PROVE Out(e, c)' <=> Out(e, c)
    <3>1. CASE c = bu[t]
      BY <3>1 DEF StatFails, Done, Goto, TypeOK, IInv, Out, Active, HasThread
    <3>2. CASE c # bu[t]
      <4>1. Active(c)' <=> Active(c)
        BY <3>2, ParentOf, NamesAssumption DEF StatFails, Done, Goto, TypeOK, IInv,
           Active, HasTask, HasThread, IsLeft
      <4>2. Locking(e)' <=> Locking(e)
        BY NamesAssumption DEF StatFails, Done, Goto, TypeOK, IInv, Locking
      <4>3. QED
        BY <3>2, <4>1, <4>2 DEF StatFails, Done, Goto, Out
    <3>3. QED
      BY <3>1, <3>2
  <2>2. \A d \in Dirs : Counting(d)' = Counting(d)
    BY <1>1, ParentOf, TreeAssumption, NamesAssumption DEF StatFails, Done, Goto, Task,
       TypeOK, IInv, Counting
  <2>3. \A d \in Dirs : remaining'[d] = remaining[d]
    BY <1>1, ParentOf, TreeAssumption, NamesAssumption DEF StatFails, Done, Goto, Task,
       TypeOK, IInv
  <2>4. QED
    BY <2>1, <2>2, <2>3, SameCount DEF IInv, Counted
<1>3. TasksAlone'
  BY <1>1, ParentOf, TreeAssumption, NamesAssumption DEF StatFails, Done, Goto, Task,
     TypeOK, IInv, TasksAlone, Active, HasTask, HasThread, IsLeft
<1>4. ThreadsAlone'
  BY <1>1, ParentOf, TreeAssumption, NamesAssumption DEF StatFails, Done, Goto, Task,
     TypeOK, IInv, ThreadsAlone, Alone, HasTask
<1>5. LeftAlone'
  BY <1>1, ParentOf, TreeAssumption, NamesAssumption DEF StatFails, Done, Goto, Task,
     TypeOK, IInv, LeftAlone, HasTask, HasThread
<1>6. Untouched'
  BY <1>1, ParentOf, TreeAssumption, NamesAssumption DEF StatFails, Done, Goto, Task,
     TypeOK, IInv, ThreadsAlone, Alone, LeftAlone, Untouched, Active, HasTask,
     HasThread, IsLeft, Fresh
<1>7. Allocated'
  BY <1>1, ParentOf, TreeAssumption, NamesAssumption DEF StatFails, Done, Goto, Task,
     TypeOK, IInv, Allocated
<1>8. Lifetime'
  BY <1>1, ParentOf, TreeAssumption, NamesAssumption DEF StatFails, Done, Goto, Task,
     TypeOK, IInv, ThreadsAlone, Alone, LeftAlone, Lifetime, Active, HasTask, HasThread,
     IsLeft
<1>9. Past'
  BY <1>1, ParentOf, TreeAssumption, NamesAssumption DEF StatFails, Done, Goto, Task,
     TypeOK, IInv, Past, HasTask, IsLeft, Over
<1>10. QED
  BY <1>2, <1>3, <1>4, <1>5, <1>6, <1>7, <1>8, <1>9 DEF IInv

\* The subdirectories are tracked.
LEMMA ScanInv ==
    ASSUME IInv, TypeOK', NEW t \in Threads, Scan(t)
    PROVE  IInv'
<1>1. \A d \in Dirs : \A c \in Subdirs[d] : Out(d, c) => remaining[d] # 0
  BY ParentWaits
<1>2. Counted'
  <2>1. \A d \in Dirs : \A c \in Subdirs[d] : Out(d, c)' <=> Out(d, c)
    BY DEF Scan, Goto, IInv, TypeOK, Out, Active, HasTask, HasThread, IsLeft, Locking
  <2>2. \A d \in Dirs : Counting(d)' = Counting(d)
    BY <1>1, ParentOf, TreeAssumption, NamesAssumption DEF Scan, Goto, Task, TypeOK,
       IInv, Counting
  <2>3. \A d \in Dirs : remaining'[d] = remaining[d]
    BY <1>1, ParentOf, TreeAssumption, NamesAssumption DEF Scan, Goto, Task, TypeOK,
       IInv
  <2>4. QED
    BY <2>1, <2>2, <2>3, SameCount DEF IInv, Counted
<1>3. TasksAlone'
  BY <1>1, ParentOf, TreeAssumption, NamesAssumption DEF Scan, Goto, Task, TypeOK, IInv,
     TasksAlone, Active, HasTask, HasThread, IsLeft
<1>4. ThreadsAlone'
  BY <1>1, ParentOf, TreeAssumption, NamesAssumption DEF Scan, Goto, Task, TypeOK, IInv,
     ThreadsAlone, Alone, HasTask
<1>5. LeftAlone'
  BY <1>1, ParentOf, TreeAssumption, NamesAssumption DEF Scan, Goto, Task, TypeOK, IInv,
     LeftAlone, HasTask, HasThread
<1>6. Untouched'
  BY <1>1, ParentOf, TreeAssumption, NamesAssumption DEF Scan, Goto, Task, TypeOK, IInv,
     ThreadsAlone, Alone, LeftAlone, Untouched, Active, HasTask, HasThread, IsLeft,
     Fresh
<1>7. Allocated'
  BY <1>1, ParentOf, TreeAssumption, NamesAssumption DEF Scan, Goto, Task, TypeOK, IInv,
     Allocated
<1>8. Lifetime'
  BY <1>1, ParentOf, TreeAssumption, NamesAssumption DEF Scan, Goto, Task, TypeOK, IInv,
     Lifetime, Active, HasTask, HasThread, IsLeft
<1>9. Past'
  BY <1>1, ParentOf, TreeAssumption, NamesAssumption DEF Scan, Goto, Task, TypeOK, IInv,
     Past, HasTask, IsLeft, Over
<1>10. QED
  BY <1>2, <1>3, <1>4, <1>5, <1>6, <1>7, <1>8, <1>9 DEF IInv

\* The descend function fails.
LEMMA DescendFailsInv ==
    ASSUME IInv, TypeOK', NEW t \in Threads, DescendFails(t)
    PROVE  IInv'
<1>1. \A d \in Dirs : \A c \in Subdirs[d] : Out(d, c) => remaining[d] # 0
  BY ParentWaits
<1>2. Counted'
  <2>1. ASSUME NEW e \in Dirs, NEW c \in Subdirs[e] PROVE Out(e, c)' <=> Out(e, c)
    <3>1. CASE c = bu[t]
      BY <3>1 DEF DescendFails, Done, Goto, TypeOK, IInv, Out, Active, HasThread
    <3>2. CASE c # bu[t]
      <4>1. Active(c)' <=> Active(c)
        BY <3>2, ParentOf, NamesAssumption DEF DescendFails, Done, Goto, TypeOK, IInv,
           Active, HasTask, HasThread, IsLeft
      <4>2. Locking(e)' <=> Locking(e)
        BY NamesAssumption DEF DescendFails, Done, Goto, TypeOK, IInv, Locking
      <4>3. QED
        BY <3>2, <4>1, <4>2 DEF DescendFails, Done, Goto, Out
    <3>3. QED
      BY <3>1, <3>2
  <2>2. \A d \in Dirs : Counting(d)' = Counting(d)
    BY <1>1, ParentOf, TreeAssumption, NamesAssumption DEF DescendFails, FreeAll, Done,
       Goto, Task, TypeOK, IInv, Counting
  <2>3. \A d \in Dirs : remaining'[d] = remaining[d]
    BY <1>1, ParentOf, TreeAssumption, NamesAssumption DEF DescendFails, FreeAll, Done,
       Goto, Task, TypeOK, IInv
  <2>4. QED
    BY <2>1, <2>2, <2>3, SameCount DEF IInv, Counted
<1>3. TasksAlone'
  BY <1>1, ParentOf, TreeAssumption, NamesAssumption DEF DescendFails, FreeAll, Done,
     Goto, Task, TypeOK, IInv, TasksAlone, Active, HasTask, HasThread, IsLeft
<1>4. ThreadsAlone'
  BY <1>1, ParentOf, TreeAssumption, NamesAssumption DEF DescendFails, FreeAll, Done,
     Goto, Task, TypeOK, IInv, ThreadsAlone, Alone, HasTask
<1>5. LeftAlone'
  BY <1>1, ParentOf, TreeAssumption, NamesAssumption DEF DescendFails, FreeAll, Done,
     Goto, Task, TypeOK, IInv, LeftAlone, HasTask, HasThread
<1>6. Untouched'
  BY <1>1, ParentOf, TreeAssumption, NamesAssumption DEF DescendFails, FreeAll, Done,
     Goto, Task, TypeOK, IInv, TasksAlone, ThreadsAlone, Alone, LeftAlone, Untouched,
     Allocated, Lifetime, Active, HasTask, HasThread, IsLeft, Fresh
<1>7. Allocated'
  BY <1>1, ParentOf, TreeAssumption, NamesAssumption DEF DescendFails, FreeAll, Done,
     Goto, Task, TypeOK, IInv, Allocated
<1>8. Lifetime'
  BY <1>1, ParentOf, TreeAssumption, NamesAssumption DEF DescendFails, FreeAll, Done,
     Goto, Task, TypeOK, IInv, TasksAlone, ThreadsAlone, Alone, LeftAlone, Untouched,
     Lifetime, Active, HasTask, HasThread, IsLeft, Fresh
<1>9. Past'
  BY <1>1, ParentOf, TreeAssumption, NamesAssumption DEF DescendFails, FreeAll, Done,
     Goto, Task, TypeOK, IInv, Past, HasTask, IsLeft, Over
<1>10. QED
  BY <1>2, <1>3, <1>4, <1>5, <1>6, <1>7, <1>8, <1>9 DEF IInv

\* The subdirectories are counted.
LEMMA GoDownInv ==
    ASSUME IInv, TypeOK', NEW t \in Threads, GoDown(t)
    PROVE  IInv'
<1>0. PICK d \in Dirs : bu[t] = d
  BY DEF GoDown, IInv, TypeOK
<1>1. \A e \in Dirs : \A c \in Subdirs[e] : Out(e, c) => remaining[e] # 0
  BY ParentWaits
<1>2. remaining' = [remaining EXCEPT ![d] = Cardinality(Subdirs[d])]
  BY <1>0 DEF GoDown, IInv, TypeOK
<1>3. Cardinality(Subdirs[d]) \in Nat \ {0}
  BY <1>0, <1>2, Counts, FS_EmptySet DEF GoDown, IInv
<1>4. remaining[d] = 0 /\ Alone(t) /\ \A c \in Subdirs[d] : ~Active(c)
  BY <1>0 DEF GoDown, IInv, ThreadsAlone, Untouched
<1>5. Counted'
  <2>1. ASSUME NEW e \in Dirs, e # d PROVE CountedAt(e)'
    <3>1. \A c \in Subdirs[e] : Out(e, c)' <=> Out(e, c)
      BY <1>0, <1>2, <1>3, <1>4, <2>1, <1>1, ParentOf, TreeAssumption, NamesAssumption
         DEF GoDown, Goto, Task, TypeOK, IInv, Active, HasTask, HasThread, IsLeft, Out,
         Locking
    <3>2. Counting(e)' = Counting(e) /\ remaining'[e] = remaining[e]
      BY <1>0, <1>2, <1>3, <1>4, <2>1, <1>1, ParentOf, TreeAssumption, NamesAssumption
         DEF GoDown, Goto, Task, TypeOK, IInv, Counting
    <3>3. QED
      BY <2>1, <3>1, <3>2, SameCount DEF IInv, Counted
  <2>2. CountedAt(d)'
    <3>1. NotBack(d)' = Subdirs[d]
      BY <1>0, <1>2 DEF GoDown, Goto, Task, TypeOK, IInv, TasksAlone, ThreadsAlone,
         Alone, LeftAlone, Allocated, Lifetime, Active, HasTask, HasThread, IsLeft,
         NotBack, Out, Locking
    <3>2. Counting(d)' = {}
      BY <1>0, <1>2, <1>4 DEF GoDown, Goto, Task, TypeOK, IInv, ThreadsAlone, Alone,
         HasTask, Counting
    <3>3. QED
      BY <1>0, <1>2, <1>3, <3>1, <3>2, FS_EmptySet DEF IInv, TypeOK, CountedAt
  <2>3. QED
    BY <2>1, <2>2 DEF Counted
<1>6. TasksAlone'
  BY <1>0, <1>2, <1>3, <1>4, <1>1, ParentOf, TreeAssumption, NamesAssumption DEF GoDown,
     Goto, Task, TypeOK, IInv, TasksAlone, Active, HasTask, HasThread, IsLeft
<1>7. ThreadsAlone'
  BY <1>0, <1>2, <1>3, <1>4, <1>1, ParentOf, TreeAssumption, NamesAssumption DEF GoDown,
     Goto, Task, TypeOK, IInv, ThreadsAlone, Alone, HasTask
<1>8. LeftAlone'
  BY <1>0, <1>2, <1>3, <1>4, <1>1, ParentOf, TreeAssumption, NamesAssumption DEF GoDown,
     Goto, Task, TypeOK, IInv, LeftAlone, HasTask, HasThread
<1>9. Untouched'
  BY <1>0, <1>2, <1>3, <1>4, <1>1, ParentOf, TreeAssumption, NamesAssumption DEF GoDown,
     Goto, Task, TypeOK, IInv, Untouched, Active, HasTask, HasThread, IsLeft, Fresh
<1>10. Allocated'
  BY <1>0, <1>2, <1>3, <1>4, <1>1, ParentOf, TreeAssumption, NamesAssumption DEF GoDown,
     Goto, Task, TypeOK, IInv, Allocated
<1>11. Lifetime'
  BY <1>0, <1>2, <1>3, <1>4, <1>1, ParentOf, TreeAssumption, NamesAssumption DEF GoDown,
     Goto, Task, TypeOK, IInv, Lifetime, Active, HasTask, HasThread, IsLeft
<1>12. Past'
  BY <1>0, <1>2, <1>3, <1>4, <1>1, ParentOf, TreeAssumption, NamesAssumption DEF GoDown,
     Goto, Task, TypeOK, IInv, Past, HasTask, IsLeft, Over
<1>13. QED
  BY <1>5, <1>6, <1>7, <1>8, <1>9, <1>10, <1>11, <1>12 DEF IInv

\* There is nothing to wait for.
LEMMA StartUpInv ==
    ASSUME IInv, TypeOK', NEW t \in Threads, StartUp(t)
    PROVE  IInv'
<1>1. \A d \in Dirs : \A c \in Subdirs[d] : Out(d, c) => remaining[d] # 0
  BY ParentWaits
<1>2. Counted'
  <2>1. \A d \in Dirs : \A c \in Subdirs[d] : Out(d, c)' <=> Out(d, c)
    <3>1. \A c \in Dirs : Active(c)' <=> Active(c)
      <4>1. \A c : HasTask(c)' <=> HasTask(c) \/ c = bu[t]
        BY NewTask DEF StartUp
      <4>2. QED
        BY <4>1, NamesAssumption
           DEF StartUp, Done, Goto, TypeOK, IInv, ThreadsAlone, Active, HasThread, IsLeft
    <3>2. \A d \in Dirs : Locking(d)' <=> Locking(d)
      BY NamesAssumption DEF StartUp, Done, Goto, TypeOK, IInv, Locking
    <3>3. \A d \in Dirs : \A c \in Subdirs[d] :
             (Task("ascend", d, c) \in pool)' <=> Task("ascend", d, c) \in pool
      BY ParentOf DEF StartUp, Task
    <3>4. QED
      BY <3>1, <3>2, <3>3, ParentOf DEF StartUp, Out
  <2>2. \A d \in Dirs : Counting(d)' = Counting(d)
    BY <1>1, ParentOf, TreeAssumption, NamesAssumption DEF StartUp, Done, Goto, Task,
       TypeOK, IInv, Counting
  <2>3. \A d \in Dirs : remaining'[d] = remaining[d]
    BY <1>1, ParentOf, TreeAssumption, NamesAssumption DEF StartUp, Done, Goto, Task,
       TypeOK, IInv, ThreadsAlone, Alone, HasTask
  <2>4. QED
    BY <2>1, <2>2, <2>3, SameCount DEF IInv, Counted
<1>3. TasksAlone'
  BY <1>1, ParentOf, TreeAssumption, NamesAssumption DEF StartUp, Done, Goto, Task,
     TypeOK, IInv, TasksAlone, ThreadsAlone, Alone, Active, HasTask, HasThread, IsLeft
<1>4. ThreadsAlone'
  BY <1>1, ParentOf, TreeAssumption, NamesAssumption DEF StartUp, Done, Goto, Task,
     TypeOK, IInv, ThreadsAlone, Alone, HasTask
<1>5. LeftAlone'
  BY <1>1, ParentOf, TreeAssumption, NamesAssumption DEF StartUp, Done, Goto, Task,
     TypeOK, IInv, LeftAlone, HasTask, HasThread
<1>6. Untouched'
  BY <1>1, ParentOf, TreeAssumption, NamesAssumption DEF StartUp, Done, Goto, Task,
     TypeOK, IInv, Untouched, Active, HasTask, HasThread, IsLeft, Fresh
<1>7. Allocated'
  BY <1>1, ParentOf, TreeAssumption, NamesAssumption DEF StartUp, Done, Goto, Task,
     TypeOK, IInv, Allocated
<1>8. Lifetime'
  BY <1>1, ParentOf, TreeAssumption, NamesAssumption DEF StartUp, Done, Goto, Task,
     TypeOK, IInv, Lifetime, Active, HasTask, HasThread, IsLeft
<1>9. Past'
  BY <1>1, ParentOf, TreeAssumption, NamesAssumption DEF StartUp, Done, Goto, Task,
     TypeOK, IInv, Past, HasTask, IsLeft, Over
<1>10. QED
  BY <1>2, <1>3, <1>4, <1>5, <1>6, <1>7, <1>8, <1>9 DEF IInv

\* The mutex is locked.
LEMMA LockRefsInv ==
    ASSUME IInv, TypeOK', NEW t \in Threads, LockRefs(t)
    PROVE  IInv'
<1>1. \A d \in Dirs : \A c \in Subdirs[d] : Out(d, c) => remaining[d] # 0
  BY ParentWaits
<1>2. Counted'
  <2>1. ASSUME NEW d \in Dirs, NEW c \in Subdirs[d] PROVE Out(d, c)' <=> Out(d, c)
    <3>1. CASE d = bu[t]
      BY <3>1 DEF LockRefs, TypeOK, IInv, Out, Active, IsLeft, Locking
    <3>2. CASE d # bu[t]
      <4>1. c \notin Subdirs[bu[t]]
        BY <3>2, TreeAssumption DEF LockRefs, TypeOK, IInv
      <4>2. Active(c)' <=> Active(c)
        BY <4>1 DEF LockRefs, TypeOK, IInv, LeftAlone, Active, HasTask, HasThread,
           IsLeft
      <4>3. Locking(d)' <=> Locking(d)
        BY <3>2 DEF LockRefs, Goto, TypeOK, IInv, Locking
      <4>4. QED
        BY <4>2, <4>3 DEF LockRefs, Out
    <3>3. QED
      BY <3>1, <3>2
  <2>2. \A d \in Dirs : Counting(d)' = Counting(d)
    BY <1>1, ParentOf, TreeAssumption, NamesAssumption DEF LockRefs, Goto, Task, TypeOK,
       IInv, Counting
  <2>3. \A d \in Dirs : remaining'[d] = remaining[d]
    BY <1>1, ParentOf, TreeAssumption, NamesAssumption DEF LockRefs, Goto, Task, TypeOK,
       IInv
  <2>4. QED
    BY <2>1, <2>2, <2>3, SameCount DEF IInv, Counted
<1>3. TasksAlone'
  BY <1>1, ParentOf, TreeAssumption, NamesAssumption DEF LockRefs, Goto, Task, TypeOK,
     IInv, TasksAlone, ThreadsAlone, Alone, Active, HasTask, HasThread, IsLeft
<1>4. ThreadsAlone'
  BY <1>1, ParentOf, TreeAssumption, NamesAssumption DEF LockRefs, Goto, Task, TypeOK,
     IInv, ThreadsAlone, Alone, HasTask
<1>5. LeftAlone'
  BY <1>1, ParentOf, TreeAssumption, NamesAssumption DEF LockRefs, Goto, Task, TypeOK,
     IInv, TasksAlone, ThreadsAlone, Alone, LeftAlone, Untouched, Lifetime, Active,
     HasTask, HasThread, IsLeft, Fresh
<1>6. Untouched'
  BY <1>1, ParentOf, TreeAssumption, NamesAssumption DEF LockRefs, Goto, Task, TypeOK,
     IInv, TasksAlone, ThreadsAlone, Alone, LeftAlone, Untouched, Allocated, Lifetime,
     Active, HasTask, HasThread, IsLeft, Fresh
<1>7. Allocated'
  BY <1>1, ParentOf, TreeAssumption, NamesAssumption DEF LockRefs, Goto, Task, TypeOK,
     IInv, Allocated
<1>8. Lifetime'
  BY <1>1, ParentOf, TreeAssumption, NamesAssumption DEF LockRefs, Goto, Task, TypeOK,
     IInv, TasksAlone, ThreadsAlone, Alone, LeftAlone, Untouched, Allocated, Lifetime,
     Past, Active, HasTask, HasThread, IsLeft, Over, Fresh, Out, Locking
<1>9. Past'
  BY <1>1, ParentOf, TreeAssumption, NamesAssumption DEF LockRefs, Goto, Task, TypeOK,
     IInv, TasksAlone, ThreadsAlone, Alone, LeftAlone, Untouched, Lifetime, Past,
     Active, HasTask, HasThread, IsLeft, Over, Fresh
<1>10. QED
  BY <1>2, <1>3, <1>4, <1>5, <1>6, <1>7, <1>8, <1>9 DEF IInv

\* A subdirectory is enqueued.
LEMMA EnqueueChildInv ==
    ASSUME IInv, TypeOK', NEW t \in Threads, EnqueueChild(t)
    PROVE  IInv'
<1>1. \A d \in Dirs : \A c \in Subdirs[d] : Out(d, c) => remaining[d] # 0
  BY ParentWaits
<1>2. Counted'
  <2>1. \A d \in Dirs : \A c \in Subdirs[d] : Out(d, c)' <=> Out(d, c)
    <3>1. \A c \in Dirs : Active(c)' <=> Active(c)
      <4>1. PICK c \in left[t] : /\ pool' = pool \cup {Task("descend", c, c)}
                                 /\ left' = [left EXCEPT ![t] = @ \ {c}]
        BY DEF EnqueueChild
      <4>2. \A e : HasTask(e)' <=> HasTask(e) \/ e = c
        BY <4>1, NewTask
      <4>3. QED
        BY <4>1, <4>2 DEF EnqueueChild, TypeOK, IInv, Active, HasThread, IsLeft
    <3>2. \A d, c \in Dirs :
             (Task("ascend", d, c) \in pool)' <=> Task("ascend", d, c) \in pool
      BY DEF EnqueueChild, Task
    <3>3. QED
      BY <3>1, <3>2, ParentOf DEF EnqueueChild, Out, Locking
  <2>2. \A d \in Dirs : Counting(d)' = Counting(d)
    BY <1>1, ParentOf, TreeAssumption, NamesAssumption DEF EnqueueChild, Task, TypeOK,
       IInv, Counting
  <2>3. \A d \in Dirs : remaining'[d] = remaining[d]
    BY <1>1, ParentOf, TreeAssumption, NamesAssumption DEF EnqueueChild, Task, TypeOK,
       IInv
  <2>4. QED
    BY <2>1, <2>2, <2>3, SameCount DEF IInv, Counted
<1>3. TasksAlone'
  BY <1>1, ParentOf, TreeAssumption, NamesAssumption DEF EnqueueChild, Task, TypeOK,
     IInv, TasksAlone, ThreadsAlone, Alone, LeftAlone, Active, HasTask, HasThread,
     IsLeft
<1>4. ThreadsAlone'
  BY <1>1, ParentOf, TreeAssumption, NamesAssumption DEF EnqueueChild, Task, TypeOK,
     IInv, ThreadsAlone, Alone, LeftAlone, Active, HasTask, HasThread, IsLeft
<1>5. LeftAlone'
  BY <1>1, ParentOf, TreeAssumption, NamesAssumption DEF EnqueueChild, Task, TypeOK,
     IInv, ThreadsAlone, Alone, LeftAlone, HasTask, HasThread
<1>6. Untouched'
  BY <1>1, ParentOf, TreeAssumption, NamesAssumption DEF EnqueueChild, Task, TypeOK,
     IInv, Untouched, Active, HasTask, HasThread, IsLeft, Fresh
<1>7. Allocated'
  BY <1>1, ParentOf, TreeAssumption, NamesAssumption DEF EnqueueChild, Task, TypeOK,
     IInv, Allocated
<1>8. Lifetime'
  BY <1>1, ParentOf, TreeAssumption, NamesAssumption DEF EnqueueChild, Task, TypeOK,
     IInv, Lifetime, Active, HasTask, HasThread, IsLeft
<1>9. Past'
  BY <1>1, ParentOf, TreeAssumption, NamesAssumption DEF EnqueueChild, Task, TypeOK,
     IInv, Past, HasTask, IsLeft, Over
<1>10. QED
  BY <1>2, <1>3, <1>4, <1>5, <1>6, <1>7, <1>8, <1>9 DEF IInv

\* The mutex is unlocked.
LEMMA UnlockRefsInv ==
    ASSUME IInv, TypeOK', NEW t \in Threads, UnlockRefs(t)
    PROVE  IInv'
<1>1. \A d \in Dirs : \A c \in Subdirs[d] : Out(d, c) => remaining[d] # 0
  BY ParentWaits
<1>2. Counted'
  <2>1. \A d \in Dirs : \A c \in Subdirs[d] : Out(d, c)' <=> Out(d, c)
    BY <1>1, ParentOf, NamesAssumption DEF UnlockRefs, Done, Goto, IInv, TypeOK,
       ThreadsAlone, Out, Active, HasTask, HasThread, IsLeft, Locking
  <2>2. \A d \in Dirs : Counting(d)' = Counting(d)
    BY <1>1, ParentOf, TreeAssumption, NamesAssumption DEF UnlockRefs, Done, Goto, Task,
       TypeOK, IInv, Counting
  <2>3. \A d \in Dirs : remaining'[d] = remaining[d]
    BY <1>1, ParentOf, TreeAssumption, NamesAssumption DEF UnlockRefs, Done, Goto, Task,
       TypeOK, IInv
  <2>4. QED
    BY <2>1, <2>2, <2>3, SameCount DEF IInv, Counted
<1>3. TasksAlone'
  BY <1>1, ParentOf, TreeAssumption, NamesAssumption DEF UnlockRefs, Done, Goto, Task,
     TypeOK, IInv, TasksAlone, Active, HasTask, HasThread, IsLeft
<1>4. ThreadsAlone'
  BY <1>1, ParentOf, TreeAssumption, NamesAssumption DEF UnlockRefs, Done, Goto, Task,
     TypeOK, IInv, ThreadsAlone, Alone, HasTask
<1>5. LeftAlone'
  BY <1>1, ParentOf, TreeAssumption, NamesAssumption DEF UnlockRefs, Done, Goto, Task,
     TypeOK, IInv, LeftAlone, HasTask, HasThread
<1>6. Untouched'
  BY <1>1, ParentOf, TreeAssumption, NamesAssumption DEF UnlockRefs, Done, Goto, Task,
     TypeOK, IInv, Untouched, Active, HasTask, HasThread, IsLeft, Fresh
<1>7. Allocated'
  BY <1>1, ParentOf, TreeAssumption, NamesAssumption DEF UnlockRefs, Done, Goto, Task,
     TypeOK, IInv, Allocated
<1>8. Lifetime'
  BY <1>1, ParentOf, TreeAssumption, NamesAssumption DEF UnlockRefs, Done, Goto, Task,
     TypeOK, IInv, ThreadsAlone, Alone, Lifetime, Active, HasTask, HasThread, IsLeft
<1>9. Past'
  BY <1>1, ParentOf, TreeAssumption, NamesAssumption DEF UnlockRefs, Done, Goto, Task,
     TypeOK, IInv, Past, HasTask, IsLeft, Over
<1>10. QED
  BY <1>2, <1>3, <1>4, <1>5, <1>6, <1>7, <1>8, <1>9 DEF IInv

\* A subdirectory is counted.
LEMMA DecrementInv ==
    ASSUME IInv, TypeOK', NEW t \in Threads, Decrement(t)
    PROVE  IInv'
<1>0. PICK d \in Dirs : bu[t] = d
  BY DEF Decrement, IInv, TypeOK
<1>1. \A e \in Dirs : \A c \in Subdirs[e] : Out(e, c) => remaining[e] # 0
  BY ParentWaits
<1>2. pc[t] = "decrement" /\ mutex[d] = Nobody /\ remaining[d] \in Nat
  BY <1>0 DEF Decrement, IInv, TypeOK
<1>3. t \in Counting(d)
  BY <1>0, <1>2 DEF Counting
<1>4. CASE Last(d)
  <2>1. NotBack(d) = {} /\ Counting(d) = {t}
    <3>1. CASE remaining[d] = 0
      <4>1. NotBack(d) = {}
        BY <3>1 DEF IInv, Counted, CountedAt
      <4>2. Counting(d) = {t}
        BY <1>0, <1>2, <3>1 DEF IInv, ThreadsAlone, Counting
      <4>3. QED
        BY <4>1, <4>2
    <3>2. CASE remaining[d] # 0
      <4>1. remaining[d] = 1
        BY <1>2, <1>4, <3>2 DEF Last
      <4>2. Cardinality(Counting(d)) # 0
        BY <1>0, <1>2, <1>3, Counts, FS_EmptySet DEF IInv
      <4>3. Cardinality(Counting(d)) = 1 /\ Cardinality(NotBack(d)) = 0
        BY <3>2, <4>1, <4>2, Counts DEF IInv, Counted, CountedAt
      <4>4. QED
        BY <1>0, <1>2, <1>3, <4>3, Counts, FS_EmptySet, FS_Singleton DEF IInv
    <3>3. QED
      BY <3>1, <3>2
  <2>2. Alone(t)
    BY <1>0, <1>2, <2>1, NamesAssumption DEF Decrement, MinusOne, Last, Done, Goto,
       Task, TypeOK, IInv, TasksAlone, ThreadsAlone, Alone, LeftAlone, Allocated,
       Lifetime, Active, HasTask, HasThread, IsLeft, Counting, NotBack, Out
  <2>3. /\ remaining' = [remaining EXCEPT ![d] = 0] /\ pc' = [pc EXCEPT ![t] = "ascend"]
        /\ UNCHANGED <<pool, bu, left, mutex, alloc, frees, ascended, hung>>
    <3>1. MinusOne(remaining[d]) = 0
      BY <1>2, <1>4 DEF Last, MinusOne
    <3>2. QED
      BY <1>0, <1>4, <3>1 DEF Decrement, Goto
  <2>4. Counted'
    <3>1. \A e \in Dirs : \A c \in Subdirs[e] : Out(e, c)' <=> Out(e, c)
      <4>1. \A c \in Dirs : Active(c)' <=> Active(c)
        BY <1>0, <1>2, <2>3, NamesAssumption DEF TypeOK, IInv, Active, HasTask,
           HasThread, IsLeft
      <4>2. \A e \in Dirs : Locking(e)' <=> Locking(e)
        BY <1>0, <1>2, <2>3, NamesAssumption DEF TypeOK, IInv, Locking
      <4>3. QED
        BY <4>1, <4>2, <2>3, ParentOf DEF Out
    <3>2. ASSUME NEW e \in Dirs, e # d PROVE CountedAt(e)'
      <4>1. Counting(e)' = Counting(e) /\ remaining'[e] = remaining[e]
        BY <1>0, <1>2, <2>3, <3>2 DEF Task, TypeOK, IInv, Counting
      <4>2. QED
        BY <3>1, <3>2, <4>1, SameCount DEF IInv, Counted
    <3>3. CountedAt(d)'
      BY <1>0, <1>2, <2>1, <2>3, <3>1 DEF CountedAt, NotBack, IInv, TypeOK
    <3>4. QED
      BY <3>2, <3>3 DEF Counted
  <2>5. TasksAlone'
    BY <1>0, <1>2, <2>2, <2>3, <1>1, ParentOf, TreeAssumption, NamesAssumption DEF Task,
       TypeOK, IInv, TasksAlone, ThreadsAlone, Alone, Active, HasTask, HasThread, IsLeft
  <2>6. ThreadsAlone'
    BY <1>0, <1>2, <2>2, <2>3, <1>1, ParentOf, TreeAssumption, NamesAssumption DEF Task,
       TypeOK, IInv, ThreadsAlone, Alone, HasTask
  <2>7. LeftAlone'
    BY <1>0, <1>2, <2>2, <2>3, <1>1, ParentOf, TreeAssumption, NamesAssumption DEF Task,
       TypeOK, IInv, LeftAlone, HasTask, HasThread
  <2>8. Untouched'
    BY <1>0, <1>2, <2>2, <2>3, <1>1, ParentOf, TreeAssumption, NamesAssumption DEF Task,
       TypeOK, IInv, Untouched, Active, HasTask, HasThread, IsLeft, Fresh
  <2>9. Allocated'
    BY <1>0, <1>2, <2>2, <2>3, <1>1, ParentOf, TreeAssumption, NamesAssumption DEF Task,
       TypeOK, IInv, Allocated
  <2>10. Lifetime'
    BY <1>0, <1>2, <2>2, <2>3, <1>1, ParentOf, TreeAssumption, NamesAssumption DEF Task,
       TypeOK, IInv, Lifetime, Active, HasTask, HasThread, IsLeft
  <2>11. Past'
    BY <1>0, <1>2, <2>2, <2>3, <1>1, ParentOf, TreeAssumption, NamesAssumption DEF Task,
       TypeOK, IInv, Past, HasTask, IsLeft, Over
  <2>12. QED
    BY <2>4, <2>5, <2>6, <2>7, <2>8, <2>9, <2>10, <2>11 DEF IInv
<1>5. CASE ~Last(d)
  <2>1. /\ remaining' = [remaining EXCEPT ![d] = @ - 1] /\ remaining[d] # 0 /\ remaining'[d] # 0
        /\ pc' = [pc EXCEPT ![t] = "idle"] /\ bu' = [bu EXCEPT ![t] = Nobody]
        /\ UNCHANGED <<pool, left, mutex, alloc, frees, ascended, hung>>
    <3>1. MinusOne(remaining[d]) = remaining[d] - 1 /\ remaining[d] \notin {0, 1}
      BY <1>2, <1>5 DEF Last, MinusOne
    <3>2. QED
      BY <1>0, <1>2, <1>5, <3>1 DEF Decrement, Done, Goto, IInv, TypeOK
  <2>2. Counted'
    <3>1. \A e \in Dirs : \A c \in Subdirs[e] : Out(e, c)' <=> Out(e, c)
      <4>1. \A c \in Dirs : Active(c)' <=> Active(c)
        BY <1>0, <1>2, <2>1, NamesAssumption DEF TypeOK, IInv, Active, HasTask,
           HasThread, IsLeft
      <4>2. \A e \in Dirs : Locking(e)' <=> Locking(e)
        BY <1>0, <1>2, <2>1, NamesAssumption DEF TypeOK, IInv, Locking
      <4>3. QED
        BY <4>1, <4>2, <2>1, ParentOf DEF Out
    <3>2. ASSUME NEW e \in Dirs, e # d PROVE CountedAt(e)'
      <4>1. Counting(e)' = Counting(e) /\ remaining'[e] = remaining[e]
        BY <1>0, <1>2, <2>1, <3>2, NamesAssumption DEF Task, TypeOK, IInv, Counting
      <4>2. QED
        BY <3>1, <3>2, <4>1, SameCount DEF IInv, Counted
    <3>3. CountedAt(d)'
      <4>1. Counting(d)' = Counting(d) \ {t}
        BY <1>0, <1>2, <2>1 DEF Counting, IInv, TypeOK
      <4>2. Cardinality(Counting(d))' = Cardinality(Counting(d)) - 1
        <5>1. IsFiniteSet(Counting(d)) /\ t \in Counting(d)
          BY <1>0, <1>2, <1>3, Counts DEF IInv
        <5>2. QED
          BY <4>1, <5>1, FS_RemoveElement
      <4>3. NotBack(d)' = NotBack(d)
        BY <1>0, <1>2, <3>1 DEF NotBack
      <4>4. QED
        BY <1>0, <1>2, <2>1, <4>2, <4>3, Counts DEF CountedAt, Counted, IInv, TypeOK
    <3>4. QED
      BY <3>2, <3>3 DEF Counted
  <2>3. TasksAlone'
    BY <1>0, <1>2, <2>1, <1>1, ParentOf, TreeAssumption, NamesAssumption DEF Task,
       TypeOK, IInv, TasksAlone, Active, HasTask, HasThread, IsLeft
  <2>4. ThreadsAlone'
    BY <1>0, <1>2, <2>1, <1>1, ParentOf, TreeAssumption, NamesAssumption DEF Task,
       TypeOK, IInv, ThreadsAlone, Alone, HasTask
  <2>5. LeftAlone'
    BY <1>0, <1>2, <2>1, <1>1, ParentOf, TreeAssumption, NamesAssumption DEF Task,
       TypeOK, IInv, LeftAlone, HasTask, HasThread
  <2>6. Untouched'
    BY <1>0, <1>2, <2>1, <1>1, ParentOf, TreeAssumption, NamesAssumption DEF Task,
       TypeOK, IInv, Untouched, Active, HasTask, HasThread, IsLeft, Fresh
  <2>7. Allocated'
    BY <1>0, <1>2, <2>1, <1>1, ParentOf, TreeAssumption, NamesAssumption DEF Task,
       TypeOK, IInv, Allocated
  <2>8. Lifetime'
    BY <1>0, <1>2, <2>1, <1>1, ParentOf, TreeAssumption, NamesAssumption DEF Task,
       TypeOK, IInv, Lifetime, Active, HasTask, HasThread, IsLeft
  <2>9. Past'
    BY <1>0, <1>2, <2>1, <1>1, ParentOf, TreeAssumption, NamesAssumption DEF Task,
       TypeOK, IInv, Past, HasTask, IsLeft, Over
  <2>10. QED
    BY <2>2, <2>3, <2>4, <2>5, <2>6, <2>7, <2>8, <2>9 DEF IInv
<1>6. QED
  BY <1>4, <1>5

\* The directory ascends.
LEMMA AscendInv ==
    ASSUME IInv, TypeOK', NEW t \in Threads, Ascend(t)
    PROVE  IInv'
<1>1. \A d \in Dirs : \A c \in Subdirs[d] : Out(d, c) => remaining[d] # 0
  BY ParentWaits
<1>2. Counted'
  <2>1. \A d \in Dirs : \A c \in Subdirs[d] : Out(d, c)' <=> Out(d, c)
    BY DEF Ascend, Goto, IInv, TypeOK, Out, Active, HasTask, HasThread, IsLeft, Locking
  <2>2. \A d \in Dirs : Counting(d)' = Counting(d)
    BY <1>1, ParentOf, TreeAssumption, NamesAssumption DEF Ascend, Goto, Task, TypeOK,
       IInv, Counting
  <2>3. \A d \in Dirs : remaining'[d] = remaining[d]
    BY <1>1, ParentOf, TreeAssumption, NamesAssumption DEF Ascend, Goto, Task, TypeOK,
       IInv
  <2>4. QED
    BY <2>1, <2>2, <2>3, SameCount DEF IInv, Counted
<1>3. TasksAlone'
  BY <1>1, ParentOf, TreeAssumption, NamesAssumption DEF Ascend, Goto, Task, TypeOK,
     IInv, TasksAlone, Active, HasTask, HasThread, IsLeft
<1>4. ThreadsAlone'
  BY <1>1, ParentOf, TreeAssumption, NamesAssumption DEF Ascend, Goto, Task, TypeOK,
     IInv, ThreadsAlone, Alone, HasTask
<1>5. LeftAlone'
  BY <1>1, ParentOf, TreeAssumption, NamesAssumption DEF Ascend, Goto, Task, TypeOK,
     IInv, LeftAlone, HasTask, HasThread
<1>6. Untouched'
  BY <1>1, ParentOf, TreeAssumption, NamesAssumption DEF Ascend, Goto, Task, TypeOK,
     IInv, ThreadsAlone, Alone, LeftAlone, Untouched, Active, HasTask, HasThread,
     IsLeft, Fresh
<1>7. Allocated'
  BY <1>1, ParentOf, TreeAssumption, NamesAssumption DEF Ascend, Goto, Task, TypeOK,
     IInv, Allocated
<1>8. Lifetime'
  BY <1>1, ParentOf, TreeAssumption, NamesAssumption DEF Ascend, Goto, Task, TypeOK,
     IInv, Lifetime, Active, HasTask, HasThread, IsLeft
<1>9. Past'
  BY <1>1, ParentOf, TreeAssumption, NamesAssumption DEF Ascend, Goto, Task, TypeOK,
     IInv, ThreadsAlone, Alone, LeftAlone, Past, Active, HasTask, HasThread, IsLeft,
     Over
<1>10. QED
  BY <1>2, <1>3, <1>4, <1>5, <1>6, <1>7, <1>8, <1>9 DEF IInv

\* The subdirectories are freed.
LEMMA CleanupInv ==
    ASSUME IInv, TypeOK', NEW t \in Threads, Cleanup(t)
    PROVE  IInv'
<1>1. \A d \in Dirs : \A c \in Subdirs[d] : Out(d, c) => remaining[d] # 0
  BY ParentWaits
<1>0. PICK d \in Dirs : /\ bu[t] = d
                         /\ frees' = [c \in Dirs |-> IF c \in Subdirs[d] THEN frees[c] + 1 ELSE frees[c]]
  BY DEF Cleanup, Freed, FreeAll, IInv, TypeOK
<1>20. /\ Alone(t) /\ remaining[d] = 0 /\ pc[t] = "cleanup" /\ Subdirs[d] \subseteq alloc /\ d \in alloc
       /\ mutex[d] # Destroyed /\ d \notin hung
       /\ \A c \in Subdirs[d] : ~Active(c) /\ c \notin hung /\ c \in Dirs
  <2>1. /\ Alone(t) /\ remaining[d] = 0 /\ pc[t] = "cleanup" /\ Subdirs[d] \subseteq alloc
    BY <1>0 DEF Cleanup, IInv, ThreadsAlone, Allocated
  <2>2. d \in alloc /\ d \notin hung
    BY <1>0 DEF IInv, Lifetime, Active, HasThread
  <2>3. mutex[d] # Destroyed
    BY <1>0, <2>1 DEF IInv, Past, Over
  <2>4. \A c \in Subdirs[d] : ~Active(c) /\ c \notin hung /\ c \in Dirs
    BY <1>1, <2>1, ParentOf DEF Out
  <2>5. QED
    BY <2>1, <2>2, <2>3, <2>4
<1>21. \A c \in Subdirs[d] : frees[c] = 0
  BY <1>20 DEF IInv, Lifetime
<1>22. \A c \in Dirs : Active(c)' <=> Active(c)
  BY DEF Cleanup, Active, HasTask, HasThread, IsLeft
<1>2. Counted'
  <2>1. \A p \in Dirs : \A c \in Subdirs[p] : Out(p, c)' <=> Out(p, c)
    BY DEF Cleanup, Goto, IInv, TypeOK, Out, Active, HasTask, HasThread, IsLeft, Locking
  <2>2. \A p \in Dirs : Counting(p)' = Counting(p)
    BY <1>1, ParentOf, TreeAssumption, NamesAssumption DEF Cleanup, Freed, FreeAll,
       Goto, Task, TypeOK, IInv, Counting
  <2>3. \A p \in Dirs : remaining'[p] = remaining[p]
    BY <1>1, ParentOf, TreeAssumption, NamesAssumption DEF Cleanup, Freed, FreeAll,
       Goto, Task, TypeOK, IInv
  <2>4. QED
    BY <2>1, <2>2, <2>3, SameCount DEF IInv, Counted
<1>3. TasksAlone'
  BY <1>1, ParentOf, TreeAssumption, NamesAssumption DEF Cleanup, Freed, FreeAll, Goto,
     Task, TypeOK, IInv, TasksAlone, Active, HasTask, HasThread, IsLeft
<1>4. ThreadsAlone'
  BY <1>1, ParentOf, TreeAssumption, NamesAssumption DEF Cleanup, Freed, FreeAll, Goto,
     Task, TypeOK, IInv, ThreadsAlone, Alone, HasTask
<1>5. LeftAlone'
  BY <1>1, ParentOf, TreeAssumption, NamesAssumption DEF Cleanup, Freed, FreeAll, Goto,
     Task, TypeOK, IInv, LeftAlone, HasTask, HasThread
<1>6. Untouched'
  <2>1. \A c \in Dirs : Fresh(c) /\ c # d /\ c \notin Subdirs[d] => Fresh(c)'
    BY <1>0 DEF Cleanup, IInv, TypeOK, Fresh
  <2>2. \A c \in Dirs : Active(c) => c \notin Subdirs[d]
    BY <1>20
  <2>3. \A c \in Dirs : c \notin alloc => c # d /\ c \notin Subdirs[d]
    BY <1>20
  <2>4. \A k \in pool : k.dir # d /\ Active(k.dir) /\ k.dir \in Dirs
    BY <1>0, <1>20 DEF IInv, TypeOK, Alone, HasTask, Active
  <2>5. ASSUME NEW u \in Threads
        PROVE  /\ (pc[u] = "open" => Fresh(bu[u]))'
               /\ \A c \in left'[u] : Fresh(c)'
    BY <1>0, <1>20, <2>1, <2>2 DEF Cleanup, Goto, IInv, TypeOK, Untouched, LeftAlone,
       Alone,
       Active, HasThread, IsLeft
  <2>6. ASSUME NEW u \in Threads, (pc[u] \in {"descend", "lock"})'
        PROVE  /\ (ascended[bu[u]] = 0 /\ mutex[bu[u]] = Nobody)'
               /\ \A c \in Subdirs[bu'[u]] : Fresh(c)' /\ ~Active(c)'
    <3>1. /\ pc[u] \in {"descend", "lock"} /\ u # t /\ bu[u] \in Dirs /\ bu'[u] = bu[u]
          /\ bu[u] # d
      BY <1>0, <1>20, <2>6 DEF Cleanup, Goto, IInv, TypeOK, Alone
    <3>2. (ascended[bu[u]] = 0 /\ mutex[bu[u]] = Nobody)'
      BY <1>0, <3>1 DEF Cleanup, IInv, TypeOK, Untouched
    <3>3. \A c \in Subdirs[bu[u]] : Fresh(c) /\ ~Active(c) /\ c \in Dirs /\ c \notin Subdirs[d]
      BY <3>1, TreeAssumption DEF IInv, Untouched
    <3>4. Active(d)
      BY <1>0 DEF Active, HasThread
    <3>5. QED
      BY <1>22, <2>1, <3>1, <3>2, <3>3, <3>4
  <2>7. QED
    BY <1>22, <2>1, <2>2, <2>3, <2>4, <2>5, <2>6 DEF Cleanup, IInv, Untouched
<1>7. Allocated'
  BY <1>1, ParentOf, TreeAssumption, NamesAssumption DEF Cleanup, Freed, FreeAll, Goto,
     Task, TypeOK, IInv, Allocated
<1>8. Lifetime'
  <2>1. \A c \in Dirs : frees'[c] = IF c \in Subdirs[d] THEN 1 ELSE frees[c]
    BY <1>0, <1>21
  <2>2. \A c \in Dirs : mutex'[c] = IF c = d THEN Destroyed ELSE mutex[c]
    BY <1>0 DEF Cleanup, IInv, TypeOK
  <2>3. \A c \in Dirs : frees'[c] <= 1
    BY <2>1 DEF IInv, Lifetime
  <2>4. QED
    BY <1>20, <1>22, <2>1, <2>2, <2>3, TreeAssumption DEF Cleanup, IInv, Lifetime
<1>9. Past'
  BY <1>1, ParentOf, TreeAssumption, NamesAssumption DEF Cleanup, Freed, FreeAll, Goto,
     Task, TypeOK, IInv, ThreadsAlone, Alone, LeftAlone, Past, Active, HasTask,
     HasThread, IsLeft, Over
<1>10. QED
  BY <1>2, <1>3, <1>4, <1>5, <1>6, <1>7, <1>8, <1>9 DEF IInv

\* The parent is told.
LEMMA GoUpInv ==
    ASSUME IInv, TypeOK', NEW t \in Threads, GoUp(t)
    PROVE  IInv'
<1>1. \A d \in Dirs : \A c \in Subdirs[d] : Out(d, c) => remaining[d] # 0
  BY ParentWaits
<1>2. Counted'
  <2>1. \A d \in Dirs : \A c \in Subdirs[d] : Out(d, c)' <=> Out(d, c)
    BY ToldOut DEF GoUp, IInv, TypeOK
  <2>2. \A d \in Dirs : Counting(d)' = Counting(d)
    BY <1>1, ParentOf, TreeAssumption, NamesAssumption DEF GoUp, TellParent, FreeAll,
       Done, Goto, Task, TypeOK, IInv, Counting
  <2>3. \A d \in Dirs : remaining'[d] = remaining[d]
    BY <1>1, ParentOf, TreeAssumption, NamesAssumption DEF GoUp, TellParent, FreeAll,
       Done, Goto, Task, TypeOK, IInv
  <2>4. QED
    BY <2>1, <2>2, <2>3, SameCount DEF IInv, Counted
<1>3. TasksAlone'
  BY <1>1, ParentOf, TreeAssumption, NamesAssumption DEF GoUp, TellParent, FreeAll,
     Done, Goto, Task, TypeOK, IInv, TasksAlone, ThreadsAlone, Alone, LeftAlone,
     Allocated, Lifetime, Active, HasTask, HasThread, IsLeft, Out, Locking
<1>4. ThreadsAlone'
  BY <1>1, ParentOf, TreeAssumption, NamesAssumption DEF GoUp, TellParent, FreeAll,
     Done, Goto, Task, TypeOK, IInv, TasksAlone, ThreadsAlone, Alone, LeftAlone,
     Untouched, Allocated, Lifetime, Past, Active, HasTask, HasThread, IsLeft, Over,
     Fresh, Out, Locking
<1>5. LeftAlone'
  BY <1>1, ParentOf, TreeAssumption, NamesAssumption DEF GoUp, TellParent, FreeAll,
     Done, Goto, Task, TypeOK, IInv, TasksAlone, ThreadsAlone, Alone, LeftAlone,
     Untouched, Lifetime, Active, HasTask, HasThread, IsLeft, Fresh
<1>6. Untouched'
  BY <1>1, ParentOf, TreeAssumption, NamesAssumption DEF GoUp, TellParent, FreeAll,
     Done, Goto, Task, TypeOK, IInv, ThreadsAlone, Alone, LeftAlone, Untouched, Active,
     HasTask, HasThread, IsLeft, Fresh
<1>7. Allocated'
  BY <1>1, ParentOf, TreeAssumption, NamesAssumption DEF GoUp, TellParent, FreeAll,
     Done, Goto, Task, TypeOK, IInv, TasksAlone, ThreadsAlone, Alone, LeftAlone,
     Allocated, Lifetime, Active, HasTask, HasThread, IsLeft, Out, Locking
<1>8. Lifetime'
  BY <1>1, ParentOf, TreeAssumption, NamesAssumption DEF GoUp, TellParent, FreeAll,
     Done, Goto, Task, TypeOK, IInv, TasksAlone, ThreadsAlone, Alone, LeftAlone,
     Allocated, Lifetime, Active, HasTask, HasThread, IsLeft, Out, Locking
<1>9. Past'
  BY <1>1, ParentOf, TreeAssumption, NamesAssumption DEF GoUp, TellParent, FreeAll,
     Done, Goto, Task, TypeOK, IInv, TasksAlone, ThreadsAlone, Alone, LeftAlone,
     Allocated, Lifetime, Past, Active, HasTask, HasThread, IsLeft, Over, Out, Locking
<1>10. QED
  BY <1>2, <1>3, <1>4, <1>5, <1>6, <1>7, <1>8, <1>9 DEF IInv

LEMMA NextInv == IInv /\ [Next]_vars => IInv'
<1>1. SUFFICES ASSUME IInv, [Next]_vars PROVE IInv'
  OBVIOUS
<1>2. TypeOK'
  BY <1>1, NextType DEF IInv
<1>3. ASSUME NEW t \in Threads, Steps(t) PROVE IInv'
  BY <1>1, <1>2, <1>3, TakeInv, OpenFailsInv, StatFailsInv, ScanInv, DescendFailsInv,
     GoDownInv, StartUpInv, LockRefsInv, EnqueueChildInv, UnlockRefsInv, DecrementInv,
     AscendInv, CleanupInv, GoUpInv
     DEF Steps
<1>4. CASE UNCHANGED vars
  <2>1. Counted'
    BY <1>1, <1>4 DEF vars, IInv, Counted, CountedAt, NotBack, Out, Locking, Counting,
       Active, HasTask, HasThread, IsLeft
  <2>2. TasksAlone' /\ ThreadsAlone' /\ LeftAlone'
    BY <1>1, <1>4 DEF vars, IInv, TasksAlone, ThreadsAlone, LeftAlone, Alone,
       Active, HasTask, HasThread, IsLeft
  <2>3. Untouched' /\ Allocated'
    BY <1>1, <1>4 DEF vars, IInv, Untouched, Fresh, Allocated, Active, HasTask,
       HasThread, IsLeft
  <2>4. Lifetime' /\ Past'
    BY <1>1, <1>4 DEF vars, IInv, Lifetime, Past, Over, Active, HasTask, HasThread,
       IsLeft
  <2>5. QED
    BY <1>2, <2>1, <2>2, <2>3, <2>4 DEF IInv
<1>5. QED
  BY <1>1, <1>3, <1>4 DEF Next, Fini

-----------------------------------------------------------------------------
(* What the runs check, for every value of the constants.                  *)

\* The variables hold what the code's types allow (struct BottomUp and the
\* work items of the pool).
THEOREM TypeCorrect == Spec => []TypeOK
<1>1. Init => TypeOK
  BY InitType
<1>2. TypeOK /\ [Next]_vars => TypeOK'
  BY NextType
<1>3. QED
  BY <1>1, <1>2, PTL DEF Spec

\* The count of every directory, and what it implies, always holds.
THEOREM Invariant == Spec => []IInv
<1>1. Init => IInv
  BY InitInv
<1>2. IInv /\ [Next]_vars => IInv'
  BY NextInv
<1>3. QED
  BY <1>1, <1>2, PTL DEF Spec

\* A struct BottomUp is used only between its allocation and its only
\* bottomup_destroy, and refs.mutex only until ascend_to_top destroys it.
THEOREM NeverAfterFree == Spec => []NoUseAfterFree
<1>1. IInv => NoUseAfterFree
  <2>1. SUFFICES ASSUME IInv PROVE NoUseAfterFree
    OBVIOUS
  <2>2. \A d \in Used : d \in Dirs /\ Active(d)
    BY <2>1, NamesAssumption DEF Used, IInv, TypeOK, Active, HasTask, HasThread, IsLeft
  <2>3. ASSUME NEW t \in Threads, pc[t] \in {"lock", "children", "decrement"}
        PROVE  mutex[bu[t]] # Destroyed
    BY <2>1, <2>3, NamesAssumption DEF IInv, TypeOK, Past, Over
  <2>4. QED
    BY <2>1, <2>2, <2>3 DEF NoUseAfterFree, IInv, Lifetime
<1>2. QED
  BY <1>1, Invariant, PTL

\* While a directory ascends, nothing below it is queued or being worked on,
\* and it ascends at most once: what is not active is closed under Subdirs.
THEOREM SubtreeFirst == Spec => []SubtreeIsDone
<1>1. IInv => SubtreeIsDone
  <2>1. SUFFICES ASSUME IInv PROVE SubtreeIsDone
    OBVIOUS
  <2>2. DEFINE Quiet == {x \in Dirs : ~Active(x)}
  <2>3. ASSUME NEW d \in Dirs, remaining[d] = 0 PROVE Subdirs[d] \subseteq Quiet
    BY <2>1, <2>3, ParentOf, ParentWaits DEF Out
  <2>4. Closed(Quiet)
    BY <2>3 DEF Closed, Active
  <2>5. Used \cap Quiet = {}
    BY <2>1, NamesAssumption DEF Used, IInv, TypeOK, Active, HasTask, HasThread, IsLeft
  <2>6. ASSUME NEW t \in Threads, pc[t] \in {"ascend", "cleanup", "up"}
        PROVE  Below[bu[t]] \cap Used = {}
    <3>1. bu[t] \in Dirs /\ remaining[bu[t]] = 0
      BY <2>1, <2>6 DEF IInv, TypeOK, ThreadsAlone
    <3>2. Subdirs[bu[t]] \subseteq Quiet
      BY <2>3, <3>1
    <3>3. Below[bu[t]] \subseteq Quiet
      BY <2>4, <3>1, <3>2 DEF Below
    <3>4. QED
      BY <2>5, <3>3
  <2>7. QED
    BY <2>1, <2>6 DEF SubtreeIsDone, IInv, Past
<1>2. QED
  BY <1>1, Invariant, PTL
=============================================================================
