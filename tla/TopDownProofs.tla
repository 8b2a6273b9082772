--------------------------- MODULE TopDownProofs ----------------------------
(***************************************************************************)
(* Proofs about gufi_rollup_topdown, for every tree and every number of    *)
(* threads: no two threads write to the same staging database, and nobody  *)
(* writes while they are merged; between two runs a rolled-up directory    *)
(* has the rows of everything below it exactly once, whatever threads      *)
(* copied them; and what compute_stats prints is what a query traverses.   *)
(***************************************************************************)
EXTENDS TopDown, FoldTheorems

-----------------------------------------------------------------------------
(* The inductive invariant.                                                *)

\* What the operations on the work items need of the variables' types.
Copying == [what : {"free", "write", "count", "merge"}, top : Dirs \cup {NoDir},
            dir : Dirs \cup {NoDir}, slot : Threads]
ItemTypes ==
    /\ todo \subseteq Dirs \X (Dirs \cup {NoDir})
    /\ tops \in [Threads -> Seq(Dirs)]
    /\ lists \in [Dirs -> [Threads -> Seq(Dirs)]]
    /\ next \in Threads
    /\ queue \in [Threads -> Seq(Copies)]
    /\ busy \in [Threads -> Copying]
    /\ \A t \in Threads : busy[t].what # "free" => busy[t].top \in Dirs
    /\ left \in [Dirs -> Nat]

\* There are copies only after the walk that finds the tops, and tops only
\* until main() has dealt them out.
PhaseInv ==
    /\ phase # "find" => todo = {}
    /\ phase \in {"idle", "find"} =>
           \A t \in Threads : queue[t] = <<>> /\ busy[t].what = "free"
    /\ phase \in {"idle", "stop"} => \A t \in Threads : tops[t] = <<>>

\* A directory and everything below it.
Under(d) ==
    {e \in Dirs : \A S \in SUBSET Dirs : d \in S /\ (\A x \in S : Kids(x) \subseteq S) => e \in S}

\* The directory is to be looked at by the walk, or is a top.
IsFound(d) == Find(d) \in todo \/ \E t \in Threads : \E i \in DOMAIN tops[t] : tops[t][i] = d

\* The walk finds a directory once: nothing it has found is below anything
\* else it has found.
FoundInv ==
    /\ \A t, u \in Threads : \A i \in DOMAIN tops[t] : \A j \in DOMAIN tops[u] :
           tops[t][i] = tops[u][j] => t = u /\ i = j
    /\ \A t \in Threads : \A i \in DOMAIN tops[t] : Find(tops[t][i]) \notin todo
    /\ \A d, e \in Dirs : IsFound(d) /\ IsFound(e) /\ d # e => d \notin Under(e)
    /\ \A d \in Dirs : IsFound(d) => d \in Under(Root)

\* Where the copies of a top are that have not been counted down: at a place
\* in a thread's queue, or, as place 0, in the hands of a thread.
Pending(top) ==
    {x \in Threads \X Nat :
        \/ x[2] = 0 /\ busy[x[1]].what \in {"write", "count"} /\ busy[x[1]].top = top
        \/ x[2] \in DOMAIN queue[x[1]] /\ queue[x[1]][x[2]].top = top}
SlotOf(x) == IF x[2] = 0 THEN busy[x[1]].slot ELSE queue[x[1]][x[2]].slot

\* The copies of a top that have not been made, and of what they are.
Unwritten(top) == {x \in Pending(top) : x[2] = 0 => busy[x[1]].what = "write"}
DirOf(x) == IF x[2] = 0 THEN busy[x[1]].dir ELSE queue[x[1]][x[2]].dir

IsMerged(top) == \E t \in Threads : busy[t].what = "merge" /\ busy[t].top = top

\* *remaining is the number of copies that have yet to be counted down, whoever
\* merges has counted everything down, and the copies that go to the same
\* staging database are all with the same thread.
CountInv(top) ==
    /\ IsFiniteSet(Pending(top)) /\ Cardinality(Pending(top)) = left[top]
    /\ IsMerged(top) => left[top] = 0
SlotInv(top) == \A x, y \in Pending(top) : SlotOf(x) = SlotOf(y) => x[1] = y[1]

\* A top that is being copied or merged is not dealt out again.
OnceInv(top) ==
    Pending(top) # {} \/ IsMerged(top) =>
        \A t \in Threads : \A i \in DOMAIN tops[t] : tops[t][i] # top

IInv ==
    /\ ItemTypes /\ PhaseInv /\ FoundInv
    /\ \A top \in Dirs : CountInv(top) /\ SlotInv(top) /\ OnceInv(top)

-----------------------------------------------------------------------------
(* Dealing round robin.                                                    *)

\* Division with remainder.
LEMMA Division ==
    /\ \A q \in Int : \A r \in 0 .. (N - 1) : (q * N + r) % N = r
    /\ \A n \in Int : n % N \in 0 .. (N - 1) /\ n \div N \in Int /\ n = (n \div N) * N + (n % N)
  <1>1. N \in Nat /\ N > 0
    BY TopDownAssumption
  <1>2. ASSUME NEW q \in Int, NEW r \in 0 .. (N - 1) PROVE (q * N + r) % N = r
    BY <1>1, Z3
  <1>3. ASSUME NEW n \in Int
        PROVE  n % N \in 0 .. (N - 1) /\ n \div N \in Int /\ n = (n \div N) * N + (n % N)
    BY <1>1, Z3
  <1> QED  BY <1>2, <1>3

\* Different multiples of N are at least N apart.
LEMMA Multiples ==
    ASSUME NEW q \in Int, NEW p \in Int, q < p
    PROVE  q * N + N <= p * N
  <1>1. N \in Nat /\ N > 0
    BY TopDownAssumption
  <1> QED  BY <1>1

\* The number of threads between next_queue and t, the other way around.
Offset(t) == (t + N - next) % N

LEMMA OffsetIs ==
    ASSUME next \in Threads
    PROVE  /\ \A t \in Threads : Offset(t) \in 0 .. (N - 1)
           /\ \A t, u \in Threads : Offset(t) = Offset(u) => t = u
  <1>1. N \in Nat /\ N > 0 /\ next \in 0 .. (N - 1)
    BY TopDownAssumption DEF Threads
  <1>2. ASSUME NEW t \in Threads
        PROVE  Offset(t) = IF t >= next THEN t - next ELSE t + N - next
    <2>1. t \in 0 .. (N - 1)
      BY DEF Threads
    <2>2. CASE t >= next
      <3>1. t - next \in 0 .. (N - 1) /\ t + N - next = 1 * N + (t - next)
        BY <1>1, <2>1, <2>2
      <3> QED  BY <2>2, <3>1, Division DEF Offset
    <2>3. CASE ~(t >= next)
      <3>1. t + N - next \in 0 .. (N - 1) /\ t + N - next = 0 * N + (t + N - next)
        BY <1>1, <2>1, <2>3
      <3> QED  BY <2>3, <3>1, Division DEF Offset
    <2> QED  BY <2>2, <2>3
  <1> QED  BY <1>1, <1>2 DEF Threads

\* How many items a thread gets.
LEMMA ShareIs ==
    ASSUME next \in Threads, NEW n \in Nat, NEW t \in Threads
    PROVE  /\ Share(t, n) \in Nat
           /\ Share(t, n) * N <= n + N - (Offset(t) + 1)
           /\ n - (Offset(t) + 1) < Share(t, n) * N
  <1>1. N \in Nat /\ N > 0
    BY TopDownAssumption
  <1>2. ASSUME NEW k \in Int
        PROVE  Dealt(t, k) = (k - 1) * N + Offset(t) + 1 /\ Offset(t) \in 0 .. (N - 1)
    BY <1>1, OffsetIs DEF Dealt, Offset
  <1> DEFINE a == n + N - (Offset(t) + 1)
  <1>3. a \in Nat /\ Dealt(t, 1) = Offset(t) + 1
    BY <1>1, <1>2
  <1>4. Share(t, n) = a \div N
    BY <1>3 DEF Share
  <1>5. a % N \in 0 .. (N - 1) /\ a \div N \in Int /\ a = (a \div N) * N + (a % N)
    BY <1>3, Division
  <1> HIDE DEF a
  <1>6. a \div N < 0 => (a \div N) * N + N <= 0 * N
    BY <1>5, Multiples
  <1>7. a \div N \in Nat
    BY <1>1, <1>3, <1>5, <1>6
  <1>8. (a \div N) * N <= a /\ a - N < (a \div N) * N
    BY <1>1, <1>3, <1>5, <1>7
  <1>9. a - N = n - (Offset(t) + 1)
    BY <1>1, <1>2 DEF a
  <1> QED  BY <1>4, <1>7, <1>8, <1>9 DEF a

\* The items of a thread are items, and no two threads have the same one.
LEMMA DealtIs ==
    ASSUME next \in Threads, NEW n \in Nat
    PROVE  /\ \A t \in Threads : Share(t, n) \in Nat
           /\ \A t \in Threads : \A k \in 1 .. Share(t, n) : Dealt(t, k) \in 1 .. n
           /\ \A t, u \in Threads : \A k, l \in Nat : Dealt(t, k) = Dealt(u, l) => t = u /\ k = l
  <1>1. N \in Nat /\ N > 0
    BY TopDownAssumption
  <1>2. ASSUME NEW t \in Threads, NEW k \in Int
        PROVE  Dealt(t, k) = (k - 1) * N + Offset(t) + 1 /\ Offset(t) \in 0 .. (N - 1)
    BY <1>1, OffsetIs DEF Dealt, Offset
  <1>3. ASSUME NEW t \in Threads
        PROVE  /\ Share(t, n) \in Nat
               /\ Share(t, n) * N <= n + N - (Offset(t) + 1)
    BY ShareIs
  <1>4. ASSUME NEW t \in Threads, NEW k \in 1 .. Share(t, n)
        PROVE  Dealt(t, k) \in 1 .. n
    <2>1. k \in Int /\ 1 <= k /\ k <= Share(t, n) /\ Share(t, n) \in Nat
      BY <1>3
    <2>2. k < Share(t, n) => k * N + N <= Share(t, n) * N
      BY <2>1, Multiples
    <2>3. k * N <= Share(t, n) * N
      BY <1>1, <2>1, <2>2
    <2>4. (k - 1) * N = k * N - N /\ (k - 1) * N >= 0
      BY <1>1, <2>1
    <2>5. Dealt(t, k) = (k * N - N) + Offset(t) + 1 /\ Offset(t) \in 0 .. (N - 1)
      BY <1>2, <2>1, <2>4
    <2> QED  BY <1>1, <1>3, <2>1, <2>3, <2>4, <2>5
  <1>5. ASSUME NEW t \in Threads, NEW u \in Threads, NEW k \in Nat, NEW l \in Nat,
               Dealt(t, k) = Dealt(u, l)
        PROVE  t = u /\ k = l
    <2>0. (k - 1) * N \in Int /\ (l - 1) * N \in Int /\ k \in Int /\ l \in Int
      BY <1>1
    <2>1. (k - 1) * N + Offset(t) = (l - 1) * N + Offset(u)
      <3>1. (k - 1) * N + Offset(t) + 1 = (l - 1) * N + Offset(u) + 1
        BY <1>2, <1>5, <2>0
      <3>2. Offset(t) \in Int /\ Offset(u) \in Int
        BY <1>2, <2>0
      <3> QED  BY <2>0, <3>1, <3>2
    <2>2. k - 1 = l - 1
      <3>1. k - 1 < l - 1 => (k - 1) * N + N <= (l - 1) * N
        BY Multiples
      <3>2. l - 1 < k - 1 => (l - 1) * N + N <= (k - 1) * N
        BY Multiples
      <3>3. Offset(t) \in 0 .. (N - 1) /\ Offset(u) \in 0 .. (N - 1)
        BY <1>2, <2>0
      <3> QED  BY <1>1, <2>0, <2>1, <3>1, <3>2, <3>3
    <2>3. Offset(t) = Offset(u)
      <3>1. Offset(t) \in Int /\ Offset(u) \in Int /\ k = l
        BY <1>2, <2>0, <2>2
      <3> QED  BY <2>0, <2>1, <3>1
    <2> QED  BY <2>2, <2>3, OffsetIs
  <1> QED  BY <1>3, <1>4, <1>5

\* Every item is dealt to a thread.
LEMMA AllDealt ==
    ASSUME next \in Threads, NEW n \in Nat, NEW i \in 1 .. n
    PROVE  \E t \in Threads : \E k \in 1 .. Share(t, n) : Dealt(t, k) = i
  <1>1. N \in Nat /\ N > 0
    BY TopDownAssumption
  <1>2. ASSUME NEW t \in Threads, NEW k \in Int
        PROVE  Dealt(t, k) = (k - 1) * N + Offset(t) + 1 /\ Offset(t) \in 0 .. (N - 1)
    BY <1>1, OffsetIs DEF Dealt, Offset
  <1>3. ASSUME NEW t \in Threads
        PROVE  /\ Share(t, n) \in Nat
               /\ n - (Offset(t) + 1) < Share(t, n) * N
    BY ShareIs
  <1>4. PICK q, r : q = (i - 1) \div N /\ r = (i - 1) % N
    OBVIOUS
  <1>5. q \in Int /\ r \in 0 .. (N - 1) /\ i - 1 = q * N + r
    <2>1. i - 1 \in Int
      OBVIOUS
    <2> QED  BY <1>4, <2>1, Division
  <1>6. q \in Nat
    <2>1. q < 0 => q * N + N <= 0 * N
      BY <1>5, Multiples
    <2> QED  BY <1>1, <1>5, <2>1
  <1>7. PICK t \in Threads : Offset(t) = r
    <2>1. next \in 0 .. (N - 1)
      BY DEF Threads
    <2>2. CASE next + r < N
      <3>1. next + r \in Threads /\ (next + r) + N - next = 1 * N + r
        BY <1>1, <1>5, <2>1, <2>2 DEF Threads
      <3>2. Offset(next + r) = r
        BY <1>5, <3>1, Division DEF Offset
      <3> QED  BY <3>1, <3>2
    <2>3. CASE ~(next + r < N)
      <3>1. next + r - N \in Threads /\ (next + r - N) + N - next = 0 * N + r
        BY <1>1, <1>5, <2>1, <2>3 DEF Threads
      <3>2. Offset(next + r - N) = r
        BY <1>5, <3>1, Division DEF Offset
      <3> QED  BY <3>1, <3>2
    <2> QED  BY <2>2, <2>3
  <1>8. Dealt(t, q + 1) = i
    <2>1. q + 1 \in Int /\ (q + 1) - 1 = q
      BY <1>6
    <2>2. Dealt(t, q + 1) = q * N + r + 1
      BY <1>2, <1>7, <2>1
    <2>3. q * N \in Int /\ i \in Int /\ r \in Int
      BY <1>1, <1>5
    <2> QED  BY <1>5, <2>2, <2>3
  <1>9. q + 1 <= Share(t, n)
    <2>1. Share(t, n) \in Nat /\ n - (r + 1) < Share(t, n) * N
      BY <1>3, <1>7
    <2>2. Share(t, n) < q => Share(t, n) * N + N <= q * N
      BY <1>5, <2>1, Multiples
    <2>3. q * N \in Int /\ Share(t, n) * N \in Int /\ i <= n /\ i \in Int /\ r \in Int
      BY <1>1, <1>5, <2>1
    <2>4. q * N < Share(t, n) * N
      BY <1>5, <2>1, <2>3
    <2>5. Share(t, n) # q
      BY <2>3, <2>4
    <2> QED  BY <1>1, <1>6, <2>1, <2>2, <2>3, <2>4, <2>5
  <1> QED  BY <1>3, <1>6, <1>8, <1>9

\* The item of a place in the list goes to the staging database of that
\* place modulo their number, which is that of the threads, so that the items
\* of one database are the items of one thread.
LEMMA DealtSlot ==
    ASSUME next \in Threads, NEW n \in Nat, NEW t \in Threads, NEW u \in Threads,
           NEW k \in 1 .. Share(t, n), NEW l \in 1 .. Share(u, n)
    PROVE  /\ (Dealt(t, k) - 1) % ThreadsUsed(n) \in Threads
           /\ (Dealt(t, k) - 1) % ThreadsUsed(n) = (Dealt(u, l) - 1) % ThreadsUsed(n) => t = u
  <1>1. N \in Nat /\ N > 0
    BY TopDownAssumption
  <1>2. Dealt(t, k) \in 1 .. n /\ Dealt(u, l) \in 1 .. n
    BY DealtIs
  <1>3. k \in Nat /\ l \in Nat
    BY DealtIs
  <1>4. CASE n < N
    <2>1. ASSUME NEW i \in 1 .. n PROVE (i - 1) % n = i - 1
      BY Z3
    <2>2. ThreadsUsed(n) = n
      BY <1>4 DEF ThreadsUsed
    <2>3. Dealt(t, k) - 1 = Dealt(u, l) - 1 => t = u
      BY <1>2, <1>3, DealtIs
    <2> QED  BY <1>1, <1>2, <1>4, <2>1, <2>2, <2>3 DEF Threads
  <1>5. CASE ~(n < N)
    <2>1. ThreadsUsed(n) = N
      BY <1>5 DEF ThreadsUsed
    <2>2. ASSUME NEW v \in Threads, NEW m \in Nat
          PROVE  (Dealt(v, m) - 1) % N = Offset(v) /\ Offset(v) \in Threads
      <3>1. Offset(v) \in 0 .. (N - 1)
        BY OffsetIs
      <3>2. m - 1 \in Int /\ (m - 1) * N \in Int
        BY <1>1
      <3>3. Dealt(v, m) - 1 = (m - 1) * N + Offset(v)
        BY <1>1, <3>1, <3>2 DEF Dealt, Offset
      <3> QED  BY <3>1, <3>2, <3>3, Division DEF Threads
    <2> QED  BY <1>3, <2>1, <2>2, OffsetIs
  <1> QED  BY <1>4, <1>5

-----------------------------------------------------------------------------
(* The tree.                                                               *)

LEMMA KidsIs ==
    /\ \A d \in Dirs : Kids(d) \subseteq Dirs /\ Root \notin Kids(d)
    /\ \A d, e \in Dirs : \A c \in Kids(d) : c \in Kids(e) => d = e
  <1>1. ASSUME NEW d \in Dirs, NEW c \in Kids(d) PROVE c \in Dirs
    <2>1. Subdirs[d] \in Seq(Dirs)
      BY TreeAssumption
    <2> QED  BY <2>1 DEF Kids, ToSet
  <1>2. \A d, e \in Dirs : \A c \in Kids(d) : c \in Kids(e) => d = e
    BY TreeAssumption, Zenon
  <1> QED  BY <1>1, <1>2, TreeAssumption

LEMMA UnderIs ==
    ASSUME NEW d \in Dirs
    PROVE  /\ d \in Under(d) /\ Under(d) \subseteq Dirs
           /\ \A x \in Under(d) : Kids(x) \subseteq Under(d)
           /\ \A S \in SUBSET Dirs :
                  d \in S /\ (\A x \in S : Kids(x) \subseteq S) => Under(d) \subseteq S
  <1>1. d \in Under(d) /\ Under(d) \subseteq Dirs
    BY DEF Under
  <1>2. ASSUME NEW x \in Under(d), NEW c \in Kids(x) PROVE c \in Under(d)
    <2>1. c \in Dirs
      BY <1>1, KidsIs
    <2> QED  BY <2>1, Zenon DEF Under
  <1>3. ASSUME NEW S \in SUBSET Dirs, d \in S, \A x \in S : Kids(x) \subseteq S
        PROVE  Under(d) \subseteq S
    BY <1>3 DEF Under
  <1> QED  BY <1>1, <1>2, <1>3

\* What is under a subdirectory is under the directory.
LEMMA UnderKid ==
    ASSUME NEW d \in Dirs, NEW c \in Kids(d)
    PROVE  c \in Dirs /\ Under(c) \subseteq Under(d)
  <1>1. c \in Dirs
    BY KidsIs
  <1> QED  BY <1>1, UnderIs

\* The way to a directory leads through its parent.
LEMMA ThroughParent ==
    ASSUME NEW d \in Dirs, NEW c \in Kids(d), NEW e \in Dirs, c \in Under(e), c # e
    PROVE  d \in Under(e)
  <1> SUFFICES ASSUME d \notin Under(e) PROVE FALSE
    OBVIOUS
  <1> DEFINE S == Under(e) \ {c}
  <1>1. \A x \in S : Kids(x) \subseteq S
    BY KidsIs, UnderIs
  <1>2. e \in S /\ S \in SUBSET Dirs
    BY UnderIs
  <1>3. Under(e) \subseteq S
    BY <1>1, <1>2, UnderIs
  <1> QED  BY <1>3

\* There is no cycle among the directories that can be reached.
LEMMA NoCycle ==
    ASSUME NEW d \in Under(Root), NEW c \in Kids(d)
    PROVE  d \notin Under(c) /\ d # c
  <1> DEFINE S == {x \in Under(Root) : \A y \in Kids(x) : x \notin Under(y)}
  <1>0. Root \in Dirs /\ Under(Root) \subseteq Dirs
    BY TreeAssumption, UnderIs
  <1>1. Root \in S
    <2>1. ASSUME NEW y \in Kids(Root) PROVE Root \notin Under(y)
      <3>1. y \in Dirs \ {Root} /\ \A x \in Dirs \ {Root} : Kids(x) \subseteq Dirs \ {Root}
        BY <1>0, KidsIs
      <3>2. Under(y) \subseteq Dirs \ {Root}
        BY <3>1, UnderIs
      <3> QED  BY <3>2
    <2> QED  BY <1>0, <2>1, UnderIs
  <1>2. ASSUME NEW x \in S, NEW y \in Kids(x) PROVE y \in S
    <2>1. x \in Dirs /\ y \in Dirs /\ y \in Under(Root)
      BY <1>0, KidsIs, UnderIs
    <2>2. ASSUME NEW z \in Kids(y), y \in Under(z) PROVE FALSE
      <3>1. z \in Dirs /\ Under(z) \subseteq Under(y)
        BY <2>1, UnderKid
      <3>2. CASE y = z
        <4>1. x = y
          BY <2>1, <3>2, KidsIs
        <4> QED  BY <2>1, <4>1, UnderIs
      <3>3. CASE y # z
        <4>1. x \in Under(z)
          BY <2>1, <2>2, <3>1, <3>3, ThroughParent
        <4> QED  BY <3>1, <4>1
      <3> QED  BY <3>2, <3>3
    <2> QED  BY <2>1, <2>2
  <1>3. S \in SUBSET Dirs
    BY <1>0
  <1> HIDE DEF S
  <1>4. Under(Root) \subseteq S
    BY <1>0, <1>1, <1>2, <1>3, UnderIs
  <1>5. d \notin Under(c) /\ c \in Dirs
    BY <1>0, <1>4, KidsIs DEF S
  <1> QED  BY <1>5, UnderIs

-----------------------------------------------------------------------------
(* The tops.                                                               *)

\* main() takes the first top of the first list that has one.
LEMMA FirstListIs ==
    ASSUME ItemTypes, TopsLeft
    PROVE  FirstList \in Threads /\ tops[FirstList] # <<>>
  <1> DEFINE B == {t \in Threads : tops[t] # <<>>}
  <1>1. Threads \subseteq Nat /\ N \in Nat
    BY TopDownAssumption DEF Threads
  <1>2. B \subseteq Nat /\ B # {}
    BY <1>1 DEF TopsLeft
  <1>3. PICK t \in B : \A u \in B : <<u, t>> \notin OpToRel(<, Nat)
    BY <1>2, WFMin, NatLessThanWellFounded
  <1>4. ASSUME NEW u \in 0 .. (t - 1) PROVE tops[u] = <<>>
    <2>0. t \in 0 .. (N - 1)
      BY <1>3 DEF Threads
    <2>1. u \in Threads /\ u \in Nat /\ t \in Nat /\ u < t
      BY <1>1, <2>0 DEF Threads
    <2>2. <<u, t>> \in OpToRel(<, Nat)
      BY <2>1 DEF OpToRel
    <2> QED  BY <1>3, <2>1, <2>2
  <1>5. \E v \in Threads : tops[v] # <<>> /\ \A u \in 0 .. (v - 1) : tops[u] = <<>>
    BY <1>3, <1>4
  <1> QED  BY <1>5, Zenon DEF FirstList

\* What it leaves are the others, each at most one place further ahead.
Ahead(t) == IF t = FirstList THEN 1 ELSE 0

LEMMA PoppedIs ==
    ASSUME ItemTypes, TopsLeft
    PROVE  /\ Popped \in [Threads -> Seq(Dirs)]
           /\ NextTop \in Dirs /\ FirstList \in Threads
           /\ 1 \in DOMAIN tops[FirstList] /\ NextTop = tops[FirstList][1]
           /\ \A t \in Threads : \A i \in DOMAIN Popped[t] :
                  /\ i \in Nat \ {0} /\ i + Ahead(t) \in DOMAIN tops[t]
                  /\ Popped[t][i] = tops[t][i + Ahead(t)]
  <1>1. FirstList \in Threads /\ tops[FirstList] # <<>> /\ tops \in [Threads -> Seq(Dirs)]
    BY FirstListIs DEF ItemTypes
  <1>2. tops[FirstList] \in Seq(Dirs)
    BY <1>1
  <1>3. /\ Len(tops[FirstList]) \in Nat /\ Len(tops[FirstList]) > 0
        /\ NextTop = tops[FirstList][1] /\ NextTop \in Dirs
        /\ 1 \in DOMAIN tops[FirstList]
    BY <1>1, <1>2, EmptySeq DEF NextTop
  <1>4. Tail(tops[FirstList]) \in Seq(Dirs) /\ Popped = [tops EXCEPT ![FirstList] = Tail(@)]
    BY <1>1, <1>2, HeadTailProperties DEF Popped
  <1>5. Popped \in [Threads -> Seq(Dirs)]
    BY <1>1, <1>4
  <1>6. ASSUME NEW t \in Threads, NEW i \in DOMAIN Popped[t]
        PROVE  /\ i \in Nat \ {0} /\ i + Ahead(t) \in DOMAIN tops[t]
               /\ Popped[t][i] = tops[t][i + Ahead(t)]
    <2>1. CASE t = FirstList
      <3>1. Popped[t] = Tail(tops[t]) /\ Ahead(t) = 1 /\ tops[t] \in Seq(Dirs)
        BY <1>1, <1>4, <2>1 DEF Ahead
      <3>2. tops[t] # <<>>
        BY <1>1, <2>1
      <3>3. /\ DOMAIN Tail(tops[t]) = 1 .. (Len(tops[t]) - 1)
            /\ \A k \in 1 .. (Len(tops[t]) - 1) : Tail(tops[t])[k] = tops[t][k + 1]
            /\ DOMAIN tops[t] = 1 .. Len(tops[t]) /\ Len(tops[t]) \in Nat
        BY <3>1, <3>2
      <3>4. i \in 1 .. (Len(tops[t]) - 1)
        BY <3>1, <3>3
      <3> QED  BY <3>1, <3>3, <3>4
    <2>2. CASE t # FirstList
      <3>1. Popped[t] = tops[t] /\ Ahead(t) = 0 /\ tops[t] \in Seq(Dirs)
        BY <1>1, <1>4, <2>2 DEF Ahead
      <3> QED  BY <3>1
    <2> QED  BY <2>1, <2>2
  <1> QED  BY <1>1, <1>3, <1>5, <1>6

\* What is taken is found no more, and the rest is.
LEMMA FoundPopped ==
    ASSUME ItemTypes, FoundInv, TopsLeft, tops' = Popped, todo' = todo
    PROVE  /\ FoundInv'
           /\ \A t \in Threads : \A i \in DOMAIN tops'[t] : tops'[t][i] # NextTop
           /\ \A top : (\A t \in Threads : \A i \in DOMAIN tops[t] : tops[t][i] # top)
                       => \A t \in Threads : \A i \in DOMAIN tops'[t] : tops'[t][i] # top
  <1>1. \A t \in Threads : \A i \in DOMAIN tops'[t] :
            /\ i \in Nat \ {0} /\ i + Ahead(t) \in DOMAIN tops[t]
            /\ tops'[t][i] = tops[t][i + Ahead(t)]
    BY PoppedIs
  <1>2. \A t : Ahead(t) \in Nat
    BY DEF Ahead
  <1>3. \A d : IsFound(d)' => IsFound(d)
    BY <1>1 DEF IsFound, Find
  <1>4. ASSUME NEW t \in Threads, NEW u \in Threads, NEW i \in DOMAIN tops'[t], NEW j \in DOMAIN tops'[u],
               tops'[t][i] = tops'[u][j]
        PROVE  t = u /\ i = j
    <2>1. t = u /\ i + Ahead(t) = j + Ahead(u)
      BY <1>1, <1>4 DEF FoundInv
    <2> QED  BY <1>1, <1>2, <2>1
  <1>5. \A t \in Threads : \A i \in DOMAIN tops'[t] : Find(tops'[t][i]) \notin todo'
    BY <1>1 DEF FoundInv
  <1>6. FoundInv'
    BY <1>3, <1>4, <1>5 DEF FoundInv
  <1>7. ASSUME NEW t \in Threads, NEW i \in DOMAIN tops'[t], tops'[t][i] = NextTop
        PROVE  FALSE
    <2>1. t = FirstList /\ i + Ahead(t) = 1
      BY <1>1, <1>7, PoppedIs DEF FoundInv
    <2> QED  BY <1>1, <2>1 DEF Ahead
  <1> QED  BY <1>1, <1>6, <1>7

LEMMA FoundKeeps ==
    ASSUME FoundInv, tops' = tops, \A d : Find(d) \in todo' => Find(d) \in todo
    PROVE  FoundInv'
  <1>1. \A d : IsFound(d)' => IsFound(d)
    BY DEF IsFound, Find
  <1> QED  BY <1>1 DEF FoundInv, Find

-----------------------------------------------------------------------------
(* The walk, and main() when it deals out nothing.                         *)

CopiesInv == \A top \in Dirs : CountInv(top) /\ SlotInv(top) /\ OnceInv(top)

IsTopOf(ts, top) == \E t \in Threads : \E i \in DOMAIN ts[t] : ts[t][i] = top

\* Who does not touch the copies leaves them as they are.
LEMMA CopiesKept ==
    ASSUME CopiesInv, UNCHANGED <<queue, busy, left>>,
           \A top \in Dirs : IsTopOf(tops', top) => IsTopOf(tops, top)
    PROVE  CopiesInv'
  <1>1. \A top : Pending(top)' = Pending(top) /\ (IsMerged(top)' <=> IsMerged(top))
    BY DEF Pending, IsMerged
  <1>2. \A x : SlotOf(x)' = SlotOf(x)
    BY DEF SlotOf
  <1>3. \A top : left'[top] = left[top]
    OBVIOUS
  <1>4. ASSUME NEW top \in Dirs PROVE CountInv(top)' /\ SlotInv(top)'
    BY <1>1, <1>2, <1>3 DEF CopiesInv, CountInv, SlotInv
  <1>5. ASSUME NEW top \in Dirs PROVE OnceInv(top)'
    BY <1>1 DEF CopiesInv, OnceInv, IsTopOf
  <1> QED  BY <1>4, <1>5 DEF CopiesInv

LEMMA StartInv == ASSUME IInv, NEW o \in Options, Start(o) PROVE IInv'
  <1> USE DEF Start, copying
  <1>1. \A d \in Dirs : Find(d) \in todo' => d = Root
    BY DEF Find
  <1>2. /\ Root \in Dirs /\ todo' \subseteq Dirs \X (Dirs \cup {NoDir})
        /\ \A t \in Threads : tops'[t] = <<>> /\ queue'[t] = <<>> /\ busy'[t].what = "free"
    BY TreeAssumption DEF IInv, PhaseInv, Find
  <1>3. ItemTypes' /\ PhaseInv'
    BY <1>2 DEF IInv, ItemTypes, PhaseInv
  <1>4. \A t \in Threads : DOMAIN tops'[t] = {}
    BY <1>2
  <1>5. \A d \in Dirs : IsFound(d)' => d = Root
    BY <1>1, <1>4 DEF IsFound, Find
  <1>6. FoundInv'
    BY <1>2, <1>4, <1>5, UnderIs DEF FoundInv
  <1>7. CopiesInv'
    BY CopiesKept DEF IInv, CopiesInv
  <1> QED  BY <1>3, <1>6, <1>7 DEF IInv, CopiesInv

LEMMA MainQuiet == ASSUME IInv, FoundAll \/ MainWaits \/ Stop \/ End PROVE IInv'
  <1> USE DEF FoundAll, MainWaits, Stop, End, copying
  <1>1. UNCHANGED <<todo, tops, lists, next, queue, busy, left>>
    OBVIOUS
  <1>2. ItemTypes'
    BY <1>1 DEF IInv, ItemTypes
  <1>3. PhaseInv'
    BY <1>1 DEF IInv, PhaseInv, TopsLeft, Free
  <1>4. FoundInv'
    BY <1>1, FoundKeeps DEF IInv, Find
  <1>5. CopiesInv'
    BY <1>1, CopiesKept DEF IInv, CopiesInv
  <1> QED  BY <1>2, <1>3, <1>4, <1>5 DEF IInv, CopiesInv

LEMMA WalkSteps ==
    ASSUME IInv, phase = "find", NEW d \in Dirs, NEW top \in Dirs, NEW t \in Threads,
           FindTopFails(d) \/ ParallelWalk(d, top, t) \/ ParallelWalkFails(d, top)
    PROVE  IInv'
  <1>0. /\ lists \in [Dirs -> [Threads -> Seq(Dirs)]] /\ Subdirs[d] \in Seq(Dirs)
        /\ todo \subseteq Dirs \X (Dirs \cup {NoDir})
    BY TreeAssumption DEF IInv, ItemTypes
  <1>1. /\ UNCHANGED <<phase, tops, next, queue, busy, left>>
        /\ todo' \subseteq todo \cup {Walk(top, c) : c \in Kids(d)}
        /\ lists' \in {lists, [lists EXCEPT ![top] = [lists[top] EXCEPT ![t] = @ \o Subdirs[d]]]}
    BY <1>0 DEF FindTopFails, ParallelWalk, ParallelWalkFails, copying
  <1>2. \A c : Find(c) \in todo' => Find(c) \in todo
    BY <1>1, TopDownAssumption DEF Find, Walk
  <1>3. lists' \in [Dirs -> [Threads -> Seq(Dirs)]]
    <2>1. lists[top] \in [Threads -> Seq(Dirs)] /\ lists[top][t] \o Subdirs[d] \in Seq(Dirs)
      BY <1>0
    <2>2. [lists[top] EXCEPT ![t] = @ \o Subdirs[d]] \in [Threads -> Seq(Dirs)]
      BY <2>1
    <2> QED  BY <1>0, <1>1, <2>2
  <1>4. todo' \subseteq Dirs \X (Dirs \cup {NoDir})
    BY <1>0, <1>1, KidsIs DEF Walk
  <1>8. ItemTypes'
    BY <1>1, <1>3, <1>4 DEF IInv, ItemTypes
  <1>5. PhaseInv'
    BY <1>1 DEF IInv, PhaseInv
  <1>6. FoundInv'
    BY <1>1, <1>2, FoundKeeps DEF IInv
  <1>7. CopiesInv'
    BY <1>1, CopiesKept DEF IInv, CopiesInv
  <1> QED  BY <1>5, <1>6, <1>7, <1>8 DEF IInv, CopiesInv

\* The walk goes from a directory to its subdirectories, none of which is
\* below anything else it has found.
LEMMA DescendInv == ASSUME IInv, phase = "find", NEW d \in Dirs, FindTopDescends(d) PROVE IInv'
  <1>1. /\ UNCHANGED <<phase, tops, lists, next, queue, busy, left>> /\ Find(d) \in todo
        /\ todo' = (todo \ {Find(d)}) \cup {Find(c) : c \in Kids(d)}
    BY DEF FindTopDescends, copying
  <1>2. ItemTypes'
    BY <1>1, KidsIs DEF IInv, ItemTypes, Find
  <1>3. PhaseInv'
    BY <1>1 DEF IInv, PhaseInv
  <1>4. CopiesInv'
    BY <1>1, CopiesKept DEF IInv, CopiesInv
  <1>5. FoundInv
    BY DEF IInv
  <1>6. IsFound(d) /\ d \in Under(Root) /\ \A c \in Kids(d) : c \in Dirs /\ d \notin Under(c) /\ d # c
    BY <1>1, <1>5, KidsIs, NoCycle DEF FoundInv, IsFound
  <1>7. ASSUME NEW x, IsFound(x)'
        PROVE  x \in Kids(d) \/ (IsFound(x) /\ x # d)
    <2>1. CASE Find(x) \in todo'
      BY <1>1, <2>1 DEF IsFound, Find
    <2>2. CASE \E t \in Threads : \E i \in DOMAIN tops[t] : tops[t][i] = x
      BY <1>1, <1>5, <2>2 DEF IsFound, FoundInv
    <2> QED  BY <1>1, <1>7, <2>1, <2>2 DEF IsFound
  <1>8. ASSUME NEW c \in Kids(d), NEW x \in Dirs, IsFound(x), x # d
        PROVE  c \notin Under(x) /\ x \notin Under(c) /\ c # x
    <2>1. Under(c) \subseteq Under(d) /\ c \in Under(c)
      BY <1>6, UnderKid, UnderIs
    <2>2. x \notin Under(d) /\ d \notin Under(x)
      BY <1>5, <1>6, <1>8 DEF FoundInv
    <2>3. x \notin Under(c) /\ c # x
      BY <2>1, <2>2
    <2>4. c \notin Under(x)
      BY <2>2, <2>3, ThroughParent
    <2> QED  BY <2>3, <2>4
  <1>9. ASSUME NEW c \in Kids(d), NEW b \in Kids(d), c # b PROVE c \notin Under(b)
    BY <1>6, <1>9, ThroughParent
  <1>10. \A x, y \in Dirs : IsFound(x)' /\ IsFound(y)' /\ x # y => x \notin Under(y)
    BY <1>5, <1>7, <1>8, <1>9 DEF FoundInv
  <1>11. \A x \in Dirs : IsFound(x)' => x \in Under(Root)
    BY <1>5, <1>6, <1>7, TreeAssumption, UnderIs DEF FoundInv
  <1>12. ASSUME NEW t \in Threads, NEW i \in DOMAIN tops[t] PROVE Find(tops[t][i]) \notin todo'
    <2>1. IsFound(tops[t][i]) /\ Find(tops[t][i]) \notin todo
      BY <1>5 DEF IsFound, FoundInv
    <2>2. tops[t][i] \in Dirs
      BY DEF IInv, ItemTypes
    <2>3. tops[t][i] # d
      BY <1>1, <2>1
    <2> QED  BY <1>1, <1>8, <2>1, <2>2, <2>3 DEF Find
  <1>13. FoundInv'
    BY <1>1, <1>5, <1>10, <1>11, <1>12 DEF FoundInv
  <1> QED  BY <1>2, <1>3, <1>4, <1>13 DEF IInv, CopiesInv

\* A top is appended to the list of the thread.
LEMMA TopInv ==
    ASSUME IInv, phase = "find", NEW d \in Dirs, NEW t \in Threads, FindTop(d, t) PROVE IInv'
  <1>1. /\ UNCHANGED <<phase, lists, next, queue, busy, left>> /\ Find(d) \in todo
        /\ todo' \subseteq (todo \ {Find(d)}) \cup {Walk(d, d)}
        /\ tops' \in {tops, [tops EXCEPT ![t] = Append(@, d)]}
    BY DEF FindTop, copying, Prepare
  <1>2. tops \in [Threads -> Seq(Dirs)]
    BY DEF IInv, ItemTypes
  <1>3. tops' \in [Threads -> Seq(Dirs)]
    BY <1>1, <1>2
  <1>4. todo' \subseteq Dirs \X (Dirs \cup {NoDir})
    BY <1>1 DEF IInv, ItemTypes, Walk
  <1>5. ItemTypes'
    BY <1>1, <1>3, <1>4 DEF IInv, ItemTypes
  <1>6. PhaseInv'
    BY <1>1 DEF IInv, PhaseInv
  <1>7. \A x : Find(x) \in todo' => Find(x) \in todo /\ x # d
    BY <1>1, TopDownAssumption DEF Find, Walk
  <1>8. ASSUME NEW u \in Threads, NEW i \in DOMAIN tops'[u]
        PROVE  \/ i \in DOMAIN tops[u] /\ tops'[u][i] = tops[u][i]
               \/ u = t /\ i = Len(tops[t]) + 1 /\ tops'[u][i] = d
    <2>1. tops[u] \in Seq(Dirs)
      BY <1>2
    <2>2. tops'[u] = tops[u] \/ (u = t /\ tops'[u] = Append(tops[u], d))
      BY <1>1, <1>2
    <2> QED  BY <2>1, <2>2, AppendProperties
  <1>9. FoundInv /\ IsFound(d)
    BY <1>1 DEF IInv, IsFound
  <1>10. \A u \in Threads : \A i \in DOMAIN tops[u] : tops[u][i] # d
    BY <1>1, <1>9 DEF FoundInv
  <1>11. \A x : IsFound(x)' => IsFound(x)
    BY <1>7, <1>8, <1>9 DEF IsFound
  <1>12. \A u, v \in Threads : \A i \in DOMAIN tops'[u] : \A j \in DOMAIN tops'[v] :
             tops'[u][i] = tops'[v][j] => u = v /\ i = j
    BY <1>8, <1>9, <1>10 DEF FoundInv
  <1>13. \A u \in Threads : \A i \in DOMAIN tops'[u] : Find(tops'[u][i]) \notin todo'
    BY <1>7, <1>8, <1>9 DEF FoundInv
  <1>14. FoundInv'
    BY <1>9, <1>11, <1>12, <1>13 DEF FoundInv
  <1>15. ASSUME NEW top \in Dirs PROVE CountInv(top)' /\ SlotInv(top)' /\ OnceInv(top)'
    <2>1. Pending(top)' = Pending(top) /\ (IsMerged(top)' <=> IsMerged(top)) /\ \A x : SlotOf(x)' = SlotOf(x)
      BY <1>1 DEF Pending, IsMerged, SlotOf
    <2>2. \A u \in Threads : queue[u] = <<>> /\ busy[u].what = "free"
      BY DEF IInv, PhaseInv
    <2>3. Pending(top) = {} /\ ~IsMerged(top)
      BY <2>2 DEF Pending, IsMerged
    <2>4. left'[top] = left[top]
      BY <1>1
    <2> QED  BY <2>1, <2>3, <2>4 DEF IInv, CountInv, SlotInv, OnceInv
  <1> QED  BY <1>5, <1>6, <1>14, <1>15 DEF IInv

-----------------------------------------------------------------------------
(* The copies.                                                             *)

LEMMA PendingIs ==
    /\ \A top : \A x \in Pending(top) : \E u \in Threads : \E k \in Nat : x = <<u, k>>
    /\ \A top : \A u \in Threads : \A k \in Nat :
           <<u, k>> \in Pending(top) <=>
               \/ k = 0 /\ busy[u].what \in {"write", "count"} /\ busy[u].top = top
               \/ k \in DOMAIN queue[u] /\ queue[u][k].top = top
    /\ \A top : \A u \in Threads : \A k \in Nat :
           <<u, k>> \in Unwritten(top) <=>
               <<u, k>> \in Pending(top) /\ (k = 0 => busy[u].what = "write")
    /\ \A u \in Threads : \A k \in Nat :
           /\ SlotOf(<<u, k>>) = IF k = 0 THEN busy[u].slot ELSE queue[u][k].slot
           /\ DirOf(<<u, k>>) = IF k = 0 THEN busy[u].dir ELSE queue[u][k].dir
  BY DEF Pending, Unwritten, SlotOf, DirOf

LEMMA PendingNext ==
    /\ \A top : \A x \in Pending(top)' : \E u \in Threads : \E k \in Nat : x = <<u, k>>
    /\ \A top : \A u \in Threads : \A k \in Nat :
           <<u, k>> \in Pending(top)' <=>
               \/ k = 0 /\ busy'[u].what \in {"write", "count"} /\ busy'[u].top = top
               \/ k \in DOMAIN queue'[u] /\ queue'[u][k].top = top
    /\ \A top : \A u \in Threads : \A k \in Nat :
           <<u, k>> \in Unwritten(top)' <=>
               <<u, k>> \in Pending(top)' /\ (k = 0 => busy'[u].what = "write")
    /\ \A u \in Threads : \A k \in Nat :
           /\ SlotOf(<<u, k>>)' = IF k = 0 THEN busy'[u].slot ELSE queue'[u][k].slot
           /\ DirOf(<<u, k>>)' = IF k = 0 THEN busy'[u].dir ELSE queue'[u][k].dir
  BY DEF Pending, Unwritten, SlotOf, DirOf

\* A step that changes nothing at any place changes nothing.
LEMMA PlacesKept ==
    ASSUME NEW top, CountInv(top), SlotInv(top), left'[top] = left[top],
           IsMerged(top)' => IsMerged(top),
           \A u \in Threads : \A k \in Nat :
               /\ <<u, k>> \in Pending(top)' <=> <<u, k>> \in Pending(top)
               /\ <<u, k>> \in Pending(top) => SlotOf(<<u, k>>)' = SlotOf(<<u, k>>)
    PROVE  Pending(top)' = Pending(top) /\ CountInv(top)' /\ SlotInv(top)'
  <1>1. Pending(top) \subseteq Threads \X Nat /\ Pending(top)' \subseteq Threads \X Nat
    BY DEF Pending
  <1>2. Pending(top)' = Pending(top) /\ \A x \in Pending(top) : SlotOf(x)' = SlotOf(x)
    BY <1>1
  <1> QED  BY <1>2 DEF CountInv, SlotInv

\* A step after which every copy of a top was somewhere before, with the same
\* thread and for the same staging database, keeps what holds of them.
LEMMA CopiesMove ==
    ASSUME NEW top \in Dirs, CountInv(top), SlotInv(top), OnceInv(top),
           left[top] \in Nat, left'[top] = left[top], tops' = tops,
           IsMerged(top)' => IsMerged(top), NEW was,
           \A x \in Pending(top)' :
               was[x] \in Pending(top) /\ was[x][1] = x[1] /\ SlotOf(was[x]) = SlotOf(x)',
           \A x, y \in Pending(top)' : was[x] = was[y] => x = y,
           \A y \in Pending(top) : \E x \in Pending(top)' : was[x] = y
    PROVE  CountInv(top)' /\ SlotInv(top)' /\ OnceInv(top)'
  <1> DEFINE S == Pending(top)'
             g == [y \in Pending(top) |-> CHOOSE x \in S : was[x] = y]
  <1>1. \A y \in Pending(top) : g[y] \in S /\ was[g[y]] = y
    OBVIOUS
  <1>2. IsFiniteSet(S) /\ Cardinality(S) = Cardinality(Pending(top))
    <2>1. g \in [Pending(top) -> S] /\ \A x \in S : was[x] \in Pending(top) /\ g[was[x]] = x
      BY <1>1
    <2> HIDE DEF g, S
    <2>2. g \in Bijection(Pending(top), S)
      BY <1>1, <2>1 DEF Bijection, Injection, Surjection, IsInjective
    <2> QED  BY <2>2, FS_Bijection DEF CountInv, ExistsBijection
  <1>3. CountInv(top)'
    BY <1>2 DEF CountInv
  <1>4. SlotInv(top)'
    BY DEF SlotInv
  <1>5. OnceInv(top)'
    BY DEF OnceInv
  <1> QED  BY <1>3, <1>4, <1>5

\* When a thread takes the first copy of its queue into its hands, the place of
\* every copy of that thread moves by one.
Before(t, x) == IF x[1] = t THEN <<t, x[2] + 1>> ELSE x

LEMMA PopPlaces ==
    ASSUME ItemTypes, NEW t \in Threads, PopCopy(t), NEW top
    PROVE  /\ \A x \in Pending(top)' :
                  /\ Before(t, x) \in Pending(top) /\ Before(t, x)[1] = x[1]
                  /\ SlotOf(Before(t, x)) = SlotOf(x)' /\ DirOf(Before(t, x)) = DirOf(x)'
                  /\ x \in Unwritten(top)' => Before(t, x) \in Unwritten(top)
           /\ \A y \in Pending(top) : \E x \in Threads \X Nat :
                  /\ x \in Pending(top)' /\ Before(t, x) = y
                  /\ y \in Unwritten(top) => x \in Unwritten(top)'
           /\ \A x, y \in Threads \X Nat : Before(t, x) = Before(t, y) => x = y
  <1>1. /\ busy[t].what = "free" /\ queue[t] # <<>>
        /\ queue' = [queue EXCEPT ![t] = Tail(@)]
        /\ busy' = [busy EXCEPT ![t] = [what |-> "write", top |-> Head(queue[t]).top,
                                        dir |-> Head(queue[t]).dir, slot |-> Head(queue[t]).slot]]
    BY DEF PopCopy, Free
  <1>2. queue \in [Threads -> Seq(Copies)] /\ busy \in [Threads -> Copying]
    BY DEF ItemTypes
  <1>3. /\ DOMAIN queue[t] = 1 .. Len(queue[t]) /\ Len(queue[t]) \in Nat \ {0}
        /\ DOMAIN queue'[t] = 1 .. (Len(queue[t]) - 1)
        /\ \A k \in DOMAIN queue'[t] : queue'[t][k] = queue[t][k + 1]
        /\ busy'[t].what = "write" /\ busy'[t].top = queue[t][1].top
        /\ busy'[t].dir = queue[t][1].dir /\ busy'[t].slot = queue[t][1].slot
    <2>1. queue[t] \in Seq(Copies) /\ queue[t] # <<>>
      BY <1>1, <1>2
    <2>2. /\ DOMAIN Tail(queue[t]) = 1 .. (Len(queue[t]) - 1)
          /\ \A k \in 1 .. (Len(queue[t]) - 1) : Tail(queue[t])[k] = queue[t][k + 1]
          /\ DOMAIN queue[t] = 1 .. Len(queue[t]) /\ Len(queue[t]) \in Nat /\ Len(queue[t]) > 0
          /\ Head(queue[t]) = queue[t][1]
      BY <2>1
    <2>3. queue'[t] = Tail(queue[t])
      BY <1>1, <1>2
    <2> QED  BY <1>1, <1>2, <2>2, <2>3
  <1>4. \A k \in Nat : /\ k \in DOMAIN queue'[t] => k # 0 /\ k + 1 \in DOMAIN queue[t]
                       /\ k \in DOMAIN queue[t] =>
                              k - 1 \in Nat /\ (k = 1 \/ k - 1 \in DOMAIN queue'[t])
    BY <1>3
  <1>5. 1 \in DOMAIN queue[t]
    BY <1>3
  <1>6. \A u \in Threads : u # t => queue'[u] = queue[u] /\ busy'[u] = busy[u]
    BY <1>1
  <1>7. \A u \in Threads : \A k \in Nat :
            Before(t, <<u, k>>) = IF u = t THEN <<t, k + 1>> ELSE <<u, k>>
    BY DEF Before
  <1>8. ASSUME NEW u \in Threads, NEW k \in Nat, <<u, k>> \in Pending(top)'
        PROVE  /\ Before(t, <<u, k>>) \in Pending(top) /\ Before(t, <<u, k>>)[1] = u
               /\ SlotOf(Before(t, <<u, k>>)) = SlotOf(<<u, k>>)'
               /\ DirOf(Before(t, <<u, k>>)) = DirOf(<<u, k>>)'
               /\ <<u, k>> \in Unwritten(top)' => Before(t, <<u, k>>) \in Unwritten(top)
    <2>1. CASE u = t
      <3>0. Before(t, <<u, k>>) = <<t, k + 1>>
        BY <1>7, <2>1
      <3>1. Before(t, <<u, k>>) = <<t, k + 1>> /\ k + 1 \in Nat /\ k + 1 # 0
        BY <3>0
      <3>2. k + 1 \in DOMAIN queue[t] /\ queue[t][k + 1].top = top
        <4>1. \/ k = 0 /\ busy'[t].top = top
              \/ k \in DOMAIN queue'[t] /\ queue'[t][k].top = top
          BY <1>8, <2>1, PendingNext
        <4>2. CASE k = 0 /\ busy'[t].top = top
          <5>1. k + 1 = 1 /\ queue[t][1].top = top
            BY <1>3, <4>2
          <5> QED  BY <1>5, <5>1
        <4>3. CASE k \in DOMAIN queue'[t] /\ queue'[t][k].top = top
          BY <1>3, <1>4, <4>3
        <4> QED  BY <4>1, <4>2, <4>3
      <3>3. /\ SlotOf(<<u, k>>)' = queue[t][k + 1].slot /\ DirOf(<<u, k>>)' = queue[t][k + 1].dir
        <4>1. CASE k = 0
          BY <1>3, <2>1, <4>1, PendingNext
        <4>2. CASE k # 0
          BY <1>3, <1>8, <2>1, <4>2, PendingNext
        <4> QED  BY <4>1, <4>2
      <3>4. <<t, k + 1>> \in Pending(top) /\ <<t, k + 1>> \in Unwritten(top)
        BY <3>1, <3>2, PendingIs
      <3>5. SlotOf(<<t, k + 1>>) = queue[t][k + 1].slot /\ DirOf(<<t, k + 1>>) = queue[t][k + 1].dir
        BY <3>1, PendingIs
      <3> QED  BY <2>1, <3>1, <3>3, <3>4, <3>5
    <2>2. CASE u # t
      <3>1. Before(t, <<u, k>>) = <<u, k>>
        BY <1>7, <2>2
      <3>2. queue'[u] = queue[u] /\ busy'[u] = busy[u]
        BY <1>6, <2>2
      <3>3. /\ <<u, k>> \in Pending(top)
            /\ <<u, k>> \in Unwritten(top)' => <<u, k>> \in Unwritten(top)
        BY <1>8, <3>2, PendingIs, PendingNext
      <3>4. SlotOf(<<u, k>>)' = SlotOf(<<u, k>>) /\ DirOf(<<u, k>>)' = DirOf(<<u, k>>)
        BY <3>2, PendingIs, PendingNext
      <3> QED  BY <3>1, <3>3, <3>4
    <2> QED  BY <2>1, <2>2
  <1>9. ASSUME NEW u \in Threads, NEW k \in Nat, <<u, k>> \in Pending(top)
        PROVE  \E x \in Threads \X Nat :
                   /\ x \in Pending(top)' /\ Before(t, x) = <<u, k>>
                   /\ <<u, k>> \in Unwritten(top) => x \in Unwritten(top)'
    <2>1. CASE u = t
      <3>1. k \in DOMAIN queue[t] /\ queue[t][k].top = top
        BY <1>1, <1>9, <2>1, PendingIs
      <3>2. k - 1 \in Nat /\ (k - 1) + 1 = k /\ (k = 1 \/ k - 1 \in DOMAIN queue'[t])
        BY <1>4, <3>1
      <3>3. <<t, k - 1>> \in Pending(top)'
        <4>1. CASE k = 1
          BY <1>3, <3>1, <4>1, PendingNext
        <4>2. CASE k # 1
          <5>1. k - 1 \in DOMAIN queue'[t] /\ queue'[t][k - 1].top = top
            BY <1>3, <3>1, <3>2, <4>2
          <5> QED  BY <3>2, <5>1, PendingNext
        <4> QED  BY <4>1, <4>2
      <3>4. <<t, k - 1>> \in Unwritten(top)' /\ <<t, k - 1>> \in Threads \X Nat
        BY <1>3, <3>2, <3>3, PendingNext
      <3>5. Before(t, <<t, k - 1>>) = <<u, k>>
        BY <1>7, <2>1, <3>2
      <3> QED  BY <3>3, <3>4, <3>5
    <2>2. CASE u # t
      <3>1. Before(t, <<u, k>>) = <<u, k>>
        BY <1>7, <2>2
      <3>2. queue'[u] = queue[u] /\ busy'[u] = busy[u]
        BY <1>6, <2>2
      <3>3. /\ <<u, k>> \in Pending(top)'
            /\ <<u, k>> \in Unwritten(top) => <<u, k>> \in Unwritten(top)'
        BY <1>9, <3>2, PendingIs, PendingNext
      <3> QED  BY <3>1, <3>3
    <2> QED  BY <2>1, <2>2
  <1>10. \A x, y \in Threads \X Nat : Before(t, x) = Before(t, y) => x = y
    BY DEF Before
  <1>11. ASSUME NEW x \in Pending(top)'
         PROVE  /\ Before(t, x) \in Pending(top) /\ Before(t, x)[1] = x[1]
                /\ SlotOf(Before(t, x)) = SlotOf(x)' /\ DirOf(Before(t, x)) = DirOf(x)'
                /\ x \in Unwritten(top)' => Before(t, x) \in Unwritten(top)
    <2>1. PICK u \in Threads, k \in Nat : x = <<u, k>>
      BY PendingNext
    <2> QED  BY <1>8, <2>1
  <1>12. ASSUME NEW y \in Pending(top)
         PROVE  \E x \in Threads \X Nat :
                    /\ x \in Pending(top)' /\ Before(t, x) = y
                    /\ y \in Unwritten(top) => x \in Unwritten(top)'
    <2>1. PICK u \in Threads, k \in Nat : y = <<u, k>>
      BY PendingIs
    <2> QED  BY <1>9, <2>1
  <1>13. \A x \in Pending(top)' :
             /\ Before(t, x) \in Pending(top) /\ Before(t, x)[1] = x[1]
             /\ SlotOf(Before(t, x)) = SlotOf(x)' /\ DirOf(Before(t, x)) = DirOf(x)'
             /\ x \in Unwritten(top)' => Before(t, x) \in Unwritten(top)
    BY <1>11
  <1>14. \A y \in Pending(top) : \E x \in Threads \X Nat :
             /\ x \in Pending(top)' /\ Before(t, x) = y
             /\ y \in Unwritten(top) => x \in Unwritten(top)'
    BY <1>12
  <1> QED  BY <1>10, <1>13, <1>14, Zenon

LEMMA PopInv == ASSUME IInv, NEW t \in Threads, PopCopy(t) PROVE IInv'
  <1>1. /\ UNCHANGED <<phase, todo, tops, lists, next, left>>
        /\ busy[t].what = "free" /\ queue[t] # <<>>
        /\ queue' = [queue EXCEPT ![t] = Tail(@)]
        /\ busy' = [busy EXCEPT ![t] = [what |-> "write", top |-> Head(queue[t]).top,
                                        dir |-> Head(queue[t]).dir, slot |-> Head(queue[t]).slot]]
    BY DEF PopCopy, Free
  <1>2. queue \in [Threads -> Seq(Copies)] /\ busy \in [Threads -> Copying]
    BY DEF IInv, ItemTypes
  <1>3. Tail(queue[t]) \in Seq(Copies) /\ Head(queue[t]) \in Copies
    <2>1. queue[t] \in Seq(Copies) /\ queue[t] # <<>>
      BY <1>1, <1>2
    <2> QED  BY <2>1
  <1>4. busy'[t] \in Copying /\ busy'[t].top \in Dirs
    BY <1>1, <1>2, <1>3 DEF Copying, Copies
  <1>5. ItemTypes'
    <2>1. busy' \in [Threads -> Copying]
      BY <1>1, <1>2, <1>4
    <2>2. \A u \in Threads : busy'[u].what # "free" => busy'[u].top \in Dirs
      BY <1>1, <1>4 DEF IInv, ItemTypes
    <2> QED  BY <1>1, <1>2, <1>3, <2>1, <2>2 DEF IInv, ItemTypes
  <1>6. PhaseInv'
    BY <1>1 DEF IInv, PhaseInv
  <1>7. FoundInv'
    BY <1>1, FoundKeeps DEF IInv
  <1>8. ASSUME NEW top \in Dirs PROVE CountInv(top)' /\ SlotInv(top)' /\ OnceInv(top)'
    <2> DEFINE was == [x \in Pending(top)' |-> Before(t, x)]
    <2>1. IsMerged(top)' => IsMerged(top)
      BY <1>1, <1>2 DEF IsMerged
    <2>2. /\ \A x \in Pending(top)' : /\ was[x] \in Pending(top) /\ was[x][1] = x[1]
                                      /\ SlotOf(was[x]) = SlotOf(x)'
          /\ \A y \in Pending(top) : \E x \in Pending(top)' : was[x] = y
      BY PopPlaces DEF IInv
    <2>3. \A x, y \in Pending(top)' : was[x] = was[y] => x = y
      <3>1. Pending(top)' \subseteq Threads \X Nat
        BY DEF Pending
      <3>2. \A x, y \in Threads \X Nat : Before(t, x) = Before(t, y) => x = y
        BY PopPlaces DEF IInv
      <3> QED  BY <3>1, <3>2
    <2> HIDE DEF was
    <2>4. CountInv(top) /\ SlotInv(top) /\ OnceInv(top) /\ left[top] \in Nat
      BY DEF IInv, ItemTypes
    <2> QED  BY <1>1, <2>1, <2>2, <2>3, <2>4, CopiesMove
  <1> QED  BY <1>5, <1>6, <1>7, <1>8 DEF IInv

\* A thread writes or fails to, and will count; or it has merged.
LEMMA WriteInv ==
    ASSUME IInv, NEW t \in Threads, CopyToTop(t) \/ CopyFails(t) \/ RollupMerge(t)
    PROVE  IInv'
  <1>0. busy \in [Threads -> Copying] /\ 0 \in Threads /\ \A u \in Threads : busy[u] \in Copying
    BY TopDownAssumption DEF IInv, ItemTypes, Threads
  <1>1. /\ UNCHANGED <<phase, todo, tops, lists, next, queue, left>>
        /\ \/ busy[t].what = "write" /\ busy' = [busy EXCEPT ![t] = [busy[t] EXCEPT !.what = "count"]]
           \/ busy[t].what = "merge" /\ busy' = [busy EXCEPT ![t] = Free]
    BY <1>0 DEF CopyToTop, CopyFails, RollupMerge
  <1>2. ItemTypes'
    <2>1. [busy[t] EXCEPT !.what = "count"] \in Copying /\ Free \in Copying
      BY <1>0 DEF Copying, Free
    <2>2. busy' \in [Threads -> Copying]
      BY <1>0, <1>1, <2>1
    <2>3. [busy[t] EXCEPT !.what = "count"].top = busy[t].top /\ Free.what = "free"
      BY <1>0 DEF Copying, Free
    <2>4. ASSUME NEW u \in Threads, busy'[u].what # "free" PROVE busy'[u].top \in Dirs
      BY <1>0, <1>1, <2>3, <2>4 DEF IInv, ItemTypes
    <2> QED  BY <1>1, <2>2, <2>4 DEF IInv, ItemTypes
  <1>3. PhaseInv'
    BY <1>1 DEF IInv, PhaseInv
  <1>4. FoundInv'
    BY <1>1, FoundKeeps DEF IInv
  <1>5. ASSUME NEW u \in Threads
        PROVE  /\ busy'[u].what \in {"write", "count"} => busy[u].what \in {"write", "count"}
               /\ busy'[u].what = "merge" => busy[u].what = "merge"
               /\ busy'[u].what # "free" => busy'[u].top = busy[u].top /\ busy'[u].slot = busy[u].slot
    BY <1>0, <1>1 DEF Copying, Free
  <1>6. ASSUME NEW top \in Dirs PROVE CountInv(top)' /\ SlotInv(top)' /\ OnceInv(top)'
    <2>1. IsMerged(top)' => IsMerged(top)
      BY <1>5 DEF IsMerged
    <2>2. ASSUME NEW u \in Threads, NEW k \in Nat
          PROVE  /\ <<u, k>> \in Pending(top)' <=> <<u, k>> \in Pending(top)
                 /\ <<u, k>> \in Pending(top) => SlotOf(<<u, k>>)' = SlotOf(<<u, k>>)
      <3>0. k \in DOMAIN queue[u] => k # 0
        <4>1. queue[u] \in Seq(Copies)
          BY DEF IInv, ItemTypes
        <4> QED  BY <4>1
      <3>1. CASE k = 0
        <4>1. busy'[u].what \in {"write", "count"} <=> busy[u].what \in {"write", "count"}
          BY <1>0, <1>1, <1>5 DEF Copying, Free
        <4>2. busy[u].what \in {"write", "count"} =>
                  busy'[u].top = busy[u].top /\ busy'[u].slot = busy[u].slot
          BY <1>5, <4>1
        <4> QED  BY <1>1, <3>0, <3>1, <4>1, <4>2, PendingIs, PendingNext
      <3>2. CASE k # 0
        BY <1>1, <3>2, PendingIs, PendingNext
      <3> QED  BY <3>1, <3>2
    <2>3. CountInv(top) /\ SlotInv(top) /\ OnceInv(top) /\ left'[top] = left[top]
      BY <1>1 DEF IInv
    <2>4. Pending(top)' = Pending(top) /\ CountInv(top)' /\ SlotInv(top)'
      BY <2>1, <2>2, <2>3, PlacesKept
    <2> QED  BY <1>1, <2>1, <2>3, <2>4 DEF OnceInv
  <1> QED  BY <1>2, <1>3, <1>4, <1>6 DEF IInv

\* Each copy is counted once, and the last one leaves none to be made.
LEMMA CountStep == ASSUME IInv, NEW t \in Threads, CountCopy(t) PROVE IInv'
  <1>16. PICK top, n : top = busy[t].top /\ n = left[top] - 1
    OBVIOUS
  <1>0. /\ busy \in [Threads -> Copying] /\ left \in [Dirs -> Nat]
        /\ \A u \in Threads : busy[u] \in Copying
    BY DEF IInv, ItemTypes
  <1>1. /\ UNCHANGED <<phase, todo, tops, lists, next, queue>>
        /\ busy[t].what = "count" /\ left' = [left EXCEPT ![top] = n]
        /\ busy' = [busy EXCEPT ![t] = IF n = 0 THEN [busy[t] EXCEPT !.what = "merge"] ELSE Free]
    BY <1>16 DEF CountCopy, IsLast
  <1>2. top \in Dirs /\ left[top] \in Nat
    BY <1>0, <1>1, <1>16 DEF IInv, ItemTypes
  <1>3. [busy[t] EXCEPT !.what = "merge"] \in Copying /\ Free \in Copying /\ Free.what = "free"
    BY <1>0, TopDownAssumption DEF Copying, Free, Threads
  <1>4. ASSUME NEW u \in Threads
        PROVE  /\ busy'[u].what \in {"write", "count"} => u # t /\ busy'[u] = busy[u]
               /\ u # t => busy'[u] = busy[u]
               /\ busy'[u].what = "merge" => (u = t /\ n = 0) \/ busy'[u] = busy[u]
               /\ busy'[u].what # "free" => busy'[u].top = busy[u].top
    <2>1. [busy[t] EXCEPT !.what = "merge"].what = "merge" /\ [busy[t] EXCEPT !.what = "merge"].top = top
      BY <1>0, <1>16 DEF Copying
    <2> QED  BY <1>0, <1>1, <1>3, <1>16, <2>1
  <1>5. <<t, 0>> \in Pending(top)
    BY <1>1, <1>16, PendingIs
  <1>6. CountInv(top) /\ ~IsMerged(top) /\ n \in Nat
    <2>1. CountInv(top)
      BY <1>2 DEF IInv
    <2>2. Cardinality(Pending(top)) \in Nat /\ Cardinality(Pending(top)) # 0
      BY <1>5, <2>1, FS_CardinalityType, FS_EmptySet DEF CountInv
    <2> QED  BY <1>2, <1>16, <2>1, <2>2 DEF CountInv
  <1>7. Pending(top)' = Pending(top) \ {<<t, 0>>}
    <2>1. ASSUME NEW u \in Threads, NEW k \in Nat
          PROVE  <<u, k>> \in Pending(top)' <=> <<u, k>> \in Pending(top) \ {<<t, 0>>}
      <3>1. CASE u = t /\ k = 0
        <4>1. 0 \notin DOMAIN queue'[u] /\ busy'[u].what \notin {"write", "count"}
          <5>1. queue[u] \in Seq(Copies)
            BY DEF IInv, ItemTypes
          <5> QED  BY <1>1, <1>4, <3>1, <5>1
        <4> QED  BY <3>1, <4>1, PendingNext
      <3>2. CASE ~(u = t /\ k = 0)
        <4>1. <<u, k>> # <<t, 0>> /\ (k = 0 => busy'[u] = busy[u])
          BY <1>4, <3>2
        <4> QED  BY <1>1, <4>1, PendingIs, PendingNext
      <3> QED  BY <3>1, <3>2
    <2> QED  BY <2>1, PendingIs, PendingNext
  <1>8. \A x \in Pending(top)' : SlotOf(x)' = SlotOf(x)
    <2>1. SUFFICES ASSUME NEW u \in Threads, NEW k \in Nat, <<u, k>> \in Pending(top)'
                   PROVE  SlotOf(<<u, k>>)' = SlotOf(<<u, k>>)
      BY PendingNext
    <2>2. k = 0 => busy'[u] = busy[u]
      BY <1>4, <1>7, <2>1
    <2> QED  BY <1>1, <2>2, PendingIs, PendingNext
  <1>9. CountInv(top)'
    <2>1. IsFiniteSet(Pending(top)') /\ Cardinality(Pending(top)') = Cardinality(Pending(top)) - 1
      BY <1>5, <1>6, <1>7, FS_RemoveElement DEF CountInv
    <2>2. left'[top] = n /\ Cardinality(Pending(top)) \in Nat
      BY <1>0, <1>1, <1>2, <1>6, FS_CardinalityType DEF CountInv
    <2>3. IsMerged(top)' => n = 0
      BY <1>4, <1>6 DEF IsMerged
    <2>4. Cardinality(Pending(top)) = left[top]
      BY <1>6 DEF CountInv
    <2> QED  BY <1>2, <1>16, <2>1, <2>2, <2>3, <2>4 DEF CountInv
  <1>10. SlotInv(top)'
    BY <1>2, <1>7, <1>8 DEF IInv, SlotInv
  <1>11. OnceInv(top)'
    BY <1>1, <1>2, <1>5 DEF IInv, OnceInv
  <1>12. ASSUME NEW o \in Dirs, o # top PROVE CountInv(o)' /\ SlotInv(o)' /\ OnceInv(o)'
    <2>1. IsMerged(o)' => IsMerged(o)
      <3>1. SUFFICES ASSUME NEW u \in Threads, busy'[u].what = "merge", busy'[u].top = o
                     PROVE  busy[u].what = "merge" /\ busy[u].top = o
        BY DEF IsMerged
      <3>2. busy[u].top = o
        BY <1>4, <3>1
      <3> QED  BY <1>4, <1>12, <1>16, <3>1, <3>2
    <2>2. ASSUME NEW u \in Threads, NEW k \in Nat
          PROVE  /\ <<u, k>> \in Pending(o)' <=> <<u, k>> \in Pending(o)
                 /\ <<u, k>> \in Pending(o) => SlotOf(<<u, k>>)' = SlotOf(<<u, k>>)
      <3>0. k \in DOMAIN queue[u] => k # 0
        <4>1. queue[u] \in Seq(Copies)
          BY DEF IInv, ItemTypes
        <4> QED  BY <4>1
      <3>1. CASE k = 0
        <4>1. CASE u = t
          <5>1. busy[u].top # o /\ busy'[u].what \notin {"write", "count"}
            BY <1>4, <1>12, <1>16, <4>1
          <5> QED  BY <1>1, <3>0, <3>1, <5>1, PendingIs, PendingNext
        <4>2. CASE u # t
          <5>1. busy'[u] = busy[u]
            BY <1>4, <4>2
          <5>2. busy'[u].what = busy[u].what /\ busy'[u].top = busy[u].top /\ busy'[u].slot = busy[u].slot
            BY <5>1
          <5> QED  BY <1>1, <3>0, <3>1, <5>2, PendingIs, PendingNext
        <4> QED  BY <4>1, <4>2
      <3>2. CASE k # 0
        BY <1>1, <3>2, PendingIs, PendingNext
      <3> QED  BY <3>1, <3>2
    <2>3. CountInv(o) /\ SlotInv(o) /\ OnceInv(o) /\ left'[o] = left[o]
      BY <1>0, <1>1, <1>12 DEF IInv
    <2>4. Pending(o)' = Pending(o) /\ CountInv(o)' /\ SlotInv(o)'
      BY <2>1, <2>2, <2>3, PlacesKept
    <2> QED  BY <1>1, <2>1, <2>3, <2>4 DEF OnceInv
  <1>13. ItemTypes'
    <2>1. left' \in [Dirs -> Nat]
      BY <1>0, <1>1, <1>6
    <2>2. busy' \in [Threads -> Copying]
      BY <1>0, <1>1, <1>3
    <2>3. \A u \in Threads : busy'[u].what # "free" => busy'[u].top \in Dirs
      <3>1. ASSUME NEW u \in Threads, busy'[u].what # "free" PROVE busy[u].what # "free"
        BY <1>1, <1>4, <3>1
      <3> QED  BY <1>4, <3>1 DEF IInv, ItemTypes
    <2> QED  BY <1>1, <2>1, <2>2, <2>3 DEF IInv, ItemTypes
  <1>14. PhaseInv'
    BY <1>1 DEF IInv, PhaseInv
  <1>15. FoundInv'
    BY <1>1, FoundKeeps DEF IInv
  <1> QED  BY <1>9, <1>10, <1>11, <1>12, <1>13, <1>14, <1>15 DEF IInv

-----------------------------------------------------------------------------
(* Dealing a subtree out.                                                  *)

LEMMA BelowIs ==
    ASSUME ItemTypes, NEW top \in Dirs
    PROVE  Below1(top) \in Seq(Dirs)
  <1>1. N \in Nat
    BY TopDownAssumption
  <1>2. \A i \in 1 .. N : lists[top][i - 1] \in Seq(Dirs)
    BY <1>1 DEF ItemTypes, Threads
  <1>3. [i \in 1 .. N |-> lists[top][i - 1]] \in Seq(Seq(Dirs))
    BY <1>1, <1>2
  <1> QED  BY <1>3, FlattenType DEF Below1

\* main() gives up a top.
LEMMA EnqueueFailsInv == ASSUME IInv, EnqueueFails PROVE IInv'
  <1>1. /\ UNCHANGED <<phase, todo, next, queue, busy, left>> /\ tops' = Popped
        /\ phase = "copy" /\ TopsLeft
        /\ lists' = [lists EXCEPT ![NextTop] = [t \in Threads |-> <<>>]]
    BY DEF EnqueueFails, Ready
  <1>2. /\ Popped \in [Threads -> Seq(Dirs)] /\ NextTop \in Dirs
    BY <1>1, PoppedIs DEF IInv
  <1>3. lists' \in [Dirs -> [Threads -> Seq(Dirs)]]
    BY <1>1, <1>2 DEF IInv, ItemTypes
  <1>4. ItemTypes'
    BY <1>1, <1>2, <1>3 DEF IInv, ItemTypes
  <1>5. PhaseInv'
    BY <1>1 DEF IInv, PhaseInv
  <1>6. FoundInv' /\ \A top : IsTopOf(tops', top) => IsTopOf(tops, top)
    BY <1>1, FoundPopped DEF IInv, IsTopOf
  <1>7. CopiesInv'
    BY <1>1, <1>6, CopiesKept DEF IInv, CopiesInv
  <1> QED  BY <1>4, <1>5, <1>6, <1>7 DEF IInv, CopiesInv

\* What main() deals out: the item at a place behind those that were there.
Item(u, k) == Dealt(u, k - Len(queue[u]))

New(u, k) == k \in DOMAIN queue'[u] /\ k \notin DOMAIN queue[u]

DealtTo(top, dirs) ==
    /\ queue' \in [Threads -> Seq(Copies)]
    /\ \A u \in Threads : \A k \in Nat : k \in DOMAIN queue[u] =>
           k # 0 /\ k \in DOMAIN queue'[u] /\ queue'[u][k] = queue[u][k]
    /\ \A u \in Threads : \A k \in Nat : New(u, k) =>
           /\ k # 0 /\ Item(u, k) \in 1 .. Len(dirs)
           /\ queue'[u][k].top = top /\ queue'[u][k].dir = dirs[Item(u, k)]
           /\ queue'[u][k].slot = (Item(u, k) - 1) % ThreadsUsed(Len(dirs))
    /\ \A u, v \in Threads : \A k, l \in Nat : New(u, k) /\ New(v, l) =>
           /\ Item(u, k) = Item(v, l) => u = v /\ k = l
           /\ (Item(u, k) - 1) % ThreadsUsed(Len(dirs))
                  = (Item(v, l) - 1) % ThreadsUsed(Len(dirs)) => u = v
    /\ \A i \in 1 .. Len(dirs) : \E u \in Threads : \E k \in Nat : New(u, k) /\ Item(u, k) = i

\* A place has no item of another top that was not there before.
LEMMA DealtOthers ==
    ASSUME NEW top, NEW dirs, DealtTo(top, dirs), NEW u \in Threads, NEW k \in Nat, NEW o, o # top
    PROVE  k \in DOMAIN queue'[u] /\ queue'[u][k].top = o <=> k \in DOMAIN queue[u] /\ queue[u][k].top = o
  <1>1. k \in DOMAIN queue[u] => k \in DOMAIN queue'[u] /\ queue'[u][k] = queue[u][k]
    BY DEF DealtTo
  <1>2. New(u, k) => queue'[u][k].top = top
    BY DEF DealtTo
  <1> QED  BY <1>1, <1>2 DEF New

LEMMA DealtOut ==
    ASSUME ItemTypes, EnqueueRollupCopy, NEW top \in Dirs, top = NextTop,
           NEW dirs \in Seq(Dirs), dirs = Below1(NextTop)
    PROVE  DealtTo(top, dirs)
  <1> DEFINE Share1(t) == Share(t, Len(Below1(NextTop)))
             slot(t, k) == (Dealt(t, k) - 1) % ThreadsUsed(Len(Below1(NextTop)))
             copy(t, k) == [top |-> NextTop, dir |-> Below1(NextTop)[Dealt(t, k)], slot |-> slot(t, k)]
             new(t) == [k \in 1 .. Share1(t) |-> copy(t, k)]
  <1>1. queue' = [t \in Threads |-> queue[t] \o new(t)]
    BY DEF EnqueueRollupCopy
  <1>2. Len(dirs) \in Nat
    BY LenProperties
  <1>3. next \in Threads /\ queue \in [Threads -> Seq(Copies)]
    BY DEF ItemTypes
  <1>4. ASSUME NEW t \in Threads
        PROVE  /\ new(t) \in Seq(Copies) /\ Len(new(t)) = Share(t, Len(dirs))
               /\ Share(t, Len(dirs)) \in Nat
               /\ \A k \in 1 .. Share(t, Len(dirs)) :
                      /\ Dealt(t, k) \in 1 .. Len(dirs)
                      /\ new(t)[k].top = top /\ new(t)[k].dir = dirs[Dealt(t, k)]
                      /\ new(t)[k].slot = (Dealt(t, k) - 1) % ThreadsUsed(Len(dirs))
    <2>1. Share(t, Len(dirs)) \in Nat
      BY <1>2, <1>3, DealtIs
    <2>2. ASSUME NEW k \in 1 .. Share(t, Len(dirs))
          PROVE  copy(t, k) \in Copies /\ Dealt(t, k) \in 1 .. Len(dirs)
      <3>1. Dealt(t, k) \in 1 .. Len(dirs) /\ slot(t, k) \in Threads
        BY <1>2, <1>3, DealtIs, DealtSlot
      <3>2. Below1(NextTop)[Dealt(t, k)] \in Dirs
        BY <1>2, <3>1
      <3> HIDE DEF slot
      <3> QED  BY <3>1, <3>2 DEF Copies
    <2>3. DOMAIN new(t) = 1 .. Share(t, Len(dirs)) /\ \A k \in DOMAIN new(t) : new(t)[k] = copy(t, k)
      OBVIOUS
    <2>4. \A k : /\ copy(t, k).top = top /\ copy(t, k).slot = slot(t, k)
                 /\ copy(t, k).dir = dirs[Dealt(t, k)]
      OBVIOUS
    <2> HIDE DEF copy, new
    <2>5. new(t) \in Seq(Copies) /\ Len(new(t)) = Share(t, Len(dirs))
      <3>1. new(t) = [k \in 1 .. Share(t, Len(dirs)) |-> new(t)[k]]
        BY <2>3 DEF new
      <3>2. new(t) \in [1 .. Share(t, Len(dirs)) -> Copies]
        BY <2>2, <2>3, <3>1
      <3> QED  BY <2>1, <2>3, <3>2
    <2> QED  BY <2>1, <2>2, <2>3, <2>4, <2>5
  <1> HIDE DEF new, copy, slot, Share1
  <1>5. ASSUME NEW u \in Threads
        PROVE  /\ queue'[u] \in Seq(Copies)
               /\ Len(queue[u]) \in Nat
               /\ DOMAIN queue[u] = 1 .. Len(queue[u])
               /\ DOMAIN queue'[u] = 1 .. (Len(queue[u]) + Share(u, Len(dirs)))
               /\ \A k \in DOMAIN queue'[u] :
                      queue'[u][k] = IF k <= Len(queue[u]) THEN queue[u][k]
                                     ELSE new(u)[k - Len(queue[u])]
    <2>1. queue'[u] = queue[u] \o new(u) /\ queue[u] \in Seq(Copies) /\ new(u) \in Seq(Copies)
      BY <1>1, <1>3, <1>4
    <2>2. Len(new(u)) = Share(u, Len(dirs))
      BY <1>4
    <2> QED  BY <2>1, <2>2, ConcatProperties, LenProperties
  <1>6. ASSUME NEW u \in Threads, NEW k \in Nat, k \in DOMAIN queue[u]
        PROVE  k # 0 /\ k \in DOMAIN queue'[u] /\ queue'[u][k] = queue[u][k]
    <2>1. k \in 1 .. Len(queue[u]) /\ Share(u, Len(dirs)) \in Nat /\ Len(queue[u]) \in Nat
      BY <1>4, <1>5, <1>6
    <2>2. k # 0 /\ k \in DOMAIN queue'[u] /\ k <= Len(queue[u])
      BY <1>5, <2>1
    <2> QED  BY <1>5, <2>2
  <1>7. ASSUME NEW u \in Threads, NEW k \in Nat, k \in DOMAIN queue'[u], k \notin DOMAIN queue[u]
        PROVE  /\ k # 0 /\ k - Len(queue[u]) \in 1 .. Share(u, Len(dirs))
               /\ k - Len(queue[u]) \in Nat /\ Len(queue[u]) \in Nat
               /\ Item(u, k) \in 1 .. Len(dirs)
               /\ queue'[u][k].top = top /\ queue'[u][k].dir = dirs[Item(u, k)]
               /\ queue'[u][k].slot = (Item(u, k) - 1) % ThreadsUsed(Len(dirs))
    <2>1. Share(u, Len(dirs)) \in Nat /\ Len(queue[u]) \in Nat
      BY <1>4, <1>5
    <2>2. k \in 1 .. (Len(queue[u]) + Share(u, Len(dirs))) /\ k \notin 1 .. Len(queue[u])
      BY <1>5, <1>7
    <2>3. k # 0 /\ ~(k <= Len(queue[u])) /\ k - Len(queue[u]) \in 1 .. Share(u, Len(dirs))
          /\ k - Len(queue[u]) \in Nat
      BY <2>1, <2>2
    <2>4. queue'[u][k] = new(u)[k - Len(queue[u])]
      BY <1>5, <1>7, <2>3
    <2> QED  BY <1>4, <2>1, <2>3, <2>4 DEF Item
  <1>8. ASSUME NEW u \in Threads, NEW v \in Threads, NEW k \in Nat, NEW l \in Nat,
               k \in DOMAIN queue'[u], k \notin DOMAIN queue[u],
               l \in DOMAIN queue'[v], l \notin DOMAIN queue[v]
        PROVE  /\ Item(u, k) = Item(v, l) => u = v /\ k = l
               /\ (Item(u, k) - 1) % ThreadsUsed(Len(dirs))
                      = (Item(v, l) - 1) % ThreadsUsed(Len(dirs)) => u = v
    <2>1. PICK i, j : i = k - Len(queue[u]) /\ j = l - Len(queue[v])
      OBVIOUS
    <2>2. /\ i \in 1 .. Share(u, Len(dirs)) /\ i \in Nat /\ Len(queue[u]) \in Nat
          /\ j \in 1 .. Share(v, Len(dirs)) /\ j \in Nat /\ Len(queue[v]) \in Nat
      BY <1>7, <1>8, <2>1
    <2>3. Item(u, k) = Dealt(u, i) /\ Item(v, l) = Dealt(v, j)
      BY <2>1 DEF Item
    <2>4. Dealt(u, i) = Dealt(v, j) => u = v /\ i = j
      BY <1>2, <1>3, <2>2, DealtIs
    <2>5. (Dealt(u, i) - 1) % ThreadsUsed(Len(dirs)) = (Dealt(v, j) - 1) % ThreadsUsed(Len(dirs)) => u = v
      BY <1>2, <1>3, <2>2, DealtSlot
    <2>6. u = v /\ i = j => k = l
      BY <2>1, <2>2
    <2> QED  BY <2>3, <2>4, <2>5, <2>6
  <1>9. ASSUME NEW i \in 1 .. Len(dirs)
        PROVE  \E u \in Threads : \E k \in Nat :
                   k \in DOMAIN queue'[u] /\ k \notin DOMAIN queue[u] /\ Item(u, k) = i
    <2>0. PICK u \in Threads : \E j \in 1 .. Share(u, Len(dirs)) : Dealt(u, j) = i
      BY <1>2, <1>3, AllDealt
    <2>1. PICK j \in 1 .. Share(u, Len(dirs)) : Dealt(u, j) = i
      BY <2>0
    <2>2. Share(u, Len(dirs)) \in Nat /\ Len(queue[u]) \in Nat
      BY <1>4, <1>5
    <2>3. PICK k : k = Len(queue[u]) + j
      OBVIOUS
    <2>4. /\ k \in Nat /\ k \in 1 .. (Len(queue[u]) + Share(u, Len(dirs)))
          /\ k \notin 1 .. Len(queue[u]) /\ k - Len(queue[u]) = j
      BY <2>2, <2>3
    <2> QED  BY <1>5, <2>1, <2>4 DEF Item
  <1>10. queue' \in [Threads -> Seq(Copies)]
    BY <1>1, <1>5
  <1>11. \A u \in Threads : \A k \in Nat : k \in DOMAIN queue[u] =>
             k # 0 /\ k \in DOMAIN queue'[u] /\ queue'[u][k] = queue[u][k]
    BY <1>6
  <1>12. \A u \in Threads : \A k \in Nat : New(u, k) =>
             /\ k # 0 /\ Item(u, k) \in 1 .. Len(dirs)
             /\ queue'[u][k].top = top /\ queue'[u][k].dir = dirs[Item(u, k)]
             /\ queue'[u][k].slot = (Item(u, k) - 1) % ThreadsUsed(Len(dirs))
    BY <1>7 DEF New
  <1>13. \A u, v \in Threads : \A k, l \in Nat : New(u, k) /\ New(v, l) =>
             /\ Item(u, k) = Item(v, l) => u = v /\ k = l
             /\ (Item(u, k) - 1) % ThreadsUsed(Len(dirs))
                    = (Item(v, l) - 1) % ThreadsUsed(Len(dirs)) => u = v
    BY <1>8 DEF New
  <1>14. \A i \in 1 .. Len(dirs) : \E u \in Threads : \E k \in Nat : New(u, k) /\ Item(u, k) = i
    BY <1>9 DEF New
  <1> QED  BY <1>10, <1>11, <1>12, <1>13, <1>14 DEF DealtTo

LEMMA EnqueueInv == ASSUME IInv, EnqueueRollupCopy PROVE IInv'
  <1>1. /\ UNCHANGED <<phase, todo, busy>> /\ tops' = Popped /\ phase = "copy" /\ TopsLeft
        /\ left' = [left EXCEPT ![NextTop] = Len(Below1(NextTop))]
        /\ next' = (next + Len(Below1(NextTop))) % N
        /\ lists' = [lists EXCEPT ![NextTop] = [t \in Threads |-> <<>>]]
    BY DEF EnqueueRollupCopy, Ready, QueueAfter
  <1>2. PICK top, dirs : top = NextTop /\ dirs = Below1(NextTop)
    OBVIOUS
  <1>3. top \in Dirs /\ dirs \in Seq(Dirs) /\ Len(dirs) \in Nat
    <2>1. top \in Dirs
      BY <1>1, <1>2, PoppedIs DEF IInv
    <2>2. dirs \in Seq(Dirs)
      BY <1>2, <2>1, BelowIs DEF IInv
    <2> QED  BY <2>1, <2>2
  <1>4. next \in Threads /\ left \in [Dirs -> Nat] /\ queue \in [Threads -> Seq(Copies)] /\ ItemTypes
    BY DEF IInv, ItemTypes
  <1>5. DealtTo(top, dirs)
    BY <1>2, <1>3, <1>4, DealtOut
  <1>7. ItemTypes'
    <2>2. next' \in Threads
      <3>1. next \in Int /\ next + Len(dirs) \in Int
        BY <1>3, <1>4, TopDownAssumption DEF Threads
      <3> QED  BY <1>1, <1>2, <3>1, Division DEF Threads
    <2>3. Popped \in [Threads -> Seq(Dirs)]
      BY <1>1, PoppedIs DEF IInv
    <2>4. lists' \in [Dirs -> [Threads -> Seq(Dirs)]] /\ left' \in [Dirs -> Nat]
      BY <1>1, <1>2, <1>3 DEF IInv, ItemTypes
    <2> QED  BY <1>1, <1>5, <2>2, <2>3, <2>4 DEF IInv, ItemTypes, DealtTo
  <1>8. PhaseInv'
    BY <1>1 DEF IInv, PhaseInv
  <1>9. /\ FoundInv'
        /\ \A t \in Threads : \A i \in DOMAIN tops'[t] : tops'[t][i] # top
        /\ \A o : (\A t \in Threads : \A i \in DOMAIN tops[t] : tops[t][i] # o)
                  => \A t \in Threads : \A i \in DOMAIN tops'[t] : tops'[t][i] # o
    BY <1>1, <1>2, FoundPopped DEF IInv
  <1>10. Pending(top) = {} /\ ~IsMerged(top)
    <2>1. \E t \in Threads : \E i \in DOMAIN tops[t] : tops[t][i] = top
      BY <1>1, <1>2, PoppedIs DEF IInv
    <2> QED  BY <1>3, <2>1 DEF IInv, OnceInv
  <1>11. \A o : IsMerged(o)' <=> IsMerged(o)
    BY <1>1 DEF IsMerged
  <1>12. ASSUME NEW u \in Threads, NEW k \in Nat
         PROVE  /\ <<u, k>> \in Pending(top)' <=> New(u, k)
                /\ <<u, k>> \in Pending(top)' =>
                       SlotOf(<<u, k>>)' = (Item(u, k) - 1) % ThreadsUsed(Len(dirs))
    <2>1. ~(k = 0 /\ busy[u].what \in {"write", "count"} /\ busy[u].top = top)
      BY <1>10, PendingIs
    <2>2. ~(k \in DOMAIN queue[u] /\ queue[u][k].top = top)
      BY <1>10, PendingIs
    <2>3. <<u, k>> \in Pending(top)' <=> k \in DOMAIN queue'[u] /\ queue'[u][k].top = top
      BY <1>1, <2>1, PendingNext
    <2>4. <<u, k>> \in Pending(top)' <=> New(u, k)
      BY <1>5, <2>2, <2>3 DEF DealtTo, New
    <2>5. <<u, k>> \in Pending(top)' => SlotOf(<<u, k>>)' = queue'[u][k].slot
      BY <1>5, <2>4, PendingNext DEF DealtTo
    <2> QED  BY <1>5, <2>4, <2>5 DEF DealtTo
  <1>13. CountInv(top)'
    <2> DEFINE S == Pending(top)'
               g == [x \in S |-> Item(x[1], x[2])]
    <2>1. \A x \in S : \E u \in Threads : \E k \in Nat : x = <<u, k>>
      BY PendingNext
    <2>2. \A u \in Threads : \A k \in Nat : <<u, k>> \in S => g[<<u, k>>] = Item(u, k)
      OBVIOUS
    <2>3. \A x \in S : g[x] \in 1 .. Len(dirs)
      BY <1>5, <1>12, <2>1, <2>2 DEF DealtTo
    <2>4. ASSUME NEW x \in S, NEW y \in S, g[x] = g[y] PROVE x = y
      <3>1. PICK u \in Threads, k \in Nat : x = <<u, k>>
        BY <2>1
      <3>2. PICK v \in Threads, l \in Nat : y = <<v, l>>
        BY <2>1
      <3>3. Item(u, k) = Item(v, l)
        BY <2>2, <2>4, <3>1, <3>2
      <3> QED  BY <1>5, <1>12, <3>1, <3>2, <3>3 DEF DealtTo
    <2>5. ASSUME NEW i \in 1 .. Len(dirs) PROVE \E x \in S : g[x] = i
      <3>1. PICK u \in Threads, k \in Nat :
                New(u, k) /\ Item(u, k) = i
        BY <1>5 DEF DealtTo
      <3>2. <<u, k>> \in S
        BY <1>12, <3>1
      <3> QED  BY <2>2, <3>1, <3>2
    <2>6. IsFiniteSet(1 .. Len(dirs)) /\ Cardinality(1 .. Len(dirs)) = Len(dirs)
      BY <1>3, FS_Interval
    <2> DEFINE h == [i \in 1 .. Len(dirs) |-> CHOOSE x \in S : g[x] = i]
    <2>7. \A i \in 1 .. Len(dirs) : h[i] \in S /\ g[h[i]] = i
      BY <2>5
    <2>8. h \in [1 .. Len(dirs) -> S]
      BY <2>7
    <2> HIDE DEF g, h, S
    <2>9. \A x \in S : h[g[x]] = x
      BY <2>3, <2>4, <2>7
    <2>10. h \in Bijection(1 .. Len(dirs), S)
      BY <2>3, <2>7, <2>8, <2>9 DEF Bijection, Injection, Surjection, IsInjective
    <2>11. IsFiniteSet(S) /\ Cardinality(S) = Len(dirs)
      BY <2>6, <2>10, FS_Bijection DEF ExistsBijection
    <2>12. left'[top] = Len(dirs)
      BY <1>1, <1>2, <1>3, <1>4
    <2> QED  BY <1>10, <1>11, <2>11, <2>12 DEF CountInv, S
  <1>14. SlotInv(top)'
    <2>1. SUFFICES ASSUME NEW u \in Threads, NEW k \in Nat, NEW v \in Threads, NEW l \in Nat,
                          <<u, k>> \in Pending(top)', <<v, l>> \in Pending(top)',
                          SlotOf(<<u, k>>)' = SlotOf(<<v, l>>)'
                   PROVE  u = v
      BY PendingNext DEF SlotInv
    <2> QED  BY <1>5, <1>12, <2>1 DEF DealtTo
  <1>15. OnceInv(top)'
    BY <1>9 DEF OnceInv
  <1>16. ASSUME NEW o \in Dirs, o # top PROVE CountInv(o)' /\ SlotInv(o)' /\ OnceInv(o)'
    <2>1. ASSUME NEW u \in Threads, NEW k \in Nat
          PROVE  /\ <<u, k>> \in Pending(o)' <=> <<u, k>> \in Pending(o)
                 /\ <<u, k>> \in Pending(o) => SlotOf(<<u, k>>)' = SlotOf(<<u, k>>)
      <3>1. k \in DOMAIN queue'[u] /\ queue'[u][k].top = o <=> k \in DOMAIN queue[u] /\ queue[u][k].top = o
        BY <1>5, <1>16, DealtOthers
      <3>2. <<u, k>> \in Pending(o)' <=> <<u, k>> \in Pending(o)
        BY <1>1, <3>1, PendingIs, PendingNext
      <3>3. <<u, k>> \in Pending(o) /\ k # 0 => k \in DOMAIN queue[u]
        BY PendingIs
      <3>4. k = 0 => SlotOf(<<u, k>>)' = SlotOf(<<u, k>>)
        BY <1>1, PendingIs, PendingNext
      <3>5. k \in DOMAIN queue[u] => SlotOf(<<u, k>>)' = SlotOf(<<u, k>>)
        BY <1>5, PendingIs, PendingNext DEF DealtTo
      <3> QED  BY <3>2, <3>3, <3>4, <3>5
    <2>2. CountInv(o) /\ SlotInv(o) /\ OnceInv(o) /\ left'[o] = left[o] /\ (IsMerged(o)' => IsMerged(o))
      BY <1>1, <1>2, <1>4, <1>11, <1>16 DEF IInv
    <2>3. Pending(o)' = Pending(o) /\ CountInv(o)' /\ SlotInv(o)'
      BY <2>1, <2>2, PlacesKept
    <2>4. OnceInv(o)'
      BY <1>9, <1>11, <2>2, <2>3 DEF OnceInv
    <2> QED  BY <2>3, <2>4
  <1> QED  BY <1>7, <1>8, <1>9, <1>13, <1>14, <1>15, <1>16 DEF IInv

-----------------------------------------------------------------------------
(* What the run checks.                                                    *)

LEMMA InitInv == Init => IInv
  <1> SUFFICES ASSUME Init PROVE IInv
    OBVIOUS
  <1>1. /\ todo = {} /\ phase = "idle" /\ next = 0 /\ left = [d \in Dirs |-> 0]
        /\ tops = [t \in Threads |-> <<>>] /\ queue = [t \in Threads |-> <<>>]
        /\ lists = [d \in Dirs |-> [t \in Threads |-> <<>>]] /\ busy = [t \in Threads |-> Free]
    BY DEF Init
  <1>2. 0 \in Threads /\ Free \in Copying /\ Free.what = "free"
    BY TopDownAssumption DEF Threads, Free, Copying
  <1>3. ItemTypes /\ PhaseInv
    BY <1>1, <1>2 DEF ItemTypes, PhaseInv
  <1>4. \A t \in Threads : DOMAIN tops[t] = {} /\ DOMAIN queue[t] = {} /\ busy[t].what = "free"
    BY <1>1, <1>2
  <1>5. FoundInv
    BY <1>1, <1>4 DEF FoundInv, IsFound
  <1>6. ASSUME NEW top \in Dirs PROVE CountInv(top) /\ SlotInv(top) /\ OnceInv(top)
    <2>1. Pending(top) = {} /\ ~IsMerged(top)
      BY <1>4 DEF Pending, IsMerged
    <2> QED  BY <1>1, <2>1, FS_EmptySet DEF CountInv, SlotInv, OnceInv
  <1> QED  BY <1>3, <1>5, <1>6 DEF IInv

LEMMA NextInv == IInv /\ [Next]_vars => IInv'
  <1> SUFFICES ASSUME IInv, [Next]_vars PROVE IInv'
    OBVIOUS
  <1>1. CASE UNCHANGED vars
    <2>1. UNCHANGED <<phase, todo, tops, lists, next, queue, busy, left>>
      BY <1>1 DEF vars
    <2>2. ItemTypes' /\ PhaseInv'
      BY <2>1 DEF IInv, ItemTypes, PhaseInv
    <2>3. FoundInv' /\ CopiesInv'
      BY <2>1, FoundKeeps, CopiesKept DEF IInv, CopiesInv
    <2> QED  BY <2>2, <2>3 DEF IInv, CopiesInv
  <1>2. ASSUME NEW o \in Options, Start(o) PROVE IInv'
    BY <1>2, StartInv
  <1>3. CASE MainStep
    BY <1>3, MainQuiet, EnqueueInv, EnqueueFailsInv DEF MainStep
  <1>4. ASSUME NEW t \in Threads, FindStep(t) PROVE IInv'
    BY <1>4, DescendInv, TopInv, WalkSteps DEF FindStep
  <1>5. ASSUME NEW t \in Threads, CopyStep(t) PROVE IInv'
    BY <1>5, PopInv, WriteInv, CountStep DEF CopyStep
  <1> QED  BY <1>1, <1>2, <1>3, <1>4, <1>5 DEF Next

\* The copies of every top are counted, and those for one staging database
\* are with one thread.
THEOREM Invariant == Spec => []IInv
  BY InitInv, NextInv, PTL DEF Spec

\* The comment at enqueue_rollup_copy: each thread only ever gets work for one
\* database and thus never races.  Nothing locks a staging database, but no two
\* threads write to the same one of a top, and none writes while they are merged.
THEOREM ThreadsNeverRace == Spec => []OneWriterPerDb
  <1>1. IInv => OneWriterPerDb
    <2> SUFFICES ASSUME IInv, NEW t \in Threads, NEW u \in Threads, t # u,
                        busy[t].what = "write", busy[u].top = busy[t].top
                 PROVE  /\ busy[u].what # "merge"
                        /\ ~(busy[u].what = "write" /\ busy[u].slot = busy[t].slot)
      BY DEF OneWriterPerDb
    <2>1. PICK top \in Dirs : busy[t].top = top
      BY DEF IInv, ItemTypes
    <2>2. CountInv(top) /\ SlotInv(top) /\ left[top] \in Nat
      BY DEF IInv, ItemTypes
    <2>3. <<t, 0>> \in Pending(top)
      BY <2>1, PendingIs
    <2>4. busy[u].what # "merge"
      <3>1. Cardinality(Pending(top)) \in Nat /\ Cardinality(Pending(top)) # 0
        BY <2>2, <2>3, FS_CardinalityType, FS_EmptySet DEF CountInv
      <3>2. left[top] # 0
        BY <2>2, <3>1 DEF CountInv
      <3> QED  BY <2>1, <2>2, <3>2 DEF CountInv, IsMerged
    <2>5. ~(busy[u].what = "write" /\ busy[u].slot = busy[t].slot)
      <3>1. SUFFICES ASSUME busy[u].what = "write", busy[u].slot = busy[t].slot PROVE FALSE
        OBVIOUS
      <3>2. <<u, 0>> \in Pending(top) /\ SlotOf(<<u, 0>>) = SlotOf(<<t, 0>>)
        BY <2>1, <3>1, PendingIs
      <3> QED  BY <2>2, <2>3, <3>2 DEF SlotInv
    <2> QED  BY <2>4, <2>5
  <1> QED  BY <1>1, Invariant, PTL

-----------------------------------------------------------------------------
(* What is below a directory, and what has nothing below in common.        *)

\* Every directory can be reached, and is not below itself.
LEMMA UnderIsBelow ==
    ASSUME NEW d \in Dirs
    PROVE  /\ Under(d) = {d} \cup Below[d] /\ d \notin Below[d] /\ Below[d] \subseteq Dirs
           /\ d \in Under(Root)
           /\ Below[d] = UNION {Under(c) : c \in Kids(d)}
  <1>1. /\ Below[d] = {e \in Dirs : \A S \in SUBSET Dirs : Kids(d) \subseteq S /\ Closed(S) => e \in S}
        /\ Kids(d) \subseteq Dirs
    BY KidsIs DEF Below
  <1>2. ASSUME NEW S \in SUBSET Dirs, Kids(d) \subseteq S, \A x \in S : Kids(x) \subseteq S
        PROVE  Below[d] \subseteq S
    BY <1>1, <1>2 DEF Closed
  <1>3. Kids(d) \subseteq Below[d]
    BY <1>1
  <1>4. ASSUME NEW x \in Below[d], NEW k \in Kids(x) PROVE k \in Below[d]
    <2>1. k \in Dirs
      BY <1>1, KidsIs
    <2>2. ASSUME NEW S \in SUBSET Dirs, Kids(d) \subseteq S, Closed(S) PROVE k \in S
      BY <1>1, <2>2 DEF Closed
    <2> QED  BY <1>1, <2>1, <2>2
  <1>5. Below[d] \subseteq Under(d)
    BY <1>2, UnderIs
  <1>6. Under(d) \subseteq {d} \cup Below[d]
    <2>1. {d} \cup Below[d] \in SUBSET Dirs /\ \A x \in {d} \cup Below[d] : Kids(x) \subseteq {d} \cup Below[d]
      BY <1>1, <1>3, <1>4
    <2> QED  BY <2>1, UnderIs
  <1>7. Below[d] = UNION {Under(c) : c \in Kids(d)}
    <2> DEFINE S == UNION {Under(c) : c \in Kids(d)}
    <2>1. \A c \in Kids(d) : c \in Dirs /\ c \in Under(c) /\ Under(c) \subseteq Dirs
      BY KidsIs, UnderIs
    <2>2. S \in SUBSET Dirs /\ Kids(d) \subseteq S
      BY <2>1
    <2>3. ASSUME NEW x \in S PROVE Kids(x) \subseteq S
      BY <2>1, UnderIs
    <2>4. Below[d] \subseteq S
      BY <1>2, <2>2, <2>3
    <2>5. ASSUME NEW c \in Kids(d) PROVE Under(c) \subseteq Below[d]
      <3>1. c \in Below[d] /\ Below[d] \in SUBSET Dirs
        BY <1>1, <1>3
      <3> QED  BY <1>4, <2>1, <3>1, UnderIs
    <2> QED  BY <2>4, <2>5
  <1>8. d \in Under(Root)
    <2>1. Root \in Dirs /\ (d # Root => d \in Below[Root])
      BY TreeAssumption
    <2>2. Below[Root] = {e \in Dirs : \A S \in SUBSET Dirs : Kids(Root) \subseteq S /\ Closed(S) => e \in S}
      BY <2>1 DEF Below
    <2>3. /\ Under(Root) \in SUBSET Dirs /\ Root \in Under(Root) /\ Kids(Root) \subseteq Under(Root)
          /\ Closed(Under(Root))
      BY <2>1, UnderIs DEF Closed
    <2> QED  BY <2>1, <2>2, <2>3
  <1>9. d \notin Below[d]
    BY <1>7, <1>8, NoCycle
  <1> QED  BY <1>1, <1>5, <1>6, <1>7, <1>8, <1>9, UnderIs

\* Neither of two directories is under the other: they have nothing in common.
LEMMA UnderApart ==
    ASSUME NEW d \in Dirs, NEW e \in Dirs, d \notin Under(e), e \notin Under(d)
    PROVE  Under(d) \cap Under(e) = {}
  <1> DEFINE S == Under(d) \ Under(e)
  <1>1. d \in S /\ S \in SUBSET Dirs /\ Under(d) \subseteq Dirs
    BY UnderIs
  <1>2. ASSUME NEW x \in S, NEW k \in Kids(x) PROVE k \in S
    <2>1. k \in Under(d) /\ x \in Dirs
      BY <1>1, UnderIs
    <2>2. k # e
      BY <2>1
    <2>3. k \notin Under(e)
      BY <2>1, <2>2, ThroughParent
    <2> QED  BY <2>1, <2>3
  <1> HIDE DEF S
  <1>3. Under(d) \subseteq S
    BY <1>1, <1>2, UnderIs
  <1> QED  BY <1>3 DEF S

\* Two subdirectories of a directory have nothing in common.
LEMMA KidsApart ==
    ASSUME NEW d \in Dirs, NEW c \in Kids(d), NEW k \in Kids(d), c # k
    PROVE  Under(c) \cap Under(k) = {}
  <1>1. c \in Dirs /\ k \in Dirs /\ d \in Under(Root)
    BY KidsIs, UnderIsBelow
  <1>2. d \notin Under(c) /\ d \notin Under(k)
    BY <1>1, NoCycle
  <1>3. c \notin Under(k) /\ k \notin Under(c)
    BY <1>1, <1>2, ThroughParent
  <1> QED  BY <1>1, <1>3, UnderApart

\* What is below something under a directory is below the directory.
LEMMA BelowBelow ==
    ASSUME NEW d \in Dirs, NEW x \in Under(d)
    PROVE  x \in Dirs /\ Under(x) \subseteq Under(d) /\ Below[x] \subseteq Below[d]
  <1>1. x \in Dirs /\ Under(d) \in SUBSET Dirs /\ \A y \in Under(d) : Kids(y) \subseteq Under(d)
    BY UnderIs
  <1>2. Under(x) \subseteq Under(d)
    BY <1>1, UnderIs
  <1>3. ASSUME x # d PROVE d \notin Below[x]
    <2>1. x \in Below[d]
      BY <1>3, UnderIsBelow
    <2>2. PICK c \in Kids(d) : x \in Under(c)
      BY <2>1, UnderIsBelow
    <2>3. c \in Dirs /\ d \notin Under(c) /\ \A y \in Under(c) : Kids(y) \subseteq Under(c)
      BY KidsIs, UnderIsBelow, NoCycle, UnderIs
    <2>4. Under(x) \subseteq Under(c)
      BY <1>1, <2>2, <2>3, UnderIs
    <2> QED  BY <1>1, <2>3, <2>4, UnderIsBelow
  <1> QED  BY <1>1, <1>2, <1>3, UnderIsBelow

-----------------------------------------------------------------------------
\* main() leaves every top but the one that it takes.
LEMMA PoppedLeaves ==
    ASSUME ItemTypes, TopsLeft, NEW top, IsTopOf(tops, top), top # NextTop
    PROVE  IsTopOf(Popped, top)
  <1>1. PICK t \in Threads : \E i \in DOMAIN tops[t] : tops[t][i] = top
    BY DEF IsTopOf
  <1>2. PICK i \in DOMAIN tops[t] : tops[t][i] = top
    BY <1>1
  <1>3. FirstList \in Threads /\ tops[FirstList] # <<>> /\ tops \in [Threads -> Seq(Dirs)]
    BY FirstListIs DEF ItemTypes
  <1>4. CASE t = FirstList
    <2>1. tops[t] \in Seq(Dirs) /\ tops[t] # <<>> /\ Popped[t] = Tail(tops[t]) /\ NextTop = Head(tops[t])
      BY <1>3, <1>4 DEF Popped, NextTop
    <2>2. /\ DOMAIN Tail(tops[t]) = 1 .. (Len(tops[t]) - 1)
          /\ \A k \in 1 .. (Len(tops[t]) - 1) : Tail(tops[t])[k] = tops[t][k + 1]
          /\ DOMAIN tops[t] = 1 .. Len(tops[t]) /\ Len(tops[t]) \in Nat
          /\ Head(tops[t]) = tops[t][1]
      BY <2>1
    <2>3. i # 1 /\ i - 1 \in 1 .. (Len(tops[t]) - 1) /\ (i - 1) + 1 = i
      BY <1>2, <2>1, <2>2
    <2>4. i - 1 \in DOMAIN Popped[t] /\ Popped[t][i - 1] = top
      BY <1>2, <2>1, <2>2, <2>3
    <2> QED  BY <2>4 DEF IsTopOf
  <1>5. CASE t # FirstList
    <2>1. Popped[t] = tops[t]
      BY <1>3, <1>5 DEF Popped
    <2> QED  BY <1>2, <2>1 DEF IsTopOf
  <1> QED  BY <1>4, <1>5

-----------------------------------------------------------------------------
(* The rows.                                                               *)

\* What the operations on the rows need of the types; the rows of summary and
\* of pentries_rollup are always about the same directories.
Fields == {"perm", "roll", "pent", "can", "isroll", "ts"}
IsRows(x) == DOMAIN x = Fields /\ x.roll \in Seq(Dirs) /\ x.pent = x.roll
Staging == {s \in [roll : Seq(Dirs), pent : Seq(Dirs), ext : BOOLEAN] : s.pent = s.roll}
RowsInv ==
    /\ DOMAIN db = Dirs /\ \A d \in Dirs : IsRows(db[d])
    /\ stage \in [Dirs -> Seq(Staging)]
    /\ \A t \in Threads : busy[t].what = "write" => busy[t].dir \in Dirs

IsCopyOf(z, x, c, y) ==
    /\ IsRows(z) /\ z.roll = x.roll \o (<<c>> \o y.roll)
    /\ z.can = x.can /\ z.isroll = x.isroll
\* What the statements of rollup.c do to the rows.
LEMMA RowsOf ==
    ASSUME NEW x, NEW y, NEW c \in Dirs, IsRows(x), IsRows(y)
    PROVE  /\ LET z == DeleteRollup(x)
              IN  IsRows(z) /\ z.roll = <<>> /\ z.can = x.can /\ z.isroll = x.isroll
           /\ LET z == RollupInit(x)
              IN  IsRows(z) /\ z.roll = <<>> /\ z.can = TRUE /\ z.isroll = TRUE
           /\ IsCopyOf(RollupChildProcess(x, c, y, Statements), x, c, y)
  <1>1. /\ LET z == DeleteRollup(x)
           IN  IsRows(z) /\ z.roll = <<>> /\ z.can = x.can /\ z.isroll = x.isroll
        /\ LET z == RollupInit(x)
           IN  IsRows(z) /\ z.roll = <<>> /\ z.can = TRUE /\ z.isroll = TRUE
    BY DEF IsRows, Fields, DeleteRollup, RollupInit, RollupCleanup
  <1> DEFINE z == RollupChildProcess(x, c, y, Statements)
  <1>2. /\ DOMAIN z = Fields /\ z.can = x.can /\ z.isroll = x.isroll
        /\ z.pent = x.pent \o (<<c>> \o y.pent) /\ z.roll = x.roll \o (<<c>> \o y.roll)
    BY DEF IsRows, Fields, RollupChildProcess, Statements
  <1>3. x.roll \o (<<c>> \o y.roll) \in Seq(Dirs) /\ x.pent = x.roll /\ y.pent = y.roll
    BY DEF IsRows
  <1> HIDE DEF z
  <1>4. IsCopyOf(z, x, c, y)
    BY <1>2, <1>3 DEF IsRows, IsCopyOf
  <1> QED  BY <1>1, <1>4 DEF z

\* The databases of a top that is copied into: its own and the staging ones.
Slots(x) == 0 .. Len(stage[x])
Rows(x, i) == IF i = 0 THEN db[x].roll ELSE stage[x][i].roll

\* Only the rows and the databases of one top change.
OthersKept(top) ==
    /\ DOMAIN db' = Dirs
    /\ \A o \in Dirs : o # top => db'[o] = db[o] /\ stage'[o] = stage[o]

\* copy_to_top appends a directory and what it has rows of.
Copied(top, slot, y) ==
    /\ Slots(top)' = Slots(top)
    /\ \A i \in Slots(top) :
           Rows(top, i)' = IF i = slot THEN Rows(top, i) \o (<<y>> \o db[y].roll) ELSE Rows(top, i)
    /\ db'[top].can = db[top].can /\ db'[top].isroll = db[top].isroll

\* copy_to_top, on the rows.
LEMMA CopyRows ==
    ASSUME IInv, RowsInv, NEW t \in Threads, CopyToTop(t)
    PROVE  /\ RowsInv' /\ OthersKept(busy[t].top)
           /\ Copied(busy[t].top, busy[t].slot, busy[t].dir)
  <1>0. PICK top, slot, y : top = busy[t].top /\ slot = busy[t].slot /\ y = busy[t].dir
    OBVIOUS
  <1>1. /\ busy[t].what = "write"
        /\ busy' = [busy EXCEPT ![t].what = "count"]
        /\ slot = 0 => /\ db' = [db EXCEPT ![top] = RollupChildProcess(db[top], y, db[y], Statements)]
                       /\ stage' = stage
        /\ slot # 0 => /\ db' = db
                       /\ stage' = [stage EXCEPT ![top] = [stage[top] EXCEPT ![slot] =
                                       [roll |-> stage[top][slot].roll \o (<<y>> \o db[y].roll),
                                        pent |-> stage[top][slot].pent \o (<<y>> \o db[y].pent),
                                        ext  |-> stage[top][slot].ext \/ HasExternal(y)]]]
    BY <1>0 DEF CopyToTop
  <1>2. top \in Dirs /\ y \in Dirs /\ slot \in Threads
    BY <1>0, <1>1 DEF IInv, ItemTypes, RowsInv, Copying
  <1>3. /\ DOMAIN db = Dirs /\ IsRows(db[top]) /\ IsRows(db[y]) /\ stage \in [Dirs -> Seq(Staging)]
        /\ stage[top] \in Seq(Staging) /\ slot \in Nat
    BY <1>2, TopDownAssumption DEF RowsInv, Threads
  <1>4. \A u \in Threads : busy'[u].what = "write" => busy'[u].dir \in Dirs
    <2>1. busy \in [Threads -> Copying]
      BY DEF IInv, ItemTypes
    <2> QED  BY <1>1, <2>1 DEF RowsInv
  <1>5. CASE slot = 0
    <2> DEFINE z == RollupChildProcess(db[top], y, db[y], Statements)
    <2>0. IsCopyOf(z, db[top], y, db[y])
      BY <1>2, <1>3, RowsOf
    <2>2. db' = [db EXCEPT ![top] = z] /\ stage' = stage
      BY <1>1, <1>5
    <2> HIDE DEF z
    <2>1. /\ IsRows(z) /\ z.roll = db[top].roll \o (<<y>> \o db[y].roll)
          /\ z.can = db[top].can /\ z.isroll = db[top].isroll
      BY <2>0 DEF IsCopyOf
    <2>3. DOMAIN db' = Dirs /\ db'[top] = z /\ \A o \in Dirs : o # top => db'[o] = db[o]
      BY <1>2, <1>3, <2>2
    <2>4. RowsInv'
      BY <1>4, <2>1, <2>2, <2>3 DEF RowsInv
    <2>5. OthersKept(top)
      BY <2>2, <2>3 DEF OthersKept
    <2>6. Copied(top, slot, y)
      BY <1>5, <2>1, <2>2, <2>3 DEF Copied, Slots, Rows
    <2> QED  BY <1>0, <2>4, <2>5, <2>6
  <1>6. CASE slot # 0
    <2> DEFINE w == [roll |-> stage[top][slot].roll \o (<<y>> \o db[y].roll),
                     pent |-> stage[top][slot].pent \o (<<y>> \o db[y].pent),
                     ext  |-> stage[top][slot].ext \/ HasExternal(y)]
               s == [stage[top] EXCEPT ![slot] = w]
    <2>1. db' = db /\ stage' = [stage EXCEPT ![top] = s]
      BY <1>1, <1>6
    <2>2. ASSUME slot \in DOMAIN stage[top] PROVE w \in Staging
      <3>1. stage[top][slot] \in Staging
        BY <1>3, <2>2, ElementOfSeq
      <3>2. /\ stage[top][slot].roll \in Seq(Dirs) /\ stage[top][slot].pent = stage[top][slot].roll
            /\ stage[top][slot].ext \in BOOLEAN /\ db[y].roll \in Seq(Dirs) /\ db[y].pent = db[y].roll
        BY <1>3, <3>1 DEF Staging, IsRows
      <3>3. stage[top][slot].roll \o (<<y>> \o db[y].roll) \in Seq(Dirs)
        BY <1>2, <3>2
      <3>4. (stage[top][slot].ext \/ HasExternal(y)) \in BOOLEAN
        BY Zenon
      <3>5. w.pent = w.roll /\ w \in [roll : Seq(Dirs), pent : Seq(Dirs), ext : BOOLEAN]
        BY <3>2, <3>3, <3>4
      <3> QED  BY <3>5 DEF Staging
    <2>3. w.roll = stage[top][slot].roll \o (<<y>> \o db[y].roll)
      OBVIOUS
    <2> HIDE DEF w
    <2>4. s \in Seq(Staging) /\ Len(s) = Len(stage[top])
      <3>1. /\ DOMAIN stage[top] = 1 .. Len(stage[top]) /\ Len(stage[top]) \in Nat
            /\ \A i \in DOMAIN stage[top] : stage[top][i] \in Staging
        BY <1>3
      <3>2. \A i \in 1 .. Len(stage[top]) : s[i] \in Staging
        BY <2>2, <3>1
      <3>3. DOMAIN s = 1 .. Len(stage[top]) /\ s = [i \in 1 .. Len(stage[top]) |-> s[i]]
        BY <3>1
      <3> HIDE DEF s
      <3>4. s \in [1 .. Len(stage[top]) -> Staging]
        BY <3>2, <3>3
      <3> QED  BY <3>1, <3>3, <3>4
    <2>5. \A i \in 1 .. Len(stage[top]) : s[i] = IF i = slot THEN w ELSE stage[top][i]
      BY <1>3
    <2> HIDE DEF s
    <2>6. stage' \in [Dirs -> Seq(Staging)] /\ stage'[top] = s /\ \A o \in Dirs : o # top => stage'[o] = stage[o]
      BY <1>2, <1>3, <2>1, <2>4
    <2>7. RowsInv'
      BY <1>4, <2>1, <2>6 DEF RowsInv
    <2>8. OthersKept(top)
      BY <1>3, <2>1, <2>6 DEF OthersKept
    <2>9. Copied(top, slot, y)
      <3>1. Slots(top)' = Slots(top)
        BY <2>4, <2>6 DEF Slots
      <3>2. ASSUME NEW i \in Slots(top)
            PROVE  Rows(top, i)' = IF i = slot THEN Rows(top, i) \o (<<y>> \o db[y].roll) ELSE Rows(top, i)
        <4>1. CASE i = 0
          BY <1>6, <2>1, <4>1 DEF Rows
        <4>2. CASE i # 0
          <5>1. i \in 1 .. Len(stage[top])
            BY <1>3, <4>2 DEF Slots
          <5> QED  BY <2>3, <2>5, <2>6, <4>2, <5>1 DEF Rows
        <4> QED  BY <4>1, <4>2
      <3> QED  BY <2>1, <3>1, <3>2 DEF Copied
    <2> QED  BY <1>0, <2>7, <2>8, <2>9
  <1> QED  BY <1>5, <1>6

\* rollup_merge appends what the staging databases have.
Merged(top) ==
    /\ stage'[top] = <<>>
    /\ db'[top].roll = db[top].roll \o FlattenSeq([i \in DOMAIN stage[top] |-> stage[top][i].roll])
    /\ db'[top].can = db[top].can /\ db'[top].isroll = db[top].isroll

\* rollup_merge, on the rows.
LEMMA MergeRows ==
    ASSUME IInv, RowsInv, NEW t \in Threads, RollupMerge(t)
    PROVE  RowsInv' /\ OthersKept(busy[t].top) /\ Merged(busy[t].top)
  <1>0. PICK top : top = busy[t].top
    OBVIOUS
  <1> DEFINE roll == FlattenSeq([i \in DOMAIN stage[top] |-> stage[top][i].roll])
             pent == FlattenSeq([i \in DOMAIN stage[top] |-> stage[top][i].pent])
  <1>1. /\ busy[t].what = "merge" /\ busy' = [busy EXCEPT ![t] = Free]
        /\ db' = [db EXCEPT ![top].roll = @ \o roll, ![top].pent = @ \o pent]
        /\ stage' = [stage EXCEPT ![top] = <<>>]
    BY <1>0 DEF RollupMerge
  <1>2. top \in Dirs
    BY <1>0, <1>1 DEF IInv, ItemTypes
  <1>3. /\ DOMAIN db = Dirs /\ IsRows(db[top]) /\ stage \in [Dirs -> Seq(Staging)]
        /\ stage[top] \in Seq(Staging)
    BY <1>2 DEF RowsInv
  <1>4. roll \in Seq(Dirs) /\ pent = roll
    <2>1. \A i \in DOMAIN stage[top] : stage[top][i] \in Staging
      BY <1>3
    <2>2. \A i \in DOMAIN stage[top] : stage[top][i].roll \in Seq(Dirs) /\ stage[top][i].pent = stage[top][i].roll
      BY <2>1 DEF Staging
    <2>3. [i \in DOMAIN stage[top] |-> stage[top][i].pent] = [i \in DOMAIN stage[top] |-> stage[top][i].roll]
      BY <2>2
    <2>4. DOMAIN stage[top] = 1 .. Len(stage[top]) /\ Len(stage[top]) \in Nat
      BY <1>3
    <2>5. [i \in DOMAIN stage[top] |-> stage[top][i].roll] \in Seq(Seq(Dirs))
      BY <2>2, <2>4
    <2> QED  BY <2>3, <2>5, FlattenType
  <1> HIDE DEF roll, pent
  <1> DEFINE z == [db[top] EXCEPT !.roll = @ \o roll, !.pent = @ \o pent]
  <1>5. db' = [db EXCEPT ![top] = z]
    <2>1. top \in DOMAIN db /\ "roll" \in DOMAIN db[top] /\ "pent" \in DOMAIN db[top]
      BY <1>2, <1>3 DEF IsRows, Fields
    <2> QED  BY <1>1, <2>1
  <1>6. IsRows(z) /\ z.roll = db[top].roll \o roll /\ z.can = db[top].can /\ z.isroll = db[top].isroll
    BY <1>3, <1>4 DEF IsRows, Fields
  <1> HIDE DEF z
  <1>7. DOMAIN db' = Dirs /\ db'[top] = z /\ \A o \in Dirs : o # top => db'[o] = db[o]
    BY <1>2, <1>3, <1>5
  <1>8. stage' \in [Dirs -> Seq(Staging)] /\ stage'[top] = <<>> /\ \A o \in Dirs : o # top => stage'[o] = stage[o]
    BY <1>1, <1>2, <1>3
  <1>9. \A u \in Threads : busy'[u].what = "write" => busy'[u].dir \in Dirs
    <2>1. busy \in [Threads -> Copying]
      BY DEF IInv, ItemTypes
    <2> QED  BY <1>1, <2>1 DEF RowsInv, Free
  <1>10. RowsInv'
    BY <1>6, <1>7, <1>8, <1>9 DEF RowsInv
  <1> QED  BY <1>0, <1>6, <1>7, <1>8, <1>10 DEF OthersKept, Merged, roll

\* main() deletes the rows of the top that it takes, and keeps its marks or
\* marks it as rolled up.
LEMMA DealRows ==
    ASSUME IInv, RowsInv, EnqueueRollupCopy
    PROVE  /\ RowsInv' /\ NextTop \in Dirs /\ OthersKept(NextTop)
           /\ db'[NextTop].roll = <<>> /\ db'[NextTop].can /\ db'[NextTop].isroll
           /\ Len(stage'[NextTop]) = IF ThreadsUsed(Len(Below1(NextTop))) = 0 THEN 0
                                     ELSE ThreadsUsed(Len(Below1(NextTop))) - 1
           /\ \A i \in DOMAIN stage'[NextTop] : stage'[NextTop][i].roll = <<>>
  <1>0. PICK top, used : top = NextTop /\ used = ThreadsUsed(Len(Below1(NextTop)))
    OBVIOUS
  <1> DEFINE s == [i \in 1 .. (used - 1) |-> EmptyStage]
  <1>1. /\ busy' = busy /\ TopsLeft
        /\ db' = [db EXCEPT ![top] = RollupInit(db[top])]
        /\ stage' = [stage EXCEPT ![top] = s]
    BY <1>0 DEF EnqueueRollupCopy, Ready
  <1>2. top \in Dirs /\ used \in Nat
    <2>1. top \in Dirs
      BY <1>0, <1>1, PoppedIs DEF IInv
    <2>2. Below1(NextTop) \in Seq(Dirs)
      BY <1>0, <2>1, BelowIs DEF IInv
    <2>3. Len(Below1(NextTop)) \in Nat
      BY <2>2
    <2> QED  BY <1>0, <2>1, <2>3, TopDownAssumption DEF ThreadsUsed
  <1>3. DOMAIN db = Dirs /\ IsRows(db[top]) /\ stage \in [Dirs -> Seq(Staging)]
    BY <1>2 DEF RowsInv
  <1> DEFINE z == RollupInit(db[top])
  <1>4. IsRows(z) /\ z.roll = <<>> /\ z.can = TRUE /\ z.isroll = TRUE
    BY <1>2, <1>3, RowsOf
  <1> HIDE DEF z
  <1>5. EmptyStage \in Staging /\ EmptyStage.roll = <<>>
    BY DEF EmptyStage, Staging
  <1>6. /\ s \in Seq(Staging) /\ \A i \in DOMAIN s : s[i].roll = <<>>
        /\ Len(s) = IF used = 0 THEN 0 ELSE used - 1
    <2>1. CASE used = 0
      <3>1. PICK n : n = 0
        OBVIOUS
      <3>2. 1 .. (used - 1) = 1 .. n /\ n \in Nat
        BY <2>1, <3>1
      <3>3. s \in [1 .. n -> Staging] /\ DOMAIN s = 1 .. n
        BY <1>5, <3>2
      <3> HIDE DEF s
      <3>4. s \in Seq(Staging) /\ Len(s) = n
        BY <3>2, <3>3
      <3>5. \A i \in DOMAIN s : s[i].roll = <<>>
        BY <1>5 DEF s
      <3> QED  BY <2>1, <3>1, <3>4, <3>5
    <2>2. CASE used # 0
      <3>1. used - 1 \in Nat /\ s \in [1 .. (used - 1) -> Staging] /\ DOMAIN s = 1 .. (used - 1)
        BY <1>2, <1>5, <2>2
      <3>2. s \in Seq(Staging) /\ Len(s) = used - 1
        BY <3>1
      <3> QED  BY <2>2, <3>2, <1>5
    <2> QED  BY <2>1, <2>2
  <1> HIDE DEF s
  <1>7. DOMAIN db' = Dirs /\ db'[top] = z /\ \A o \in Dirs : o # top => db'[o] = db[o]
    BY <1>1, <1>2, <1>3 DEF z
  <1>8. stage' \in [Dirs -> Seq(Staging)] /\ stage'[top] = s /\ \A o \in Dirs : o # top => stage'[o] = stage[o]
    BY <1>1, <1>2, <1>3, <1>6
  <1>9. RowsInv'
    BY <1>1, <1>4, <1>7, <1>8 DEF RowsInv
  <1> QED  BY <1>0, <1>2, <1>4, <1>6, <1>7, <1>8, <1>9 DEF OthersKept

\* A failing enqueue_rollup_copy, on the rows.
LEMMA GiveUpRows ==
    ASSUME IInv, RowsInv, EnqueueFails
    PROVE  /\ RowsInv' /\ NextTop \in Dirs /\ OthersKept(NextTop) /\ stage' = stage
           /\ db'[NextTop].can = db[NextTop].can /\ db'[NextTop].isroll = db[NextTop].isroll
  <1>0. PICK top : top = NextTop
    OBVIOUS
  <1> DEFINE z == DeleteRollup(db[top])
  <1>1. busy' = busy /\ TopsLeft /\ stage' = stage /\ (db' = db \/ db' = [db EXCEPT ![top] = z])
    BY <1>0 DEF EnqueueFails, Ready
  <1>2. top \in Dirs
    BY <1>0, <1>1, PoppedIs DEF IInv
  <1>3. DOMAIN db = Dirs /\ IsRows(db[top])
    BY <1>2 DEF RowsInv
  <1>4. IsRows(z) /\ z.can = db[top].can /\ z.isroll = db[top].isroll
    BY <1>2, <1>3, RowsOf
  <1> HIDE DEF z
  <1>5. DOMAIN db' = Dirs /\ db'[top] \in {db[top], z} /\ \A o \in Dirs : o # top => db'[o] = db[o]
    BY <1>1, <1>2, <1>3
  <1>6. RowsInv'
    BY <1>1, <1>4, <1>5 DEF RowsInv
  <1> QED  BY <1>0, <1>1, <1>2, <1>4, <1>5, <1>6 DEF OthersKept

-----------------------------------------------------------------------------
(* What a rolled-up directory has rows of.                                 *)

\* The walk has found the directory, or it is being copied into or merged;
\* no other such directory is under it.
Live(x) == IsFound(x) \/ Pending(x) # {} \/ IsMerged(x)
LiveInv == \A x, y \in Dirs : Live(x) /\ Live(y) /\ x # y => x \notin Under(y)

\* There are staging databases until they are merged.
StageInv == \A x \in Dirs : stage[x] # <<>> => Pending(x) # {} \/ IsMerged(x)

\* The copies that have not been made are of different directories below, which
\* have no rows of others and have not been copied.
Fresh(x) ==
    /\ \A p, q \in Unwritten(x) : DirOf(p) = DirOf(q) => p = q
    /\ \A p \in Unwritten(x) :
           /\ SlotOf(p) \in Slots(x) /\ DirOf(p) \in Below[x] /\ db[DirOf(p)].roll = <<>>
           /\ \A i \in Slots(x) : DirOf(p) \notin ToSet(Rows(x, i))

\* Nothing has been copied twice, and nothing that is not below.
Written(x) ==
    /\ \A i \in Slots(x) : IsInjective(Rows(x, i)) /\ ToSet(Rows(x, i)) \subseteq Below[x]
    /\ \A i, j \in Slots(x) : i # j => ToSet(Rows(x, i)) \cap ToSet(Rows(x, j)) = {}

\* Everything below has been copied or will be.
Covered(x) ==
    \A y \in Below[x] : \/ \E p \in Unwritten(x) : DirOf(p) = y
                        \/ \E i \in Slots(x) : y \in ToSet(Rows(x, i))

Sound(x) == Fresh(x) /\ Written(x) /\ Covered(x)

\* So it is with every directory that is rolled up, but for the tops that are
\* still to be dealt out, and those below which a copy failed or would be of a
\* directory that has rows of others.
SoundInv == \A x \in Dirs : x \notin lost /\ ~IsTopOf(tops, x) /\ db[x].isroll => Sound(x)

\* A step that makes no copy of a top and adds none.
SameCopies(x) ==
    \A u \in Threads : \A k \in Nat :
        /\ <<u, k>> \in Unwritten(x)' <=> <<u, k>> \in Unwritten(x)
        /\ <<u, k>> \in Unwritten(x) => /\ DirOf(<<u, k>>)' = DirOf(<<u, k>>)
                                       /\ SlotOf(<<u, k>>)' = SlotOf(<<u, k>>)

\* The copies that have not been made are the same ones.
LEMMA SameAre ==
    ASSUME NEW x, SameCopies(x)
    PROVE  /\ Unwritten(x)' = Unwritten(x)
           /\ \A p \in Unwritten(x) : DirOf(p)' = DirOf(p) /\ SlotOf(p)' = SlotOf(p)
  <1>1. Unwritten(x) \subseteq Threads \X Nat /\ Unwritten(x)' \subseteq Threads \X Nat
    BY DEF Unwritten, Pending
  <1> QED  BY <1>1 DEF SameCopies

\* A thread that does nothing for a top, or only counts or merges.
LEMMA SameExcept ==
    ASSUME ItemTypes, queue' = queue, NEW t \in Threads, \A u \in Threads : u # t => busy'[u] = busy[u],
           NEW x, ~(busy[t].what = "write" /\ busy[t].top = x),
           ~(busy'[t].what = "write" /\ busy'[t].top = x)
    PROVE  SameCopies(x)
  <1> SUFFICES ASSUME NEW u \in Threads, NEW k \in Nat
               PROVE  /\ <<u, k>> \in Unwritten(x)' <=> <<u, k>> \in Unwritten(x)
                      /\ <<u, k>> \in Unwritten(x) => /\ DirOf(<<u, k>>)' = DirOf(<<u, k>>)
                                                     /\ SlotOf(<<u, k>>)' = SlotOf(<<u, k>>)
    BY DEF SameCopies
  <1>1. 0 \notin DOMAIN queue[u]
    <2>1. queue[u] \in Seq(Copies)
      BY DEF ItemTypes
    <2> QED  BY <2>1
  <1>2. CASE k = 0 /\ u = t
    <2>1. <<u, k>> \notin Unwritten(x)
      BY <1>1, <1>2, PendingIs
    <2>2. <<u, k>> \notin Unwritten(x)'
      BY <1>1, <1>2, PendingNext
    <2> QED  BY <2>1, <2>2
  <1>3. CASE k # 0
    BY <1>3, PendingIs, PendingNext
  <1>4. CASE u # t
    <2>1. busy'[u] = busy[u]
      BY <1>4
    <2> QED  BY <2>1, PendingIs, PendingNext
  <1> QED  BY <1>2, <1>3, <1>4

\* Neither the rows of a top nor its copies change.
LEMMA SoundKept ==
    ASSUME NEW x \in Dirs, Sound(x), SameCopies(x), db'[x].roll = db[x].roll, stage'[x] = stage[x],
           \A p \in Unwritten(x) : db'[DirOf(p)].roll = db[DirOf(p)].roll
    PROVE  Sound(x)'
  <1>1. /\ Unwritten(x)' = Unwritten(x)
        /\ \A p \in Unwritten(x) : DirOf(p)' = DirOf(p) /\ SlotOf(p)' = SlotOf(p)
    BY SameAre
  <1>2. Slots(x)' = Slots(x) /\ \A i : Rows(x, i)' = Rows(x, i)
    BY DEF Slots, Rows
  <1>3. Fresh(x)'
    <2>1. \A p, q \in Unwritten(x)' : DirOf(p)' = DirOf(q)' => p = q
      BY <1>1 DEF Sound, Fresh
    <2>2. ASSUME NEW p \in Unwritten(x)
          PROVE  /\ SlotOf(p)' \in Slots(x)' /\ DirOf(p)' \in Below[x] /\ db'[DirOf(p)'].roll = <<>>
                 /\ \A i \in Slots(x)' : DirOf(p)' \notin ToSet(Rows(x, i)')
      BY <1>1, <1>2 DEF Sound, Fresh
    <2> QED  BY <1>1, <2>1, <2>2 DEF Fresh
  <1>4. Written(x)'
    BY <1>2 DEF Sound, Written
  <1>5. Covered(x)'
    BY <1>1, <1>2 DEF Sound, Covered
  <1> QED  BY <1>3, <1>4, <1>5 DEF Sound

\* A step for one top that leaves the copies of another one alone keeps what
\* holds of the other one: nothing of it is copied from the first one.
LEMMA OthersSound ==
    ASSUME LiveInv, SoundInv, NEW top \in Dirs, Live(top), OthersKept(top),
           NEW o \in Dirs, o # top, SameCopies(o), o \notin lost, ~IsTopOf(tops, o), db'[o].isroll
    PROVE  Sound(o)'
  <1>1. db'[o] = db[o] /\ stage'[o] = stage[o]
    BY DEF OthersKept
  <1>2. Sound(o)
    BY <1>1 DEF SoundInv
  <1>3. ASSUME NEW p \in Unwritten(o) PROVE DirOf(p) \in Dirs /\ DirOf(p) # top
    <2>1. Live(o)
      BY DEF Live, Unwritten
    <2>2. top \notin Under(o) /\ DirOf(p) \in Below[o]
      BY <1>2, <2>1 DEF LiveInv, Sound, Fresh
    <2> QED  BY <2>2, UnderIsBelow
  <1> QED  BY <1>1, <1>2, <1>3, SoundKept DEF OthersKept

\* A step that finds, copies into and merges nothing new.
LEMMA LiveLess == ASSUME LiveInv, \A x \in Dirs : Live(x)' => Live(x) PROVE LiveInv'
  BY DEF LiveInv

SubtreeInv == RowsInv /\ LiveInv /\ StageInv /\ SoundInv

\* A thread takes a copy out of its queue.
LEMMA PopSubtree == ASSUME IInv, SubtreeInv, NEW t \in Threads, PopCopy(t) PROVE SubtreeInv'
  <1>1. /\ UNCHANGED <<db, stage, todo, tops, lost>> /\ queue[t] # <<>> /\ busy[t].what = "free"
        /\ busy' = [busy EXCEPT ![t] = [what |-> "write", top |-> Head(queue[t]).top,
                                        dir |-> Head(queue[t]).dir, slot |-> Head(queue[t]).slot]]
    BY DEF PopCopy, Free
  <1>2. ItemTypes /\ busy \in [Threads -> Copying] /\ queue \in [Threads -> Seq(Copies)]
    BY DEF IInv, ItemTypes
  <1>3. RowsInv'
    <2>1. Head(queue[t]) \in Copies
      <3>1. queue[t] \in Seq(Copies)
        BY <1>2
      <3> QED  BY <1>1, <3>1
    <2>2. \A u \in Threads : busy'[u].what = "write" => busy'[u].dir \in Dirs
      BY <1>1, <1>2, <2>1 DEF SubtreeInv, RowsInv, Copies
    <2> QED  BY <1>1, <2>2 DEF SubtreeInv, RowsInv
  <1>4. \A x : (IsMerged(x)' <=> IsMerged(x)) /\ (IsFound(x)' <=> IsFound(x))
    BY <1>1, <1>2 DEF IsMerged, IsFound, Find
  <1>5. ASSUME NEW x PROVE Pending(x)' # {} <=> Pending(x) # {}
    <2>1. \A p \in Pending(x)' : Before(t, p) \in Pending(x)
      BY <1>2, PopPlaces
    <2>2. \A y \in Pending(x) : \E p \in Threads \X Nat : p \in Pending(x)'
      BY <1>2, PopPlaces
    <2> QED  BY <2>1, <2>2
  <1>6. LiveInv' /\ StageInv'
    <2>1. \A x \in Dirs : Live(x)' => Live(x)
      BY <1>4, <1>5 DEF Live
    <2>2. StageInv'
      BY <1>1, <1>4, <1>5 DEF SubtreeInv, StageInv
    <2> QED  BY <2>1, <2>2, LiveLess DEF SubtreeInv
  <1>7. ASSUME NEW x \in Dirs, Sound(x) PROVE Sound(x)'
    <2>1. /\ \A i : Rows(x, i)' = Rows(x, i)
          /\ Slots(x)' = Slots(x) /\ db' = db
      BY <1>1 DEF Slots, Rows
    <2>2. ASSUME NEW p \in Unwritten(x)'
          PROVE  /\ Before(t, p) \in Unwritten(x) /\ p \in Threads \X Nat
                 /\ DirOf(p)' = DirOf(Before(t, p)) /\ SlotOf(p)' = SlotOf(Before(t, p))
      <3>1. p \in Pending(x)' /\ p \in Threads \X Nat
        BY DEF Unwritten, Pending
      <3> QED  BY <1>2, <2>2, <3>1, PopPlaces
    <2>3. \A p, q \in Threads \X Nat : Before(t, p) = Before(t, q) => p = q
      BY <1>2, PopPlaces
    <2>4. ASSUME NEW p \in Unwritten(x)', NEW q \in Unwritten(x)', DirOf(p)' = DirOf(q)'
          PROVE  p = q
      <3>1. Before(t, p) = Before(t, q)
        BY <2>2, <2>4, <1>7 DEF Sound, Fresh
      <3> QED  BY <2>2, <2>3, <3>1
    <2>5. ASSUME NEW p \in Unwritten(x)'
          PROVE  /\ SlotOf(p)' \in Slots(x)' /\ DirOf(p)' \in Below[x] /\ db'[DirOf(p)'].roll = <<>>
                 /\ \A i \in Slots(x)' : DirOf(p)' \notin ToSet(Rows(x, i)')
      BY <1>7, <2>1, <2>2 DEF Sound, Fresh
    <2>6. Fresh(x)'
      BY <2>4, <2>5 DEF Fresh
    <2>7. Written(x)'
      BY <1>7, <2>1 DEF Sound, Written
    <2>8. ASSUME NEW q \in Unwritten(x)
          PROVE  \E p \in Threads \X Nat : p \in Unwritten(x)' /\ DirOf(p)' = DirOf(q)
      <3>1. q \in Pending(x)
        BY DEF Unwritten
      <3>2. PICK p \in Threads \X Nat : p \in Pending(x)' /\ Before(t, p) = q /\ p \in Unwritten(x)'
        BY <1>2, <3>1, PopPlaces
      <3> QED  BY <2>2, <3>2
    <2>9. Covered(x)'
      <3> SUFFICES ASSUME NEW y \in Below[x]
                   PROVE  \/ \E p \in Threads \X Nat : p \in Unwritten(x)' /\ DirOf(p)' = y
                          \/ \E i \in Slots(x)' : y \in ToSet(Rows(x, i)')
        BY Zenon DEF Covered
      <3> QED  BY <1>7, <2>1, <2>8 DEF Sound, Covered
    <2> QED  BY <2>6, <2>7, <2>9 DEF Sound
  <1>8. SoundInv'
    BY <1>1, <1>7 DEF SubtreeInv, SoundInv
  <1> QED  BY <1>3, <1>6, <1>8 DEF SubtreeInv

\* A thread counts a copy down, and may begin to merge.
LEMMA CountSubtree == ASSUME IInv, IInv', SubtreeInv, NEW t \in Threads, CountCopy(t) PROVE SubtreeInv'
  <1>0. PICK top, n : top = busy[t].top /\ n = left[top] - 1
    OBVIOUS
  <1>1. /\ UNCHANGED <<db, stage, todo, tops, lost, queue>> /\ busy[t].what = "count"
        /\ busy' = [busy EXCEPT ![t] = IF n = 0 THEN [busy[t] EXCEPT !.what = "merge"] ELSE Free]
        /\ left' = [left EXCEPT ![top] = n]
    BY <1>0 DEF CountCopy, IsLast
  <1>2. /\ ItemTypes /\ busy \in [Threads -> Copying] /\ top \in Dirs /\ left \in [Dirs -> Nat]
        /\ \A u \in Threads : busy[u] \in Copying
    BY <1>0, <1>1 DEF IInv, ItemTypes
  <1>3. /\ \A u \in Threads : u # t => busy'[u] = busy[u]
        /\ busy'[t].what \in {"merge", "free"} /\ (busy'[t].what = "merge" <=> n = 0)
        /\ busy'[t].what = "merge" => busy'[t].top = top
    BY <1>0, <1>1, <1>2 DEF Free, Copying
  <1>4. RowsInv'
    BY <1>1, <1>3 DEF SubtreeInv, RowsInv
  <1>5. \A x : SameCopies(x)
    BY <1>1, <1>2, <1>3, SameExcept
  <1>6. ASSUME NEW x PROVE Pending(x)' # {} => Pending(x) # {}
    <2>1. ASSUME NEW u \in Threads, NEW k \in Nat, <<u, k>> \in Pending(x)' PROVE <<u, k>> \in Pending(x)
      <3>1. CASE k = 0 /\ u = t
        <4>1. queue[u] \in Seq(Copies)
          BY <1>2 DEF ItemTypes
        <4>2. 0 \notin DOMAIN queue[u]
          BY <4>1
        <4> QED  BY <1>1, <1>3, <2>1, <3>1, <4>2, PendingNext
      <3>2. CASE k # 0
        BY <1>1, <2>1, <3>2, PendingIs, PendingNext
      <3>3. CASE u # t
        <4>1. busy'[u] = busy[u]
          BY <1>3, <3>3
        <4> QED  BY <1>1, <2>1, <4>1, PendingIs, PendingNext
      <3> QED  BY <3>1, <3>2, <3>3
    <2> QED  BY <2>1, PendingNext
  <1>7. <<t, 0>> \in Pending(top)
    BY <1>0, <1>1, PendingIs
  <1>8. ASSUME NEW x \in Dirs, Live(x)' PROVE Live(x)
    <2>1. CASE IsFound(x)'
      BY <1>1, <2>1 DEF IsFound, Find, Live
    <2>2. CASE Pending(x)' # {}
      BY <1>6, <2>2 DEF Live
    <2>3. CASE IsMerged(x)'
      <3>1. PICK u \in Threads : busy'[u].what = "merge" /\ busy'[u].top = x
        BY <2>3 DEF IsMerged
      <3>2. CASE u = t
        BY <1>3, <1>7, <3>1, <3>2 DEF Live
      <3>3. CASE u # t
        BY <1>3, <3>1, <3>3 DEF Live, IsMerged
      <3> QED  BY <3>2, <3>3
    <2> QED  BY <1>8, <2>1, <2>2, <2>3 DEF Live
  <1>9. LiveInv'
    BY <1>8, LiveLess DEF SubtreeInv
  <1>10. ASSUME NEW x \in Dirs, stage'[x] # <<>> PROVE Pending(x)' # {} \/ IsMerged(x)'
    <2>1. Pending(x) # {} \/ IsMerged(x)
      BY <1>1, <1>10 DEF SubtreeInv, StageInv
    <2>2. CASE IsMerged(x)
      <3>1. PICK u \in Threads : busy[u].what = "merge" /\ busy[u].top = x
        BY <2>2 DEF IsMerged
      <3> QED  BY <1>1, <1>3, <3>1 DEF IsMerged
    <2>3. CASE x # top /\ Pending(x) # {}
      <3>1. PICK u \in Threads, k \in Nat : <<u, k>> \in Pending(x)
        BY <2>3, PendingIs
      <3>2. CASE k = 0 /\ u = t
        <4>1. queue[u] \in Seq(Copies)
          BY <1>2 DEF ItemTypes
        <4>2. 0 \notin DOMAIN queue[u]
          BY <4>1
        <4> QED  BY <1>0, <2>3, <3>1, <3>2, <4>2, PendingIs
      <3>3. CASE k # 0
        <4>1. <<u, k>> \in Pending(x)'
          BY <1>1, <3>1, <3>3, PendingIs, PendingNext
        <4> QED  BY <4>1
      <3>4. CASE u # t
        <4>1. busy'[u].what = busy[u].what /\ busy'[u].top = busy[u].top /\ queue'[u] = queue[u]
          BY <1>1, <1>3, <3>4
        <4>2. <<u, k>> \in Pending(x)'
          BY <3>1, <4>1, PendingIs, PendingNext
        <4> QED  BY <4>2
      <3> QED  BY <3>2, <3>3, <3>4
    <2>4. CASE x = top
      <3>1. CASE n = 0
        <4>1. busy'[t].what = "merge" /\ busy'[t].top = x
          BY <1>3, <2>4, <3>1
        <4> QED  BY <4>1 DEF IsMerged
      <3>2. CASE n # 0
        <4>1. Cardinality(Pending(top)') = left'[top] /\ left'[top] = n
          BY <1>1, <1>2 DEF IInv, CountInv
        <4> QED  BY <2>4, <3>2, <4>1, FS_EmptySet
      <3> QED  BY <3>1, <3>2
    <2> QED  BY <2>1, <2>2, <2>3, <2>4
  <1>11. StageInv'
    BY <1>10 DEF StageInv
  <1>12. SoundInv'
    <2>1. ASSUME NEW x \in Dirs, x \notin lost, ~IsTopOf(tops, x), db[x].isroll PROVE Sound(x)'
      <3>1. Sound(x)
        BY <2>1 DEF SubtreeInv, SoundInv
      <3> QED  BY <1>1, <1>5, <3>1, SoundKept
    <2> QED  BY <1>1, <2>1 DEF SoundInv
  <1> QED  BY <1>4, <1>9, <1>11, <1>12 DEF SubtreeInv

\* A thread that has made its copy, or has failed to.
LEMMA WritePlaces ==
    ASSUME ItemTypes, NEW t \in Threads, busy[t].what = "write", queue' = queue,
           busy' = [busy EXCEPT ![t].what = "count"], NEW top, top = busy[t].top
    PROVE  /\ \A x : Pending(x)' = Pending(x) /\ (IsMerged(x)' <=> IsMerged(x))
           /\ \A x : x # top => SameCopies(x)
           /\ Unwritten(top)' = Unwritten(top) \ {<<t, 0>>}
           /\ \A p \in Unwritten(top) \ {<<t, 0>>} : DirOf(p)' = DirOf(p) /\ SlotOf(p)' = SlotOf(p)
           /\ <<t, 0>> \in Unwritten(top)
           /\ DirOf(<<t, 0>>) = busy[t].dir /\ SlotOf(<<t, 0>>) = busy[t].slot
  <1>1. busy \in [Threads -> Copying] /\ busy[t] \in Copying
    BY DEF ItemTypes
  <1>2. /\ \A u \in Threads : u # t => busy'[u] = busy[u]
        /\ busy'[t].what = "count" /\ busy'[t].top = top
    BY <1>1 DEF Copying
  <1>3. \A u \in Threads : 0 \notin DOMAIN queue[u]
    <2>1. \A u \in Threads : queue[u] \in Seq(Copies)
      BY DEF ItemTypes
    <2> QED  BY <2>1
  <1>4. ASSUME NEW x, NEW u \in Threads, NEW k \in Nat
        PROVE  <<u, k>> \in Pending(x)' <=> <<u, k>> \in Pending(x)
    <2>1. CASE u = t /\ k = 0
      BY <1>2, <1>3, <2>1, PendingIs, PendingNext
    <2>2. CASE k # 0
      BY <2>2, PendingIs, PendingNext
    <2>3. CASE u # t
      <3>1. busy'[u].what = busy[u].what /\ busy'[u].top = busy[u].top /\ queue'[u] = queue[u]
        BY <1>2, <2>3
      <3> QED  BY <3>1, PendingIs, PendingNext
    <2> QED  BY <2>1, <2>2, <2>3
  <1>5. ASSUME NEW x PROVE Pending(x)' = Pending(x) /\ (IsMerged(x)' <=> IsMerged(x))
    <2>1. Pending(x) \subseteq Threads \X Nat /\ Pending(x)' \subseteq Threads \X Nat
      BY DEF Pending
    <2>2. Pending(x)' = Pending(x)
      BY <1>4, <2>1
    <2>3. IsMerged(x)' <=> IsMerged(x)
      <3>1. \A u \in Threads : busy'[u].what = "merge" <=> busy[u].what = "merge"
        BY <1>2
      <3>2. \A u \in Threads : busy'[u].what = "merge" => busy'[u].top = busy[u].top
        BY <1>2
      <3> QED  BY <3>1, <3>2 DEF IsMerged
    <2> QED  BY <2>2, <2>3
  <1>6. \A x : x # top => SameCopies(x)
    BY <1>2, SameExcept
  <1>7. ASSUME NEW u \in Threads, NEW k \in Nat, <<u, k>> # <<t, 0>>
        PROVE  /\ <<u, k>> \in Unwritten(top)' <=> <<u, k>> \in Unwritten(top)
               /\ DirOf(<<u, k>>)' = DirOf(<<u, k>>) /\ SlotOf(<<u, k>>)' = SlotOf(<<u, k>>)
    <2>1. k = 0 => /\ busy'[u].what = busy[u].what /\ busy'[u].slot = busy[u].slot
                   /\ busy'[u].dir = busy[u].dir
      BY <1>2, <1>7
    <2>2. DirOf(<<u, k>>)' = DirOf(<<u, k>>) /\ SlotOf(<<u, k>>)' = SlotOf(<<u, k>>)
      BY <2>1, PendingIs, PendingNext
    <2>3. <<u, k>> \in Pending(top)' <=> <<u, k>> \in Pending(top)
      BY <1>4
    <2>4. <<u, k>> \in Unwritten(top)' <=> <<u, k>> \in Unwritten(top)
      BY <2>1, <2>3, PendingIs, PendingNext
    <2> QED  BY <2>2, <2>4
  <1>8. <<t, 0>> \in Unwritten(top) /\ <<t, 0>> \notin Unwritten(top)'
    BY <1>2, PendingIs, PendingNext
  <1>9. Unwritten(top) \subseteq Threads \X Nat /\ Unwritten(top)' \subseteq Threads \X Nat
    BY DEF Unwritten, Pending
  <1>10. Unwritten(top)' = Unwritten(top) \ {<<t, 0>>}
    BY <1>7, <1>8, <1>9
  <1>11. \A p \in Unwritten(top) \ {<<t, 0>>} : DirOf(p)' = DirOf(p) /\ SlotOf(p)' = SlotOf(p)
    BY <1>7, <1>9
  <1>12. DirOf(<<t, 0>>) = busy[t].dir /\ SlotOf(<<t, 0>>) = busy[t].slot
    BY PendingIs
  <1> QED  BY <1>5, <1>6, <1>8, <1>10, <1>11, <1>12

\* The directory that is copied moves from those to be copied to the copied ones.
LEMMA CopySound ==
    ASSUME RowsInv, NEW top \in Dirs, NEW slot, NEW y, Sound(top), OthersKept(top), Copied(top, slot, y),
           NEW c \in Unwritten(top), DirOf(c) = y, SlotOf(c) = slot,
           Unwritten(top)' = Unwritten(top) \ {c},
           \A p \in Unwritten(top) \ {c} : DirOf(p)' = DirOf(p) /\ SlotOf(p)' = SlotOf(p)
    PROVE  Sound(top)'
  <1>1. /\ slot \in Slots(top) /\ y \in Below[top] /\ db[y].roll = <<>>
        /\ \A i \in Slots(top) : y \notin ToSet(Rows(top, i))
    BY DEF Sound, Fresh
  <1>2. top \notin Below[top] /\ Below[top] \subseteq Dirs
    BY UnderIsBelow
  <1>3. \A i \in Slots(top) : Rows(top, i) \in Seq(Dirs)
    <2>1. stage[top] \in Seq(Staging) /\ IsRows(db[top])
      BY DEF RowsInv
    <2>2. ASSUME NEW i \in 1 .. Len(stage[top]) PROVE stage[top][i].roll \in Seq(Dirs)
      <3>1. stage[top][i] \in Staging
        BY <2>1
      <3> QED  BY <3>1 DEF Staging
    <2> QED  BY <2>1, <2>2 DEF Rows, Slots, IsRows
  <1>4. ASSUME NEW i \in Slots(top)
        PROVE  /\ ToSet(Rows(top, i)') = ToSet(Rows(top, i)) \cup (IF i = slot THEN {y} ELSE {})
               /\ IsInjective(Rows(top, i)')
    <2>0. IsInjective(Rows(top, i)) /\ y \notin ToSet(Rows(top, i)) /\ Rows(top, i) \in Seq(Dirs)
      BY <1>1, <1>3 DEF Sound, Written
    <2>1. CASE i = slot
      <3>1. <<y>> \o <<>> = <<y>>
        <4>1. <<y>> \in Seq(Dirs)
          BY <1>1, <1>2
        <4> QED  BY <4>1
      <3>2. Rows(top, i)' = Rows(top, i) \o <<y>>
        BY <1>1, <2>1, <3>1 DEF Copied
      <3>3. <<y>> \in Seq(Dirs) /\ ToSet(<<y>>) = {y} /\ IsInjective(<<y>>)
        BY <1>1, <1>2, SingleApart
      <3>4. PICK r, w : r = Rows(top, i) /\ w = <<y>>
        OBVIOUS
      <3>5. /\ r \in Seq(Dirs) /\ w \in Seq(Dirs) /\ IsInjective(r) /\ IsInjective(w)
            /\ ToSet(w) = {y} /\ ToSet(r) \cap ToSet(w) = {} /\ Rows(top, i)' = r \o w
        BY <2>0, <3>2, <3>3, <3>4
      <3>6. ToSet(r \o w) = ToSet(r) \cup ToSet(w) /\ IsInjective(r \o w)
        BY <3>5, ConcatApart
      <3> QED  BY <2>1, <3>4, <3>5, <3>6
    <2>2. CASE i # slot
      BY <2>0, <2>2 DEF Copied
    <2> QED  BY <2>1, <2>2
  <1>5. Slots(top)' = Slots(top)
    BY DEF Copied
  <1>6. Fresh(top)'
    <2>1. \A p, q \in Unwritten(top)' : DirOf(p)' = DirOf(q)' => p = q
      BY DEF Sound, Fresh
    <2>2. ASSUME NEW p \in Unwritten(top) \ {c}
          PROVE  /\ SlotOf(p)' \in Slots(top)' /\ DirOf(p)' \in Below[top] /\ db'[DirOf(p)'].roll = <<>>
                 /\ \A i \in Slots(top)' : DirOf(p)' \notin ToSet(Rows(top, i)')
      <3>1. /\ SlotOf(p) \in Slots(top) /\ DirOf(p) \in Below[top] /\ db[DirOf(p)].roll = <<>>
            /\ \A i \in Slots(top) : DirOf(p) \notin ToSet(Rows(top, i))
            /\ DirOf(p) # y
        BY DEF Sound, Fresh
      <3>2. db'[DirOf(p)] = db[DirOf(p)]
        BY <1>2, <3>1 DEF OthersKept
      <3> QED  BY <1>4, <1>5, <3>1, <3>2
    <2> QED  BY <2>1, <2>2 DEF Fresh
  <1>7. Written(top)'
    <2>1. \A i \in Slots(top) : IsInjective(Rows(top, i)') /\ ToSet(Rows(top, i)') \subseteq Below[top]
      BY <1>1, <1>4 DEF Sound, Written
    <2>2. \A i, j \in Slots(top) : i # j => ToSet(Rows(top, i)') \cap ToSet(Rows(top, j)') = {}
      BY <1>1, <1>4 DEF Sound, Written
    <2> QED  BY <1>5, <2>1, <2>2 DEF Written
  <1>8. Covered(top)'
    <2> SUFFICES ASSUME NEW x \in Below[top]
                 PROVE  \/ \E p \in Unwritten(top) \ {c} : DirOf(p)' = x
                        \/ \E i \in Slots(top) : x \in ToSet(Rows(top, i)')
      BY <1>5, Zenon DEF Covered
    <2>1. CASE x = y
      BY <1>1, <1>4, <2>1
    <2>2. CASE x # y
      BY <1>4, <2>2 DEF Sound, Covered
    <2> QED  BY <2>1, <2>2
  <1> QED  BY <1>6, <1>7, <1>8 DEF Sound

\* A thread copies a directory.
LEMMA WriteSubtree == ASSUME IInv, SubtreeInv, NEW t \in Threads, CopyToTop(t) PROVE SubtreeInv'
  <1>0. PICK top, slot, y : top = busy[t].top /\ slot = busy[t].slot /\ y = busy[t].dir
    OBVIOUS
  <1>1. /\ UNCHANGED <<todo, tops, lost, queue>> /\ busy[t].what = "write"
        /\ busy' = [busy EXCEPT ![t].what = "count"]
    BY DEF CopyToTop
  <1>2. ItemTypes /\ top \in Dirs
    BY <1>0, <1>1 DEF IInv, ItemTypes
  <1>3. RowsInv' /\ OthersKept(top) /\ Copied(top, slot, y)
    BY <1>0, CopyRows DEF SubtreeInv
  <1>4. /\ \A x : Pending(x)' = Pending(x) /\ (IsMerged(x)' <=> IsMerged(x))
        /\ \A x : x # top => SameCopies(x)
        /\ Unwritten(top)' = Unwritten(top) \ {<<t, 0>>}
        /\ \A p \in Unwritten(top) \ {<<t, 0>>} : DirOf(p)' = DirOf(p) /\ SlotOf(p)' = SlotOf(p)
        /\ <<t, 0>> \in Unwritten(top) /\ DirOf(<<t, 0>>) = y /\ SlotOf(<<t, 0>>) = slot
    BY <1>0, <1>1, <1>2, WritePlaces
  <1>5. Pending(top) # {} /\ Live(top)
    BY <1>4 DEF Unwritten, Live
  <1>6. LiveInv'
    <2>1. \A x \in Dirs : Live(x)' => Live(x)
      BY <1>1, <1>4 DEF Live, IsFound, Find
    <2> QED  BY <2>1, LiveLess DEF SubtreeInv
  <1>7. StageInv'
    BY <1>3, <1>4, <1>5 DEF SubtreeInv, StageInv, OthersKept
  <1>8. SoundInv'
    <2>1. ASSUME NEW x \in Dirs, x # top, x \notin lost, ~IsTopOf(tops, x), db'[x].isroll PROVE Sound(x)'
      BY <1>2, <1>3, <1>4, <1>5, <2>1, OthersSound DEF SubtreeInv
    <2>2. ASSUME top \notin lost, ~IsTopOf(tops, top), db'[top].isroll PROVE Sound(top)'
      <3>1. Sound(top)
        BY <1>2, <1>3, <2>2 DEF SubtreeInv, SoundInv, Copied
      <3> QED  BY <1>2, <1>3, <1>4, <3>1, CopySound DEF SubtreeInv
    <2> QED  BY <1>1, <2>1, <2>2 DEF SoundInv
  <1> QED  BY <1>3, <1>6, <1>7, <1>8 DEF SubtreeInv

\* A copy that fails is one below a lost top.
LEMMA FailSubtree == ASSUME IInv, SubtreeInv, NEW t \in Threads, CopyFails(t) PROVE SubtreeInv'
  <1>0. PICK top : top = busy[t].top
    OBVIOUS
  <1>1. /\ UNCHANGED <<db, stage, todo, tops, queue>> /\ busy[t].what = "write"
        /\ busy' = [busy EXCEPT ![t].what = "count"] /\ lost' = lost \cup {top}
    BY <1>0 DEF CopyFails
  <1>2. ItemTypes /\ busy \in [Threads -> Copying]
    BY DEF IInv, ItemTypes
  <1>3. RowsInv'
    BY <1>1, <1>2 DEF SubtreeInv, RowsInv
  <1>4. /\ \A x : Pending(x)' = Pending(x) /\ (IsMerged(x)' <=> IsMerged(x))
        /\ \A x : x # top => SameCopies(x)
    BY <1>0, <1>1, <1>2, WritePlaces
  <1>5. LiveInv' /\ StageInv'
    <2>1. \A x \in Dirs : Live(x)' => Live(x)
      BY <1>1, <1>4 DEF Live, IsFound, Find
    <2>2. StageInv'
      BY <1>1, <1>4 DEF SubtreeInv, StageInv
    <2> QED  BY <2>1, <2>2, LiveLess DEF SubtreeInv
  <1>6. SoundInv'
    <2>1. ASSUME NEW x \in Dirs, x # top, x \notin lost, ~IsTopOf(tops, x), db[x].isroll PROVE Sound(x)'
      <3>1. Sound(x)
        BY <2>1 DEF SubtreeInv, SoundInv
      <3> QED  BY <1>1, <1>4, <2>1, <3>1, SoundKept
    <2> QED  BY <1>1, <2>1 DEF SoundInv
  <1> QED  BY <1>3, <1>5, <1>6 DEF SubtreeInv

\* Nothing is left to be copied: the rows of all staging databases together
\* are those of everything below.
LEMMA MergeSound ==
    ASSUME RowsInv, NEW top \in Dirs, Sound(top), Merged(top), Unwritten(top) = {}, Unwritten(top)' = {}
    PROVE  Sound(top)'
  <1>1. PICK f : f = [i \in DOMAIN stage[top] |-> stage[top][i].roll]
    OBVIOUS
  <1>2. /\ stage[top] \in Seq(Staging) /\ DOMAIN stage[top] = 1 .. Len(stage[top]) /\ Len(stage[top]) \in Nat
        /\ db[top].roll \in Seq(Dirs)
    BY DEF RowsInv, IsRows
  <1>3. /\ DOMAIN f = 1 .. Len(stage[top]) /\ f \in Seq(Seq(Dirs))
        /\ \A i \in 1 .. Len(stage[top]) : f[i] = Rows(top, i)
    <2>1. \A i \in 1 .. Len(stage[top]) : stage[top][i] \in Staging
      BY <1>2
    <2>2. \A i \in 1 .. Len(stage[top]) : stage[top][i].roll \in Seq(Dirs)
      BY <2>1 DEF Staging
    <2> QED  BY <1>1, <1>2, <2>2 DEF Rows
  <1>4. PICK g : g = FlattenSeq(f)
    OBVIOUS
  <1>5. /\ g \in Seq(Dirs) /\ ToSet(g) = UNION {ToSet(f[i]) : i \in DOMAIN f}
        /\ IsInjective(g)
    <2>1. \A i \in DOMAIN f : i \in Slots(top) /\ i # 0
      BY <1>2, <1>3 DEF Slots
    <2>2. AllApart(f)
      BY <1>3, <2>1 DEF AllApart, Sound, Written
    <2> QED  BY <1>3, <1>4, <2>2, FlattenType, FlattenApart
  <1>6. ToSet(db[top].roll) \cap ToSet(g) = {} /\ IsInjective(db[top].roll)
    <2>1. 0 \in Slots(top) /\ Rows(top, 0) = db[top].roll
      BY <1>2 DEF Slots, Rows
    <2>2. \A i \in DOMAIN f : i \in Slots(top) /\ i # 0
      BY <1>2, <1>3 DEF Slots
    <2>3. \A i \in DOMAIN f : ToSet(db[top].roll) \cap ToSet(f[i]) = {}
      BY <1>3, <2>1, <2>2 DEF Sound, Written
    <2> QED  BY <1>5, <2>1, <2>3 DEF Sound, Written
  <1>7. PICK r : r = db[top].roll
    OBVIOUS
  <1>8. /\ db'[top].roll = r \o g /\ ToSet(r \o g) = ToSet(r) \cup ToSet(g) /\ IsInjective(r \o g)
    <2>1. ToSet(r \o g) = ToSet(r) \cup ToSet(g) /\ IsInjective(r \o g)
      BY <1>2, <1>5, <1>6, <1>7, ConcatApart
    <2> QED  BY <1>1, <1>4, <1>7, <2>1 DEF Merged
  <1>9. Slots(top)' = {0} /\ Rows(top, 0)' = r \o g
    <2>1. Len(stage'[top]) = 0
      BY DEF Merged
    <2> QED  BY <1>8, <2>1 DEF Slots, Rows
  <1>10. ToSet(r \o g) = UNION {ToSet(Rows(top, i)) : i \in Slots(top)}
    <2>1. \A i \in Slots(top) : i = 0 \/ i \in DOMAIN f
      BY <1>2, <1>3 DEF Slots
    <2>2. 0 \in Slots(top) /\ \A i \in DOMAIN f : i \in Slots(top)
      BY <1>2, <1>3 DEF Slots
    <2>3. ToSet(Rows(top, 0)) = ToSet(r)
      BY <1>7 DEF Rows
    <2> QED  BY <1>3, <1>5, <1>8, <2>1, <2>2, <2>3
  <1>11. ToSet(r \o g) = Below[top]
    BY <1>10 DEF Sound, Written, Covered
  <1>12. Fresh(top)'
    BY DEF Fresh
  <1>13. Written(top)'
    BY <1>8, <1>9, <1>11 DEF Written
  <1>14. Covered(top)'
    BY <1>9, <1>11 DEF Covered
  <1> QED  BY <1>12, <1>13, <1>14 DEF Sound

\* A thread merges the staging databases.
LEMMA MergeSubtree == ASSUME IInv, SubtreeInv, NEW t \in Threads, RollupMerge(t) PROVE SubtreeInv'
  <1>0. PICK top : top = busy[t].top
    OBVIOUS
  <1>1. /\ UNCHANGED <<todo, tops, lost, queue>> /\ busy[t].what = "merge"
        /\ busy' = [busy EXCEPT ![t] = Free]
    BY DEF RollupMerge
  <1>2. ItemTypes /\ top \in Dirs /\ busy \in [Threads -> Copying]
    BY <1>0, <1>1 DEF IInv, ItemTypes
  <1>3. RowsInv' /\ OthersKept(top) /\ Merged(top)
    BY <1>0, MergeRows DEF SubtreeInv
  <1>4. IsMerged(top) /\ Pending(top) = {}
    <2>1. IsMerged(top)
      BY <1>0, <1>1 DEF IsMerged
    <2>2. IsFiniteSet(Pending(top)) /\ Cardinality(Pending(top)) = 0
      BY <1>2, <2>1 DEF IInv, CountInv
    <2> QED  BY <2>1, <2>2, FS_EmptySet
  <1>5. (\A u \in Threads : u # t => busy'[u] = busy[u]) /\ busy'[t].what = "free"
    BY <1>1, <1>2 DEF Free
  <1>6. \A x : SameCopies(x)
    BY <1>1, <1>2, <1>5, SameExcept
  <1>7. ASSUME NEW x PROVE Pending(x)' = Pending(x)
    <2>0. \A u \in Threads : 0 \notin DOMAIN queue[u]
      <3>1. \A u \in Threads : queue[u] \in Seq(Copies)
        BY <1>2 DEF ItemTypes
      <3> QED  BY <3>1
    <2>1. ASSUME NEW u \in Threads, NEW k \in Nat
          PROVE  <<u, k>> \in Pending(x)' <=> <<u, k>> \in Pending(x)
      <3>1. CASE u = t /\ k = 0
        BY <1>1, <1>5, <2>0, <3>1, PendingIs, PendingNext
      <3>2. CASE k # 0
        BY <1>1, <3>2, PendingIs, PendingNext
      <3>3. CASE u # t
        <4>1. busy'[u].what = busy[u].what /\ busy'[u].top = busy[u].top /\ queue'[u] = queue[u]
          BY <1>1, <1>5, <3>3
        <4> QED  BY <4>1, PendingIs, PendingNext
      <3> QED  BY <3>1, <3>2, <3>3
    <2>2. Pending(x) \subseteq Threads \X Nat /\ Pending(x)' \subseteq Threads \X Nat
      BY DEF Pending
    <2> QED  BY <2>1, <2>2
  <1>8. \A x : (IsMerged(x)' => IsMerged(x)) /\ (x # top /\ IsMerged(x) => IsMerged(x)')
    BY <1>0, <1>5 DEF IsMerged
  <1>9. Live(top)
    BY <1>4 DEF Live
  <1>10. LiveInv'
    <2>1. \A x \in Dirs : Live(x)' => Live(x)
      BY <1>1, <1>7, <1>8 DEF Live, IsFound, Find
    <2> QED  BY <2>1, LiveLess DEF SubtreeInv
  <1>11. StageInv'
    BY <1>3, <1>7, <1>8 DEF SubtreeInv, StageInv, OthersKept, Merged
  <1>12. SoundInv'
    <2>1. ASSUME NEW x \in Dirs, x # top, x \notin lost, ~IsTopOf(tops, x), db'[x].isroll PROVE Sound(x)'
      BY <1>2, <1>3, <1>6, <1>9, <2>1, OthersSound DEF SubtreeInv
    <2>2. ASSUME top \notin lost, ~IsTopOf(tops, top), db'[top].isroll PROVE Sound(top)'
      <3>1. Sound(top)
        BY <1>2, <1>3, <2>2 DEF SubtreeInv, SoundInv, Merged
      <3>2. Unwritten(top) = {} /\ Unwritten(top)' = {}
        BY <1>4, <1>7 DEF Unwritten
      <3> QED  BY <1>2, <1>3, <3>1, <3>2, MergeSound DEF SubtreeInv
    <2> QED  BY <1>1, <2>1, <2>2 DEF SoundInv
  <1> QED  BY <1>3, <1>10, <1>11, <1>12 DEF SubtreeInv

\* A step of the walk or of main() that touches no copies.
LEMMA QuietSubtree ==
    ASSUME SubtreeInv, UNCHANGED <<db, stage, queue, busy>>, LiveInv',
           \A x \in Dirs : x \notin lost' /\ ~IsTopOf(tops', x) => x \notin lost /\ ~IsTopOf(tops, x)
    PROVE  SubtreeInv'
  <1>1. \A x : Pending(x)' = Pending(x) /\ (IsMerged(x)' <=> IsMerged(x))
    BY DEF Pending, IsMerged
  <1>2. ASSUME NEW x PROVE SameCopies(x)
    <2>1. Unwritten(x)' = Unwritten(x) /\ \A p : DirOf(p)' = DirOf(p) /\ SlotOf(p)' = SlotOf(p)
      BY DEF Unwritten, Pending, DirOf, SlotOf
    <2> QED  BY <2>1 DEF SameCopies
  <1>3. RowsInv'
    BY DEF SubtreeInv, RowsInv
  <1>4. StageInv'
    BY <1>1 DEF SubtreeInv, StageInv
  <1>5. ASSUME NEW x \in Dirs, x \notin lost', ~IsTopOf(tops', x), db'[x].isroll PROVE Sound(x)'
    <2>1. Sound(x)
      BY <1>5 DEF SubtreeInv, SoundInv
    <2> QED  BY <1>2, <2>1, SoundKept
  <1> QED  BY <1>3, <1>4, <1>5 DEF SubtreeInv, SoundInv

\* There are no copies yet.
LEMMA EarlyLive == ASSUME IInv', phase' \in {"idle", "find"} PROVE LiveInv'
  <1>1. \A t \in Threads : queue'[t] = <<>> /\ busy'[t].what = "free"
    BY DEF IInv, PhaseInv
  <1>2. \A x : Pending(x)' = {} /\ ~IsMerged(x)'
    BY <1>1 DEF Pending, IsMerged
  <1> QED  BY <1>2 DEF LiveInv, Live, IInv, FoundInv

-----------------------------------------------------------------------------
(* What the walk lists.                                                    *)

\* Nothing is listed twice below a top, nor anything that is not below.
ListedOnce(x) ==
    /\ \A t \in Threads : IsInjective(lists[x][t]) /\ ToSet(lists[x][t]) \subseteq Below[x]
    /\ \A t, u \in Threads : t # u => ToSet(lists[x][t]) \cap ToSet(lists[x][u]) = {}

\* What is to be walked has nothing in common with what is listed and with
\* what else is to be walked.
ToWalk(x) == {y \in Dirs : Walk(x, y) \in todo}
WalkedOnce(x) ==
    /\ \A y \in ToWalk(x) : /\ Below[y] \subseteq Below[x]
                            /\ \A t \in Threads : ToSet(lists[x][t]) \cap Below[y] = {}
    /\ \A y, z \in ToWalk(x) : y # z => Below[y] \cap Below[z] = {}

\* Everything below a top is listed or will be.
ListedAll(x) ==
    \A y \in Below[x] : \/ \E t \in Threads : y \in ToSet(lists[x][t])
                        \/ \E z \in ToWalk(x) : y \in Below[z]

Listed(x) == ListedOnce(x) /\ WalkedOnce(x) /\ ListedAll(x)

\* So it is with every top below which no directory failed; and nothing is listed or
\* walked below any other directory.
ListInv ==
    \A x \in Dirs :
        /\ IsTopOf(tops, x) /\ x \notin lost => Listed(x)
        /\ ~IsTopOf(tops, x) => ToWalk(x) = {} /\ \A t \in Threads : lists[x][t] = <<>>

\* Neither the lists of a top nor what is to be walked below it change.
LEMMA ListedKept ==
    ASSUME NEW x \in Dirs, lists'[x] = lists[x], ToWalk(x)' = ToWalk(x), Listed(x) PROVE Listed(x)'
  BY DEF Listed, ListedOnce, WalkedOnce, ListedAll

\* A step that lists nothing keeps what holds of the tops that it does not add.
LEMMA ListsKept ==
    ASSUME ListInv, lists' = lists,
           \A x \in Dirs : /\ ToWalk(x)' \subseteq ToWalk(x)
                           /\ x \notin lost' => x \notin lost /\ ToWalk(x)' = ToWalk(x),
           \A x \in Dirs : IsTopOf(tops', x) <=> IsTopOf(tops, x)
    PROVE  ListInv'
  <1>1. ASSUME NEW x \in Dirs, IsTopOf(tops', x), x \notin lost' PROVE Listed(x)'
    <2>1. Listed(x) /\ lists'[x] = lists[x] /\ ToWalk(x)' = ToWalk(x)
      BY <1>1 DEF ListInv
    <2> QED  BY <2>1, ListedKept
  <1>2. ASSUME NEW x \in Dirs, ~IsTopOf(tops', x)
        PROVE  ToWalk(x)' = {} /\ \A t \in Threads : lists'[x][t] = <<>>
    BY <1>2 DEF ListInv
  <1> QED  BY <1>1, <1>2 DEF ListInv

\* The two kinds of tasks of the first walk are different ones.
LEMMA WalkIs ==
    /\ \A x, y \in Dirs : \A d : Walk(x, y) # Find(d)
    /\ \A x, y, a, b : Walk(x, y) = Walk(a, b) <=> x = a /\ y = b
  BY TopDownAssumption DEF Walk, Find

\* A directory is walked: its subdirectories are listed and will be walked.
LEMMA WalkListed ==
    ASSUME ItemTypes, NEW top \in Dirs, NEW d \in Dirs, NEW t \in Threads, d \in ToWalk(top), Listed(top),
           ToWalk(top)' = (ToWalk(top) \ {d}) \cup Kids(d),
           lists'[top] = [lists[top] EXCEPT ![t] = @ \o Subdirs[d]]
    PROVE  Listed(top)'
  <1>1. /\ Subdirs[d] \in Seq(Dirs) /\ IsInjective(Subdirs[d]) /\ ToSet(Subdirs[d]) = Kids(d)
        /\ lists[top] \in [Threads -> Seq(Dirs)]
    BY TreeAssumption DEF Kids, ItemTypes
  <1>2. /\ Kids(d) \subseteq Below[d] /\ \A c \in Kids(d) : Below[c] \subseteq Below[d] /\ c \notin Below[c]
        /\ \A c \in Kids(d) : c \in Dirs /\ Under(c) = {c} \cup Below[c]
        /\ Below[d] = UNION {Under(c) : c \in Kids(d)}
    <2>1. \A c \in Kids(d) : c \in Dirs
      BY KidsIs
    <2>2. \A c \in Kids(d) : Under(c) = {c} \cup Below[c] /\ c \notin Below[c]
      BY <2>1, UnderIsBelow
    <2>3. Below[d] = UNION {Under(c) : c \in Kids(d)}
      BY UnderIsBelow
    <2> QED  BY <2>1, <2>2, <2>3
  <1>3. \A c, k \in Kids(d) : c # k => Under(c) \cap Under(k) = {}
    BY KidsApart
  <1>4. \A c \in Kids(d) : Kids(d) \cap Below[c] = {}
    BY <1>2, <1>3
  <1>5. Below[d] \subseteq Below[top] /\ \A u \in Threads : ToSet(lists[top][u]) \cap Below[d] = {}
    BY DEF Listed, WalkedOnce
  <1>6. ASSUME NEW u \in Threads
        PROVE  /\ ToSet(lists'[top][u]) = ToSet(lists[top][u]) \cup (IF u = t THEN Kids(d) ELSE {})
               /\ IsInjective(lists'[top][u])
    <2>1. CASE u = t
      <3>1. PICK r, w : r = lists[top][t] /\ w = Subdirs[d]
        OBVIOUS
      <3>2. /\ r \in Seq(Dirs) /\ w \in Seq(Dirs) /\ IsInjective(r) /\ IsInjective(w)
            /\ ToSet(r) \cap ToSet(w) = {}
        BY <1>1, <1>2, <1>5, <3>1 DEF Listed, ListedOnce
      <3>3. ToSet(r \o w) = ToSet(r) \cup ToSet(w) /\ IsInjective(r \o w)
        BY <3>2, ConcatApart
      <3>4. lists'[top][u] = r \o w
        BY <1>1, <2>1, <3>1
      <3> QED  BY <1>1, <2>1, <3>1, <3>3, <3>4
    <2>2. CASE u # t
      <3>1. lists'[top][u] = lists[top][u]
        BY <1>1, <2>2
      <3> QED  BY <2>2, <3>1 DEF Listed, ListedOnce
    <2> QED  BY <2>1, <2>2
  <1>7. ListedOnce(top)'
    <2>1. \A u \in Threads : ToSet(lists'[top][u]) \subseteq Below[top]
      BY <1>2, <1>5, <1>6 DEF Listed, ListedOnce
    <2>2. ASSUME NEW u \in Threads, NEW v \in Threads, u # v
          PROVE  ToSet(lists'[top][u]) \cap ToSet(lists'[top][v]) = {}
      <3>1. ToSet(lists[top][u]) \cap ToSet(lists[top][v]) = {}
        BY <2>2 DEF Listed, ListedOnce
      <3> QED  BY <1>2, <1>5, <1>6, <2>2, <3>1
    <2> QED  BY <1>6, <2>1, <2>2 DEF ListedOnce
  <1>8. WalkedOnce(top)'
    <2>1. ASSUME NEW y \in ToWalk(top)'
          PROVE  /\ Below[y] \subseteq Below[top]
                 /\ \A u \in Threads : ToSet(lists'[top][u]) \cap Below[y] = {}
      <3>1. CASE y \in ToWalk(top) /\ y # d
        <4>1. Below[y] \cap Below[d] = {} /\ Below[y] \subseteq Below[top]
          BY <3>1 DEF Listed, WalkedOnce
        <4>2. \A u \in Threads : ToSet(lists[top][u]) \cap Below[y] = {}
          BY <3>1 DEF Listed, WalkedOnce
        <4> QED  BY <1>2, <1>6, <4>1, <4>2
      <3>2. CASE y \in Kids(d)
        BY <1>2, <1>4, <1>5, <1>6, <3>2
      <3> QED  BY <3>1, <3>2
    <2>2. ASSUME NEW y \in ToWalk(top)', NEW z \in ToWalk(top)', y # z
          PROVE  Below[y] \cap Below[z] = {}
      <3>1. CASE y \in ToWalk(top) \ {d} /\ z \in ToWalk(top) \ {d}
        BY <2>2, <3>1 DEF Listed, WalkedOnce
      <3>2. CASE y \in ToWalk(top) \ {d} /\ z \in Kids(d)
        <4>1. Below[y] \cap Below[d] = {}
          BY <3>2 DEF Listed, WalkedOnce
        <4> QED  BY <1>2, <3>2, <4>1
      <3>3. CASE z \in ToWalk(top) \ {d} /\ y \in Kids(d)
        <4>1. Below[z] \cap Below[d] = {}
          BY <3>3 DEF Listed, WalkedOnce
        <4> QED  BY <1>2, <3>3, <4>1
      <3>4. CASE y \in Kids(d) /\ z \in Kids(d)
        BY <1>2, <1>3, <2>2, <3>4
      <3> QED  BY <3>1, <3>2, <3>3, <3>4
    <2> QED  BY <2>1, <2>2 DEF WalkedOnce
  <1>9. ListedAll(top)'
    <2> SUFFICES ASSUME NEW y \in Below[top]
                 PROVE  \/ \E u \in Threads : y \in ToSet(lists'[top][u])
                        \/ \E z \in (ToWalk(top) \ {d}) \cup Kids(d) : y \in Below[z]
      BY DEF ListedAll
    <2>1. CASE \E u \in Threads : y \in ToSet(lists[top][u])
      BY <1>6, <2>1
    <2>2. CASE \E z \in ToWalk(top) \ {d} : y \in Below[z]
      BY <2>2
    <2>3. CASE y \in Below[d]
      <3>1. PICK c \in Kids(d) : y = c \/ y \in Below[c]
        BY <1>2, <2>3
      <3> QED  BY <1>6, <3>1
    <2> QED  BY <2>1, <2>2, <2>3 DEF Listed, ListedAll
  <1> QED  BY <1>7, <1>8, <1>9 DEF Listed

\* A new top: nothing is listed, and all is to be walked.
LEMMA TopListed ==
    ASSUME NEW d \in Dirs, \A t \in Threads : lists'[d][t] = <<>>, ToWalk(d)' = {d}
    PROVE  Listed(d)'
  <1>1. \A t \in Threads : ToSet(lists'[d][t]) = {} /\ IsInjective(lists'[d][t])
    BY EmptyApart
  <1>2. ListedOnce(d)'
    BY <1>1 DEF ListedOnce
  <1>3. WalkedOnce(d)'
    BY <1>1 DEF WalkedOnce
  <1>4. ListedAll(d)'
    BY DEF ListedAll
  <1> QED  BY <1>2, <1>3, <1>4 DEF Listed

TopsInv == SubtreeInv /\ ListInv

\* What the walk has found, with the name for a top.
LEMMA FoundIs == \A x : IsFound(x) <=> Find(x) \in todo \/ IsTopOf(tops, x)
  BY DEF IsFound, IsTopOf

\* The steps of the walk that add no top and list nothing.
LEMMA FindQuiet ==
    ASSUME IInv, IInv', TopsInv, phase = "find", NEW d \in Dirs, NEW top \in Dirs,
           FindTopDescends(d) \/ FindTopFails(d) \/ ParallelWalkFails(d, top)
    PROVE  TopsInv'
  <1>1. UNCHANGED <<db, stage, queue, busy, phase, tops, lists>> /\ lost \subseteq lost'
    BY DEF FindTopDescends, FindTopFails, ParallelWalkFails, copying
  <1>2. LiveInv'
    BY <1>1, EarlyLive
  <1>3. SubtreeInv'
    BY <1>1, <1>2, QuietSubtree DEF TopsInv
  <1>4. ASSUME NEW x \in Dirs
        PROVE  /\ ToWalk(x)' \subseteq ToWalk(x)
               /\ x \notin lost' => x \notin lost /\ ToWalk(x)' = ToWalk(x)
    <2>1. CASE FindTopDescends(d) \/ FindTopFails(d)
      <3>1. /\ \A y \in Dirs : Walk(x, y) \in todo' <=> Walk(x, y) \in todo
            /\ lost' = lost
        BY <2>1, WalkIs DEF FindTopDescends, FindTopFails
      <3> QED  BY <3>1 DEF ToWalk
    <2>2. CASE ParallelWalkFails(d, top)
      <3>1. /\ \A y \in Dirs : Walk(x, y) \in todo' => Walk(x, y) \in todo
            /\ x # top => \A y \in Dirs : Walk(x, y) \in todo' <=> Walk(x, y) \in todo
            /\ lost' = lost \cup {top}
        BY <2>2, WalkIs DEF ParallelWalkFails
      <3> QED  BY <3>1 DEF ToWalk
    <2> QED  BY <2>1, <2>2
  <1>5. ListInv'
    BY <1>1, <1>4, ListsKept DEF TopsInv
  <1> QED  BY <1>3, <1>5 DEF TopsInv

\* The walk appends a top to the list of its thread.
LEMMA TopAdded ==
    ASSUME ItemTypes, NEW d \in Dirs, NEW t \in Threads, tops' = [tops EXCEPT ![t] = Append(@, d)]
    PROVE  \A x : IsTopOf(tops', x) <=> IsTopOf(tops, x) \/ x = d
  <1> SUFFICES ASSUME NEW x PROVE IsTopOf(tops', x) <=> IsTopOf(tops, x) \/ x = d
    OBVIOUS
  <1>1. /\ tops[t] \in Seq(Dirs) /\ tops'[t] = Append(tops[t], d)
        /\ \A u \in Threads : u # t => tops'[u] = tops[u]
    BY DEF ItemTypes
  <1>2. /\ DOMAIN tops[t] = 1 .. Len(tops[t]) /\ Len(tops[t]) \in Nat
        /\ DOMAIN tops'[t] = 1 .. (Len(tops[t]) + 1) /\ tops'[t][Len(tops[t]) + 1] = d
        /\ \A i \in 1 .. Len(tops[t]) : tops'[t][i] = tops[t][i]
    BY <1>1, AppendProperties, LenProperties
  <1>3. ASSUME IsTopOf(tops', x) PROVE IsTopOf(tops, x) \/ x = d
    <2>1. PICK u \in Threads : \E i \in DOMAIN tops'[u] : tops'[u][i] = x
      BY <1>3 DEF IsTopOf
    <2>2. CASE u # t
      BY <1>1, <2>1, <2>2 DEF IsTopOf
    <2>3. CASE u = t
      <3>1. PICK i \in 1 .. (Len(tops[t]) + 1) : tops'[t][i] = x
        BY <1>2, <2>1, <2>3
      <3>2. i \in 1 .. Len(tops[t]) \/ i = Len(tops[t]) + 1
        BY <1>2
      <3> QED  BY <1>2, <3>1, <3>2 DEF IsTopOf
    <2> QED  BY <2>2, <2>3
  <1>4. ASSUME IsTopOf(tops, x) PROVE IsTopOf(tops', x)
    <2>1. PICK u \in Threads : \E i \in DOMAIN tops[u] : tops[u][i] = x
      BY <1>4 DEF IsTopOf
    <2>2. PICK i \in DOMAIN tops[u] : tops[u][i] = x
      BY <2>1
    <2>3. i \in DOMAIN tops'[u] /\ tops'[u][i] = x
      BY <1>1, <1>2, <2>2
    <2> QED  BY <2>3 DEF IsTopOf
  <1>5. IsTopOf(tops', d)
    <2>1. Len(tops[t]) + 1 \in DOMAIN tops'[t]
      BY <1>2
    <2> QED  BY <1>2, <2>1 DEF IsTopOf
  <1> QED  BY <1>3, <1>4, <1>5

\* The walk finds a top: nothing is listed below it yet, and all of it will be walked.
LEMMA FindTopTops ==
    ASSUME IInv, IInv', TopsInv, phase = "find", NEW d \in Dirs, NEW t \in Threads, FindTop(d, t)
    PROVE  TopsInv'
  <1>1. UNCHANGED <<db, stage, queue, busy, phase, lists>> /\ Find(d) \in todo
    BY DEF FindTop, copying
  <1>2. LiveInv'
    BY <1>1, EarlyLive
  <1>3. CASE opt.dry_run
    <2>1. tops' = tops /\ lost' = lost /\ todo' = todo \ {Find(d)}
      BY <1>3 DEF FindTop, Prepare
    <2>2. SubtreeInv'
      BY <1>1, <1>2, <2>1, QuietSubtree DEF TopsInv
    <2>3. \A x \in Dirs : ToWalk(x)' = ToWalk(x)
      <3>1. \A x, y \in Dirs : Walk(x, y) \in todo' <=> Walk(x, y) \in todo
        BY <2>1, WalkIs
      <3> QED  BY <3>1 DEF ToWalk
    <2>4. ListInv'
      BY <1>1, <2>1, <2>3, ListsKept DEF TopsInv
    <2> QED  BY <2>2, <2>4 DEF TopsInv
  <1>4. CASE ~opt.dry_run
    <2>1. /\ tops' = [tops EXCEPT ![t] = Append(@, d)] /\ lost' = lost \ {d}
          /\ todo' = (todo \ {Find(d)}) \cup {Walk(d, d)}
      BY <1>4 DEF FindTop, Prepare
    <2>2. tops \in [Threads -> Seq(Dirs)]
      BY DEF IInv, ItemTypes
    <2>3. ~IsTopOf(tops, d)
      BY <1>1 DEF IInv, FoundInv, IsTopOf
    <2>4. \A x : IsTopOf(tops', x) <=> IsTopOf(tops, x) \/ x = d
      BY <2>1, TopAdded DEF IInv
    <2>5. SubtreeInv'
      BY <1>1, <1>2, <2>1, <2>4, QuietSubtree DEF TopsInv
    <2>6. ToWalk(d) = {} /\ \A u \in Threads : lists[d][u] = <<>>
      BY <2>3 DEF TopsInv, ListInv
    <2>7. ASSUME NEW x \in Dirs PROVE ToWalk(x)' = ToWalk(x) \cup (IF x = d THEN {d} ELSE {})
      <3>1. \A y \in Dirs : Walk(x, y) \in todo' <=> Walk(x, y) \in todo \/ (x = d /\ y = d)
        BY <2>1, WalkIs
      <3> QED  BY <3>1 DEF ToWalk
    <2>8. Listed(d)'
      <3>1. ToWalk(d)' = {d} /\ \A u \in Threads : lists'[d][u] = <<>>
        BY <1>1, <2>6, <2>7
      <3> QED  BY <3>1, TopListed
    <2>9. ASSUME NEW x \in Dirs, x # d
          PROVE  /\ IsTopOf(tops', x) /\ x \notin lost' => Listed(x)'
                 /\ ~IsTopOf(tops', x) => ToWalk(x)' = {} /\ \A u \in Threads : lists'[x][u] = <<>>
      <3>1. ToWalk(x)' = ToWalk(x) /\ (x \notin lost' <=> x \notin lost) /\ lists'[x] = lists[x]
        BY <1>1, <2>1, <2>7, <2>9
      <3>2. Listed(x) => Listed(x)'
        BY <3>1, ListedKept
      <3> QED  BY <2>4, <2>9, <3>1, <3>2 DEF TopsInv, ListInv
    <2>10. ListInv'
      BY <2>4, <2>8, <2>9 DEF ListInv
    <2> QED  BY <2>5, <2>10 DEF TopsInv
  <1> QED  BY <1>3, <1>4

\* The walk lists the subdirectories of a directory.
LEMMA ParallelWalkTops ==
    ASSUME IInv, IInv', TopsInv, phase = "find", NEW d \in Dirs, NEW top \in Dirs, NEW t \in Threads,
           ParallelWalk(d, top, t)
    PROVE  TopsInv'
  <1>1. /\ UNCHANGED <<db, stage, queue, busy, phase, tops, lost>> /\ Walk(top, d) \in todo
        /\ todo' = (todo \ {Walk(top, d)}) \cup {Walk(top, c) : c \in Kids(d)}
        /\ lists' = [lists EXCEPT ![top][t] = @ \o Subdirs[d]]
    BY DEF ParallelWalk, copying
  <1>2. LiveInv'
    BY <1>1, EarlyLive
  <1>3. SubtreeInv'
    BY <1>1, <1>2, QuietSubtree DEF TopsInv
  <1>4. lists \in [Dirs -> [Threads -> Seq(Dirs)]] /\ ItemTypes
    BY DEF IInv, ItemTypes
  <1>5. /\ lists'[top] = [lists[top] EXCEPT ![t] = @ \o Subdirs[d]]
        /\ \A x \in Dirs : x # top => lists'[x] = lists[x]
    BY <1>1, <1>4
  <1>6. ASSUME NEW x \in Dirs
        PROVE  ToWalk(x)' = IF x = top THEN (ToWalk(top) \ {d}) \cup Kids(d) ELSE ToWalk(x)
    <2>1. Kids(d) \subseteq Dirs
      BY KidsIs
    <2>2. \A y \in Dirs : Walk(x, y) \in todo' <=>
              \/ Walk(x, y) \in todo /\ ~(x = top /\ y = d)
              \/ x = top /\ y \in Kids(d)
      BY <1>1, WalkIs
    <2> QED  BY <2>1, <2>2 DEF ToWalk
  <1>7. d \in ToWalk(top)
    BY <1>1 DEF ToWalk
  <1>8. IsTopOf(tops, top)
    BY <1>7 DEF TopsInv, ListInv
  <1>9. ASSUME Listed(top) PROVE Listed(top)'
    BY <1>4, <1>5, <1>6, <1>7, <1>9, WalkListed
  <1>10. ASSUME NEW x \in Dirs, x # top, Listed(x) PROVE Listed(x)'
    BY <1>5, <1>6, <1>10, ListedKept
  <1>11. ListInv'
    <2>1. ASSUME NEW x \in Dirs, IsTopOf(tops', x), x \notin lost' PROVE Listed(x)'
      BY <1>1, <1>9, <1>10, <2>1 DEF TopsInv, ListInv
    <2>2. ASSUME NEW x \in Dirs, ~IsTopOf(tops', x)
          PROVE  ToWalk(x)' = {} /\ \A u \in Threads : lists'[x][u] = <<>>
      BY <1>1, <1>5, <1>6, <1>8, <2>2 DEF TopsInv, ListInv
    <2> QED  BY <2>1, <2>2 DEF ListInv
  <1> QED  BY <1>3, <1>11 DEF TopsInv

\* The rest of the steps that touch no copies.
LEMMA MainTops ==
    ASSUME IInv, IInv', TopsInv, (\E o \in Options : Start(o)) \/ FoundAll \/ MainWaits \/ Stop \/ End
    PROVE  TopsInv'
  <1>1. UNCHANGED <<db, stage, queue, busy, tops, lists, lost>>
    BY DEF Start, FoundAll, MainWaits, Stop, End, copying
  <1>2. \/ todo' = todo
        \/ phase' = "find" /\ todo' = {Find(Root)} /\ todo = {}
    BY DEF Start, FoundAll, MainWaits, Stop, End, copying, IInv, PhaseInv
  <1>3. LiveInv'
    <2>1. CASE phase' = "find"
      BY <2>1, EarlyLive
    <2>2. CASE todo' = todo
      <3>1. \A x : Pending(x)' = Pending(x) /\ (IsMerged(x)' <=> IsMerged(x)) /\ (IsFound(x)' <=> IsFound(x))
        BY <1>1, <2>2 DEF Pending, IsMerged, IsFound, Find
      <3>2. \A x \in Dirs : Live(x)' => Live(x)
        BY <3>1 DEF Live
      <3> QED  BY <3>2, LiveLess DEF TopsInv, SubtreeInv
    <2> QED  BY <1>2, <2>1, <2>2
  <1>4. SubtreeInv'
    BY <1>1, <1>3, QuietSubtree DEF TopsInv
  <1>5. ASSUME NEW x \in Dirs PROVE ToWalk(x)' = ToWalk(x)
    <2>1. \A y \in Dirs : Walk(x, y) \in todo' <=> Walk(x, y) \in todo
      BY <1>2, WalkIs
    <2> QED  BY <2>1 DEF ToWalk
  <1>6. ListInv'
    BY <1>1, <1>5, ListsKept DEF TopsInv
  <1> QED  BY <1>4, <1>6 DEF TopsInv

\* The steps of the copies list nothing.
LEMMA CopyTops == ASSUME IInv, IInv', TopsInv, NEW t \in Threads, CopyStep(t) PROVE TopsInv'
  <1>1. UNCHANGED <<todo, tops, lists>> /\ lost \subseteq lost'
    BY DEF CopyStep, PopCopy, CopyToTop, CopyFails, CountCopy, RollupMerge
  <1>2. SubtreeInv'
    BY PopSubtree, WriteSubtree, FailSubtree, CountSubtree, MergeSubtree DEF CopyStep, TopsInv
  <1>3. \A x \in Dirs : ToWalk(x)' = ToWalk(x)
    BY <1>1 DEF ToWalk
  <1>4. ListInv'
    BY <1>1, <1>3, ListsKept DEF TopsInv
  <1> QED  BY <1>2, <1>4 DEF TopsInv

\* What is listed below a top, all lists together.
LEMMA ListedBelow ==
    ASSUME ItemTypes, NEW top \in Dirs, Listed(top), todo = {}
    PROVE  IsInjective(Below1(top)) /\ ToSet(Below1(top)) = Below[top]
  <1>1. N \in Nat
    BY TopDownAssumption
  <1>2. PICK f : f = [i \in 1 .. N |-> lists[top][i - 1]]
    OBVIOUS
  <1>3. \A i \in 1 .. N : i - 1 \in Threads
    BY <1>1 DEF Threads
  <1>4. DOMAIN f = 1 .. N /\ f \in Seq(Seq(Dirs)) /\ \A i \in 1 .. N : f[i] = lists[top][i - 1]
    <2>1. \A i \in 1 .. N : lists[top][i - 1] \in Seq(Dirs)
      BY <1>3 DEF ItemTypes
    <2> QED  BY <1>1, <1>2, <2>1
  <1>5. AllApart(f)
    <2>1. \A i, j \in 1 .. N : i # j => i - 1 # j - 1
      BY <1>1
    <2>2. \A i \in DOMAIN f : IsInjective(f[i])
      BY <1>3, <1>4 DEF Listed, ListedOnce
    <2>3. ASSUME NEW i \in DOMAIN f, NEW j \in DOMAIN f, i # j
          PROVE  ToSet(f[i]) \cap ToSet(f[j]) = {}
      <3>1. PICK t, u : t = i - 1 /\ u = j - 1
        OBVIOUS
      <3>2. t \in Threads /\ u \in Threads /\ t # u
        BY <1>3, <1>4, <2>1, <2>3, <3>1
      <3>3. f[i] = lists[top][t] /\ f[j] = lists[top][u]
        BY <1>4, <3>1
      <3> QED  BY <3>2, <3>3 DEF Listed, ListedOnce
    <2> QED  BY <2>2, <2>3 DEF AllApart
  <1>6. Below1(top) = FlattenSeq(f)
    BY <1>2 DEF Below1
  <1>7. IsInjective(Below1(top)) /\ ToSet(Below1(top)) = UNION {ToSet(f[i]) : i \in DOMAIN f}
    BY <1>4, <1>5, <1>6, FlattenApart
  <1>8. ASSUME NEW y \in Below[top] PROVE \E i \in DOMAIN f : y \in ToSet(f[i])
    <2>1. PICK t \in Threads : y \in ToSet(lists[top][t])
      BY DEF Listed, ListedAll, ToWalk
    <2>2. t + 1 \in 1 .. N /\ (t + 1) - 1 = t
      BY <1>1 DEF Threads
    <2>3. f[t + 1] = lists[top][t]
      BY <1>4, <2>2
    <2> QED  BY <1>4, <2>1, <2>2, <2>3
  <1>9. \A i \in DOMAIN f : ToSet(f[i]) \subseteq Below[top]
    BY <1>3, <1>4 DEF Listed, ListedOnce
  <1> QED  BY <1>7, <1>8, <1>9

\* The copies go to databases that there are.
LEMMA SlotIs ==
    ASSUME NEW n \in Nat, NEW i \in 1 .. n
    PROVE  ThreadsUsed(n) \in Nat \ {0} /\ (i - 1) % ThreadsUsed(n) \in 0 .. (ThreadsUsed(n) - 1)
  <1>1. N \in Nat \ {0}
    BY TopDownAssumption
  <1>2. CASE n < N
    <2>1. (i - 1) % n = i - 1
      BY Z3
    <2> QED  BY <1>2, <2>1 DEF ThreadsUsed
  <1>3. CASE ~(n < N)
    <2>1. i - 1 \in Int
      OBVIOUS
    <2>2. (i - 1) % N \in 0 .. (N - 1)
      BY <2>1, Division
    <2> QED  BY <1>1, <1>3, <2>2 DEF ThreadsUsed
  <1> QED  BY <1>2, <1>3

\* What is dealt out: every directory below once, when none has rows of others.
LEMMA DealSound ==
    ASSUME NEW top \in Dirs, NEW dirs \in Seq(Dirs), DealtTo(top, dirs),
           IsInjective(dirs), ToSet(dirs) = Below[top],
           \A y \in ToSet(dirs) : db'[y].roll = <<>>,
           Len(stage'[top]) = IF ThreadsUsed(Len(dirs)) = 0 THEN 0 ELSE ThreadsUsed(Len(dirs)) - 1,
           \A i \in Slots(top)' : Rows(top, i)' = <<>>,
           \A u \in Threads : \A k \in Nat :
               /\ <<u, k>> \in Unwritten(top)' <=> New(u, k)
               /\ New(u, k) => /\ DirOf(<<u, k>>)' = dirs[Item(u, k)]
                               /\ SlotOf(<<u, k>>)' = (Item(u, k) - 1) % ThreadsUsed(Len(dirs))
    PROVE  Sound(top)'
  <1>1. Len(dirs) \in Nat /\ DOMAIN dirs = 1 .. Len(dirs)
    OBVIOUS
  <1>2. \A p \in Unwritten(top)' : \E u \in Threads : \E k \in Nat : p = <<u, k>> /\ New(u, k)
    <2>1. \A p \in Unwritten(top)' : \E u \in Threads : \E k \in Nat : p = <<u, k>>
      BY DEF Unwritten, Pending
    <2> QED  BY <2>1
  <1>3. \A i \in Slots(top)' : IsInjective(Rows(top, i)') /\ ToSet(Rows(top, i)') = {}
    BY EmptyApart
  <1>4. ASSUME NEW u \in Threads, NEW k \in Nat, New(u, k)
        PROVE  /\ Item(u, k) \in DOMAIN dirs /\ DirOf(<<u, k>>)' = dirs[Item(u, k)]
               /\ dirs[Item(u, k)] \in ToSet(dirs) /\ SlotOf(<<u, k>>)' \in Slots(top)'
    <2>1. Item(u, k) \in 1 .. Len(dirs)
      BY <1>4 DEF DealtTo
    <2>2. dirs[Item(u, k)] \in ToSet(dirs)
      BY <1>1, <2>1 DEF ToSet
    <2>3. /\ ThreadsUsed(Len(dirs)) \in Nat \ {0}
          /\ SlotOf(<<u, k>>)' \in 0 .. (ThreadsUsed(Len(dirs)) - 1)
      BY <1>1, <1>4, <2>1, SlotIs
    <2>4. Slots(top)' = 0 .. (ThreadsUsed(Len(dirs)) - 1)
      BY <2>3 DEF Slots
    <2> QED  BY <1>1, <1>4, <2>1, <2>2, <2>3, <2>4
  <1>5. ASSUME NEW p \in Unwritten(top)', NEW q \in Unwritten(top)', DirOf(p)' = DirOf(q)'
        PROVE  p = q
    <2>1. PICK u \in Threads, k \in Nat : p = <<u, k>> /\ New(u, k)
      BY <1>2
    <2>2. PICK v \in Threads, l \in Nat : q = <<v, l>> /\ New(v, l)
      BY <1>2
    <2>3. /\ DirOf(p)' = dirs[Item(u, k)] /\ DirOf(q)' = dirs[Item(v, l)]
          /\ Item(u, k) \in DOMAIN dirs /\ Item(v, l) \in DOMAIN dirs
      BY <1>4, <2>1, <2>2
    <2>4. Item(u, k) = Item(v, l)
      BY <1>5, <2>3 DEF IsInjective
    <2>5. u = v /\ k = l
      BY <2>1, <2>2, <2>4 DEF DealtTo
    <2> QED  BY <2>1, <2>2, <2>5
  <1>6. ASSUME NEW p \in Unwritten(top)'
        PROVE  /\ SlotOf(p)' \in Slots(top)' /\ DirOf(p)' \in Below[top] /\ db'[DirOf(p)'].roll = <<>>
               /\ \A i \in Slots(top)' : DirOf(p)' \notin ToSet(Rows(top, i)')
    <2>1. PICK u \in Threads, k \in Nat : p = <<u, k>> /\ New(u, k)
      BY <1>2
    <2>2. DirOf(p)' \in ToSet(dirs) /\ SlotOf(p)' \in Slots(top)'
      BY <1>4, <2>1
    <2> QED  BY <1>3, <2>2
  <1>7. Fresh(top)'
    BY <1>5, <1>6 DEF Fresh
  <1>8. Written(top)'
    BY <1>3 DEF Written
  <1>9. Covered(top)'
    <2> SUFFICES ASSUME NEW y \in Below[top]
                 PROVE  \E u \in Threads : \E k \in Nat : <<u, k>> \in Unwritten(top)' /\ DirOf(<<u, k>>)' = y
      BY Zenon DEF Covered
    <2>1. PICK i \in DOMAIN dirs : dirs[i] = y
      BY DEF ToSet
    <2>2. PICK u \in Threads : \E k \in Nat : New(u, k) /\ Item(u, k) = i
      BY <1>1 DEF DealtTo
    <2>3. PICK k \in Nat : New(u, k) /\ Item(u, k) = i
      BY <2>2
    <2> QED  BY <1>4, <2>1, <2>3
  <1> QED  BY <1>7, <1>8, <1>9 DEF Sound

\* main() takes one top, and leaves the others.
LEMMA PoppedTops ==
    ASSUME IInv, TopsLeft, tops' = Popped, todo' = todo
    PROVE  /\ \A x : IsTopOf(tops', x) <=> IsTopOf(tops, x) /\ x # NextTop
           /\ IsTopOf(tops, NextTop) /\ NextTop \in Dirs /\ IsFound(NextTop)
  <1>1. ItemTypes /\ FoundInv
    BY DEF IInv
  <1>2. IsTopOf(tops, NextTop) /\ NextTop \in Dirs
    BY <1>1, PoppedIs DEF IsTopOf
  <1>3. \A x : IsTopOf(tops', x) => IsTopOf(tops, x) /\ x # NextTop
    BY <1>1, FoundPopped DEF IsTopOf
  <1>4. \A x : IsTopOf(tops, x) /\ x # NextTop => IsTopOf(tops', x)
    BY <1>1, PoppedLeaves
  <1> QED  BY <1>2, <1>3, <1>4, FoundIs

\* What it takes is listed no more.
LEMMA TakenLists ==
    ASSUME IInv, ListInv, TopsLeft, tops' = Popped, todo' = todo, todo = {}, lost \subseteq lost',
           lists' = [lists EXCEPT ![NextTop] = [t \in Threads |-> <<>>]]
    PROVE  ListInv'
  <1>1. /\ \A x : IsTopOf(tops', x) <=> IsTopOf(tops, x) /\ x # NextTop
        /\ NextTop \in Dirs
    BY PoppedTops
  <1>2. lists \in [Dirs -> [Threads -> Seq(Dirs)]]
    BY DEF IInv, ItemTypes
  <1>3. /\ \A t \in Threads : lists'[NextTop][t] = <<>>
        /\ \A x \in Dirs : x # NextTop => lists'[x] = lists[x]
    BY <1>1, <1>2
  <1>4. \A x : ToWalk(x)' = {} /\ ToWalk(x) = {}
    BY DEF ToWalk
  <1>5. ASSUME NEW x \in Dirs, IsTopOf(tops', x), x \notin lost' PROVE Listed(x)'
    <2>1. Listed(x) /\ lists'[x] = lists[x] /\ ToWalk(x)' = ToWalk(x)
      BY <1>1, <1>3, <1>4, <1>5 DEF ListInv
    <2> QED  BY <2>1, ListedKept
  <1>6. ASSUME NEW x \in Dirs, ~IsTopOf(tops', x) PROVE \A t \in Threads : lists'[x][t] = <<>>
    BY <1>1, <1>3, <1>6 DEF ListInv
  <1> QED  BY <1>4, <1>5, <1>6 DEF ListInv

\* main() gives a top up.
LEMMA GiveUpTops == ASSUME IInv, IInv', TopsInv, EnqueueFails PROVE TopsInv'
  <1>1. /\ UNCHANGED <<todo, queue, busy>> /\ tops' = Popped /\ TopsLeft /\ phase = "copy"
        /\ lost' = lost \cup {NextTop}
        /\ lists' = [lists EXCEPT ![NextTop] = [t \in Threads |-> <<>>]]
    BY DEF EnqueueFails, Ready
  <1>2. todo = {} /\ ItemTypes
    BY <1>1 DEF IInv, PhaseInv
  <1>3. ListInv'
    BY <1>1, <1>2, TakenLists DEF TopsInv
  <1>4. RowsInv' /\ OthersKept(NextTop) /\ stage' = stage
    BY GiveUpRows DEF TopsInv, SubtreeInv
  <1>5. /\ \A x : IsTopOf(tops', x) <=> IsTopOf(tops, x) /\ x # NextTop
        /\ IsFound(NextTop) /\ NextTop \in Dirs
    BY <1>1, PoppedTops
  <1>6. \A x : Pending(x)' = Pending(x) /\ (IsMerged(x)' <=> IsMerged(x)) /\ (IsFound(x)' => IsFound(x))
    <2>1. \A x : IsFound(x)' <=> Find(x) \in todo' \/ IsTopOf(tops', x)
      BY DEF IsFound, IsTopOf, Find
    <2> QED  BY <1>1, <1>5, <2>1, FoundIs DEF Pending, IsMerged
  <1>7. LiveInv' /\ StageInv'
    <2>1. \A x \in Dirs : Live(x)' => Live(x)
      BY <1>6 DEF Live
    <2>2. StageInv'
      BY <1>4, <1>6 DEF TopsInv, SubtreeInv, StageInv
    <2> QED  BY <2>1, <2>2, LiveLess DEF TopsInv, SubtreeInv
  <1>8. ASSUME NEW x PROVE SameCopies(x)
    <2>1. Unwritten(x)' = Unwritten(x) /\ \A p : DirOf(p)' = DirOf(p) /\ SlotOf(p)' = SlotOf(p)
      BY <1>1 DEF Unwritten, Pending, DirOf, SlotOf
    <2> QED  BY <2>1 DEF SameCopies
  <1>9. SoundInv'
    <2> SUFFICES ASSUME NEW x \in Dirs, x \notin lost', ~IsTopOf(tops', x), db'[x].isroll PROVE Sound(x)'
      BY DEF SoundInv
    <2>1. x # NextTop /\ x \notin lost /\ ~IsTopOf(tops, x) /\ Live(NextTop)
      BY <1>1, <1>5 DEF Live
    <2> QED  BY <1>4, <1>5, <1>8, <2>1, OthersSound DEF TopsInv, SubtreeInv
  <1> QED  BY <1>3, <1>4, <1>7, <1>9 DEF TopsInv, SubtreeInv

\* main() deals out what is listed below a top.
LEMMA DealTops == ASSUME IInv, IInv', TopsInv, EnqueueRollupCopy PROVE TopsInv'
  <1>0. PICK top, dirs : top = NextTop /\ dirs = Below1(NextTop)
    OBVIOUS
  <1>1. /\ UNCHANGED <<todo, busy>> /\ tops' = Popped /\ TopsLeft /\ phase = "copy"
        /\ lost' = (IF \E d \in ToSet(dirs) : db[d].roll # <<>> THEN lost \cup {top} ELSE lost)
        /\ lists' = [lists EXCEPT ![NextTop] = [t \in Threads |-> <<>>]]
    BY <1>0 DEF EnqueueRollupCopy, Ready
  <1>2. todo = {} /\ ItemTypes
    BY <1>1 DEF IInv, PhaseInv
  <1>3. ListInv'
    BY <1>1, <1>2, TakenLists DEF TopsInv
  <1>4. /\ RowsInv' /\ OthersKept(top) /\ top \in Dirs /\ db'[top].roll = <<>>
        /\ Len(stage'[top]) = IF ThreadsUsed(Len(dirs)) = 0 THEN 0 ELSE ThreadsUsed(Len(dirs)) - 1
        /\ \A i \in DOMAIN stage'[top] : stage'[top][i].roll = <<>>
    BY <1>0, DealRows DEF TopsInv, SubtreeInv
  <1>5. /\ \A x : IsTopOf(tops', x) <=> IsTopOf(tops, x) /\ x # top
        /\ IsFound(top) /\ IsTopOf(tops, top)
    BY <1>0, <1>1, PoppedTops
  <1>6. dirs \in Seq(Dirs) /\ Len(dirs) \in Nat /\ DealtTo(top, dirs)
    <2>1. dirs \in Seq(Dirs)
      BY <1>0, <1>2, <1>4, BelowIs
    <2> QED  BY <1>0, <1>2, <1>4, <2>1, DealtOut
  <1>7. Pending(top) = {} /\ ~IsMerged(top)
    BY <1>4, <1>5 DEF IInv, OnceInv, IsTopOf
  <1>8. ASSUME NEW u \in Threads, NEW k \in Nat
        PROVE  /\ <<u, k>> \in Pending(top)' <=> New(u, k)
               /\ <<u, k>> \in Unwritten(top)' <=> New(u, k)
               /\ New(u, k) => /\ DirOf(<<u, k>>)' = dirs[Item(u, k)]
                               /\ SlotOf(<<u, k>>)' = (Item(u, k) - 1) % ThreadsUsed(Len(dirs))
    <2>1. ~(k = 0 /\ busy[u].what \in {"write", "count"} /\ busy[u].top = top)
      BY <1>7, PendingIs
    <2>2. ~(k \in DOMAIN queue[u] /\ queue[u][k].top = top)
      BY <1>7, PendingIs
    <2>3. <<u, k>> \in Pending(top)' <=> k \in DOMAIN queue'[u] /\ queue'[u][k].top = top
      BY <1>1, <2>1, PendingNext
    <2>4. <<u, k>> \in Pending(top)' <=> New(u, k)
      BY <1>6, <2>2, <2>3 DEF DealtTo, New
    <2>5. New(u, k) => k # 0
      BY <1>6 DEF DealtTo
    <2>6. <<u, k>> \in Unwritten(top)' <=> New(u, k)
      BY <2>4, <2>5, PendingNext
    <2>7. New(u, k) => /\ DirOf(<<u, k>>)' = queue'[u][k].dir /\ SlotOf(<<u, k>>)' = queue'[u][k].slot
      BY <2>5, PendingNext
    <2> QED  BY <1>6, <2>4, <2>6, <2>7 DEF DealtTo
  <1>9. ASSUME NEW o, o # top
        PROVE  SameCopies(o) /\ Pending(o)' = Pending(o)
    <2>1. ASSUME NEW u \in Threads, NEW k \in Nat
          PROVE  /\ <<u, k>> \in Pending(o)' <=> <<u, k>> \in Pending(o)
                 /\ <<u, k>> \in Unwritten(o)' <=> <<u, k>> \in Unwritten(o)
                 /\ <<u, k>> \in Pending(o) => /\ DirOf(<<u, k>>)' = DirOf(<<u, k>>)
                                              /\ SlotOf(<<u, k>>)' = SlotOf(<<u, k>>)
      <3>1. k \in DOMAIN queue'[u] /\ queue'[u][k].top = o <=> k \in DOMAIN queue[u] /\ queue[u][k].top = o
        <4>1. DealtTo(top, dirs) /\ o # top
          BY <1>6, <1>9
        <4> QED  BY <4>1, DealtOthers
      <3>2. <<u, k>> \in Pending(o)' <=> <<u, k>> \in Pending(o)
        BY <1>1, <3>1, PendingIs, PendingNext
      <3>3. <<u, k>> \in Unwritten(o)' <=> <<u, k>> \in Unwritten(o)
        BY <1>1, <3>2, PendingIs, PendingNext
      <3>4. <<u, k>> \in Pending(o) /\ k # 0 => k \in DOMAIN queue[u]
        BY PendingIs
      <3>5. k = 0 => DirOf(<<u, k>>)' = DirOf(<<u, k>>) /\ SlotOf(<<u, k>>)' = SlotOf(<<u, k>>)
        BY <1>1, PendingIs, PendingNext
      <3>6. k \in DOMAIN queue[u] => DirOf(<<u, k>>)' = DirOf(<<u, k>>) /\ SlotOf(<<u, k>>)' = SlotOf(<<u, k>>)
        BY <1>6, PendingIs, PendingNext DEF DealtTo
      <3> QED  BY <3>2, <3>3, <3>4, <3>5, <3>6
    <2>2. Pending(o) \subseteq Threads \X Nat /\ Pending(o)' \subseteq Threads \X Nat
      BY DEF Pending
    <2>3. Pending(o)' = Pending(o)
      BY <2>1, <2>2
    <2>4. \A p : p \in Unwritten(o) => p \in Pending(o)
      BY DEF Unwritten
    <2> QED  BY <2>1, <2>3, <2>4 DEF SameCopies
  <1>10. \A x : (IsMerged(x)' <=> IsMerged(x)) /\ (IsFound(x)' => IsFound(x))
    <2>1. \A x : IsFound(x)' <=> Find(x) \in todo' \/ IsTopOf(tops', x)
      BY DEF IsFound, IsTopOf, Find
    <2> QED  BY <1>1, <1>5, <2>1, FoundIs DEF IsMerged
  <1>11. LiveInv'
    <2>1. \A x \in Dirs : Live(x)' => Live(x)
      BY <1>5, <1>9, <1>10 DEF Live
    <2> QED  BY <2>1, LiveLess DEF TopsInv, SubtreeInv
  <1>12. StageInv'
    <2>1. ASSUME stage'[top] # <<>> PROVE Pending(top)' # {}
      <3>1. stage'[top] \in Seq(Staging)
        BY <1>4 DEF RowsInv
      <3>2. Len(dirs) # 0
        <4>1. Len(dirs) = 0 => ThreadsUsed(Len(dirs)) = 0
          BY TopDownAssumption DEF ThreadsUsed
        <4> QED  BY <1>4, <2>1, <3>1, <4>1, EmptySeq
      <3>3. 1 \in 1 .. Len(dirs)
        BY <1>6, <3>2
      <3>4. PICK u \in Threads : \E k \in Nat : New(u, k)
        BY <1>6, <3>3 DEF DealtTo
      <3>5. PICK k \in Nat : New(u, k)
        BY <3>4
      <3>6. <<u, k>> \in Pending(top)'
        BY <1>8, <3>5
      <3> QED  BY <3>6
    <2>2. ASSUME NEW x \in Dirs, x # top, stage'[x] # <<>> PROVE Pending(x)' # {} \/ IsMerged(x)'
      <3>1. stage[x] # <<>> /\ Pending(x)' = Pending(x)
        BY <1>4, <1>9, <2>2 DEF OthersKept
      <3> QED  BY <1>10, <3>1 DEF TopsInv, SubtreeInv, StageInv
    <2> QED  BY <2>1, <2>2 DEF StageInv
  <1>13. ASSUME top \notin lost' PROVE Sound(top)'
    <2>1. top \notin lost /\ \A d \in ToSet(dirs) : db[d].roll = <<>>
      BY <1>1, <1>13
    <2>2. Listed(top)
      BY <1>4, <1>5, <2>1 DEF TopsInv, ListInv
    <2>3. IsInjective(dirs) /\ ToSet(dirs) = Below[top]
      BY <1>0, <1>2, <1>4, <2>2, ListedBelow
    <2>4. \A y \in ToSet(dirs) : db'[y].roll = <<>>
      BY <1>4, <2>1, <2>3, UnderIsBelow DEF OthersKept
    <2>5. ASSUME NEW i \in Slots(top)' PROVE Rows(top, i)' = <<>>
      <3>1. stage'[top] \in Seq(Staging)
        BY <1>4 DEF RowsInv
      <3>2. i = 0 \/ i \in DOMAIN stage'[top]
        BY <3>1 DEF Slots
      <3> QED  BY <1>4, <3>2 DEF Rows
    <2> QED  BY <1>4, <1>6, <1>8, <2>3, <2>4, <2>5, DealSound
  <1>14. SoundInv'
    <2>1. ASSUME NEW x \in Dirs, x # top, x \notin lost', ~IsTopOf(tops', x), db'[x].isroll PROVE Sound(x)'
      <3>1. x \notin lost /\ ~IsTopOf(tops, x) /\ Live(top) /\ SameCopies(x)
        BY <1>1, <1>5, <1>9, <2>1 DEF Live
      <3> QED  BY <1>4, <2>1, <3>1, OthersSound DEF TopsInv, SubtreeInv
    <2> QED  BY <1>13, <2>1 DEF SoundInv
  <1> QED  BY <1>3, <1>4, <1>11, <1>12, <1>14 DEF TopsInv, SubtreeInv

\* The invariant is inductive.
LEMMA TopsInit == Init => TopsInv
  <1> SUFFICES ASSUME Init PROVE TopsInv
    OBVIOUS
  <1>1. PICK p \in Perms : db = [d \in Dirs |-> Marked(p, d)]
    BY DEF Init
  <1>2. /\ todo = {} /\ phase = "idle" /\ stage = [d \in Dirs |-> <<>>]
        /\ tops = [t \in Threads |-> <<>>] /\ queue = [t \in Threads |-> <<>>]
        /\ lists = [d \in Dirs |-> [t \in Threads |-> <<>>]] /\ busy = [t \in Threads |-> Free]
    BY DEF Init
  <1>3. ASSUME NEW d \in Dirs PROVE IsRows(Marked(p, d)) /\ ~Marked(p, d).isroll /\ Marked(p, d).roll = <<>>
    <2>1. <<>> \in Seq(Dirs)
      OBVIOUS
    <2> QED  BY <2>1 DEF IsRows, Fields, Marked, NewDb
  <1>4. RowsInv
    BY <1>1, <1>2, <1>3, EmptyApart DEF RowsInv, Free
  <1>5. \A x : ~IsTopOf(tops, x) /\ Pending(x) = {} /\ ~IsMerged(x) /\ ~IsFound(x)
    BY <1>2 DEF IsTopOf, Pending, IsMerged, IsFound, Free
  <1>6. LiveInv /\ StageInv
    BY <1>2, <1>5 DEF LiveInv, Live, StageInv
  <1>7. SoundInv
    BY <1>1, <1>3 DEF SoundInv
  <1>8. ListInv
    BY <1>2, <1>5 DEF ListInv, ToWalk
  <1> QED  BY <1>4, <1>6, <1>7, <1>8 DEF TopsInv, SubtreeInv

LEMMA TopsNext == IInv /\ IInv' /\ TopsInv /\ [Next]_vars => TopsInv'
  <1> SUFFICES ASSUME IInv, IInv', TopsInv, [Next]_vars PROVE TopsInv'
    OBVIOUS
  <1>1. CASE UNCHANGED vars
    <2>1. UNCHANGED <<db, stage, queue, busy, tops, todo, lists, lost>>
      BY <1>1 DEF vars
    <2>2. \A x : Pending(x)' = Pending(x) /\ (IsMerged(x)' <=> IsMerged(x)) /\ (IsFound(x)' <=> IsFound(x))
      BY <2>1 DEF Pending, IsMerged, IsFound, Find
    <2>3. LiveInv'
      BY <2>2 DEF TopsInv, SubtreeInv, LiveInv, Live
    <2>4. SubtreeInv'
      BY <2>1, <2>3, QuietSubtree DEF TopsInv
    <2>5. \A x \in Dirs : ToWalk(x)' = ToWalk(x)
      BY <2>1 DEF ToWalk
    <2>6. ListInv'
      BY <2>1, <2>5, ListsKept DEF TopsInv
    <2> QED  BY <2>4, <2>6 DEF TopsInv
  <1>2. CASE \E o \in Options : Start(o)
    BY <1>2, MainTops
  <1>3. CASE MainStep
    BY <1>3, MainTops, DealTops, GiveUpTops DEF MainStep
  <1>4. ASSUME NEW t \in Threads, FindStep(t) PROVE TopsInv'
    <2>1. Root \in Dirs
      BY TreeAssumption
    <2> QED  BY <1>4, <2>1, FindQuiet, FindTopTops, ParallelWalkTops DEF FindStep
  <1>5. ASSUME NEW t \in Threads, CopyStep(t) PROVE TopsInv'
    BY <1>5, CopyTops
  <1> QED  BY <1>1, <1>2, <1>3, <1>4, <1>5 DEF Next

\* Between two runs every rolled-up directory has the rows of everything below.
LEMMA IdleComplete ==
    ASSUME IInv, TopsInv, phase = "idle", NEW d \in Dirs, d \notin lost, db[d].isroll
    PROVE  db[d].pent = db[d].roll /\ IsInjective(db[d].roll) /\ ToSet(db[d].roll) = Below[d]
  <1>1. \A t \in Threads : queue[t] = <<>> /\ busy[t].what = "free" /\ tops[t] = <<>>
    BY DEF IInv, PhaseInv
  <1>2. ~IsTopOf(tops, d) /\ Pending(d) = {} /\ ~IsMerged(d)
    BY <1>1 DEF IsTopOf, Pending, IsMerged
  <1>3. Sound(d) /\ stage[d] = <<>> /\ Unwritten(d) = {} /\ IsRows(db[d])
    BY <1>2 DEF TopsInv, SubtreeInv, SoundInv, StageInv, RowsInv, Unwritten
  <1>4. Slots(d) = {0} /\ Rows(d, 0) = db[d].roll
    BY <1>3 DEF Slots, Rows
  <1> QED  BY <1>3, <1>4 DEF Sound, Written, Covered, IsRows

-----------------------------------------------------------------------------
(* What remains to be traversed.                                           *)

\* A query stops at the directory, or will when it has been dealt out.
Stops(y) == GetIsrolledup(db[y]) \/ IsTopOf(tops, y)
Passed == {x \in Dirs : \A y \in Above(x) : ~Stops(y)}
ToSee == {x \in Dirs : \E y \in Dirs : Find(y) \in todo /\ x \in Under(y)}

\* Until the end of the walk of the first run nothing is rolled up.
Early == runs = 0 \/ (runs = 1 /\ phase = "find")
EarlyInv == Early => ext = {} /\ \A x \in Dirs : ~db[x].isroll

\* No external database is in the way of the tops of the first run.
ExtInv == runs = 1 => \A x \in ext : ~IsTopOf(tops, x)

\* What the walk of the first run has counted is what a query will traverse,
\* but for what it has still to see.
TallyInv ==
    runs = 1 /\ ~opt.dry_run => stats.not + stats.top = Cardinality(Passed \ ToSee)

RemainInv ==
    /\ stats \in [not : Nat, top : Nat] /\ runs \in Nat /\ faults \in Nat
    /\ runs = 0 => phase = "idle"
    /\ faults = 0 => EarlyInv /\ ExtInv /\ TallyInv

\* A query stops where it did, and the walk has still to see what it had.
LEMMA PassedKept ==
    ASSUME \A y \in Dirs : Stops(y)' <=> Stops(y),
           \A y \in Dirs : Find(y) \in todo' <=> Find(y) \in todo
    PROVE  Passed' = Passed /\ ToSee' = ToSee
  <1>1. \A x : Above(x) \subseteq Dirs
    BY DEF Above
  <1>2. Passed' = Passed
    BY <1>1 DEF Passed
  <1>3. ToSee' = ToSee
    BY DEF ToSee
  <1> QED  BY <1>2, <1>3

\* A step that counts nothing and changes neither where a query stops nor what
\* the walk has still to see.
LEMMA TallyKept ==
    ASSUME TallyInv, UNCHANGED <<runs, opt, stats>>, \A y \in Dirs : Stops(y)' <=> Stops(y),
           \A y \in Dirs : Find(y) \in todo' <=> Find(y) \in todo
    PROVE  TallyInv'
  <1>1. Passed' = Passed /\ ToSee' = ToSee
    BY PassedKept
  <1> QED  BY <1>1 DEF TallyInv

\* One more directory is counted, and one more is passed or seen.
LEMMA TallyAdds ==
    ASSUME TallyInv, runs = 1, ~opt.dry_run, UNCHANGED <<runs, opt>>,
           stats \in [not : Nat, top : Nat], stats' \in [not : Nat, top : Nat],
           stats'.not + stats'.top = stats.not + stats.top + 1,
           NEW d, d \notin Passed \ ToSee, (Passed \ ToSee)' = (Passed \ ToSee) \cup {d}
    PROVE  TallyInv'
  <1>1. IsFiniteSet(Passed \ ToSee)
    <2>1. Passed \ ToSee \in SUBSET Dirs
      BY DEF Passed
    <2> QED  BY <2>1, TreeAssumption, FS_Subset
  <1>2. Cardinality((Passed \ ToSee)') = Cardinality(Passed \ ToSee) + 1
    BY <1>1, FS_AddElement
  <1> QED  BY <1>2 DEF TallyInv

\* What the walk of the first run has found is passed by a query.
LEMMA FoundPassed ==
    ASSUME IInv, EarlyInv, runs = 1, phase = "find", NEW d \in Dirs, Find(d) \in todo
    PROVE  d \in Passed /\ Under(d) \subseteq ToSee
  <1>1. ASSUME NEW y \in Above(d) PROVE ~Stops(y)
    <2>1. y \in Dirs /\ d \in Under(y) /\ d # y
      BY UnderIsBelow DEF Above
    <2>2. ~GetIsrolledup(db[y])
      BY <2>1 DEF EarlyInv, Early, GetIsrolledup
    <2>3. ~IsTopOf(tops, y)
      <3>1. IsTopOf(tops, y) => IsFound(y)
        BY FoundIs
      <3>2. IsFound(d)
        BY FoundIs
      <3> QED  BY <2>1, <3>1, <3>2 DEF IInv, FoundInv
    <2> QED  BY <2>2, <2>3 DEF Stops
  <1>2. Under(d) \subseteq ToSee
    BY UnderIs DEF ToSee
  <1> QED  BY <1>1, <1>2 DEF Passed

\* The walk goes down: it has seen the directory and nothing else.
LEMMA DescendTally ==
    ASSUME IInv, RemainInv, EarlyInv, TallyInv, phase = "find", NEW d \in Dirs, FindTopDescends(d)
    PROVE  TallyInv'
  <1> SUFFICES ASSUME runs = 1, ~opt.dry_run PROVE TallyInv'
    BY DEF TallyInv, FindTopDescends
  <1>1. /\ UNCHANGED <<db, tops, opt, runs>> /\ Find(d) \in todo
        /\ todo' = (todo \ {Find(d)}) \cup {Find(c) : c \in Kids(d)}
        /\ stats' = [stats EXCEPT !.not = @ + 1]
    BY DEF FindTopDescends
  <1>2. d \in Passed /\ Under(d) \subseteq ToSee
    BY <1>1, FoundPassed
  <1>3. \A y \in Dirs : Find(y) \in todo' <=> (Find(y) \in todo /\ y # d) \/ y \in Kids(d)
    BY <1>1 DEF Find
  <1>4. Under(d) = {d} \cup Below[d] /\ d \notin Below[d] /\ Below[d] = UNION {Under(c) : c \in Kids(d)}
    BY UnderIsBelow
  <1>5. ASSUME NEW y \in Dirs, Find(y) \in todo, y # d PROVE d \notin Under(y)
    <2>1. IsFound(y) /\ IsFound(d)
      BY <1>1, <1>5, FoundIs
    <2> QED  BY <1>5, <2>1 DEF IInv, FoundInv
  <1>6. Kids(d) \subseteq Dirs
    BY KidsIs
  <1>7. ASSUME NEW x \in Dirs PROVE x \in ToSee' <=> x \in ToSee /\ x # d
    <2>1. x \in ToSee' <=> \/ \E y \in Dirs : Find(y) \in todo /\ y # d /\ x \in Under(y)
                           \/ x \in Below[d]
      BY <1>3, <1>4, <1>6 DEF ToSee
    <2>2. x \in ToSee <=> \/ \E y \in Dirs : Find(y) \in todo /\ y # d /\ x \in Under(y)
                          \/ x \in Under(d)
      BY <1>1 DEF ToSee
    <2> QED  BY <1>4, <1>5, <2>1, <2>2
  <1>8. Passed' = Passed
    BY <1>1 DEF Passed, Stops, IsTopOf
  <1>9. Passed \subseteq Dirs
    BY DEF Passed
  <1>10. d \notin Passed \ ToSee /\ (Passed \ ToSee)' = (Passed \ ToSee) \cup {d}
    BY <1>2, <1>4, <1>7, <1>8, <1>9
  <1>11. /\ stats \in [not : Nat, top : Nat] /\ stats' \in [not : Nat, top : Nat]
         /\ stats'.not + stats'.top = stats.not + stats.top + 1
    BY <1>1 DEF RemainInv
  <1> QED  BY <1>1, <1>10, <1>11, TallyAdds

\* A top: a query will not go below it, and the walk does not either.
LEMMA TopTally ==
    ASSUME IInv, RemainInv, EarlyInv, TallyInv, phase = "find", NEW d \in Dirs, NEW t \in Threads, FindTop(d, t)
    PROVE  TallyInv'
  <1> SUFFICES ASSUME runs = 1, ~opt.dry_run PROVE TallyInv'
    BY DEF TallyInv, FindTop
  <1>1. /\ UNCHANGED <<db, opt, runs>> /\ Find(d) \in todo
        /\ todo' = (todo \ {Find(d)}) \cup {Walk(d, d)}
        /\ tops' = [tops EXCEPT ![t] = Append(@, d)]
        /\ stats' = [stats EXCEPT !.top = @ + 1]
    BY DEF FindTop, Prepare
  <1>2. d \in Passed /\ Under(d) \subseteq ToSee
    BY <1>1, FoundPassed
  <1>3. \A y \in Dirs : Find(y) \in todo' <=> Find(y) \in todo /\ y # d
    <2>1. \A y \in Dirs : Find(y) # Walk(d, d) /\ (Find(y) = Find(d) <=> y = d)
      BY WalkIs DEF Find
    <2> QED  BY <1>1, <2>1
  <1>4. Under(d) = {d} \cup Below[d] /\ d \notin Below[d]
    BY UnderIsBelow
  <1>5. ASSUME NEW y \in Dirs, Find(y) \in todo, y # d PROVE Under(d) \cap Under(y) = {}
    <2>1. IsFound(y) /\ IsFound(d)
      BY <1>1, <1>5, FoundIs
    <2>2. d \notin Under(y) /\ y \notin Under(d)
      BY <1>5, <2>1 DEF IInv, FoundInv
    <2> QED  BY <2>2, UnderApart
  <1>6. ASSUME NEW x \in Dirs PROVE x \in ToSee' <=> x \in ToSee /\ x \notin Under(d)
    <2>1. x \in ToSee' <=> \E y \in Dirs : Find(y) \in todo /\ y # d /\ x \in Under(y)
      BY <1>3 DEF ToSee
    <2>2. x \in ToSee <=> \/ \E y \in Dirs : Find(y) \in todo /\ y # d /\ x \in Under(y)
                          \/ x \in Under(d)
      BY <1>1 DEF ToSee
    <2> QED  BY <1>5, <2>1, <2>2
  <1>7. ASSUME NEW x \in Dirs PROVE x \in Passed' <=> x \in Passed /\ x \notin Below[d]
    <2>1. \A y \in Dirs : Stops(y)' <=> Stops(y) \/ y = d
      <3>1. \A y : IsTopOf(tops', y) <=> IsTopOf(tops, y) \/ y = d
        BY <1>1, TopAdded DEF IInv
      <3>2. \A y \in Dirs : Stops(y)' <=> GetIsrolledup(db[y]) \/ IsTopOf(tops', y)
        BY <1>1 DEF Stops, IsTopOf
      <3> QED  BY <3>1, <3>2 DEF Stops
    <2>2. Above(x) \subseteq Dirs /\ (d \in Above(x) <=> x \in Below[d])
      BY DEF Above
    <2> QED  BY <2>1, <2>2 DEF Passed
  <1>8. Passed \subseteq Dirs /\ Passed' \subseteq Dirs
    BY DEF Passed
  <1>9. d \notin Passed \ ToSee /\ (Passed \ ToSee)' = (Passed \ ToSee) \cup {d}
    BY <1>2, <1>4, <1>6, <1>7, <1>8
  <1>10. /\ stats \in [not : Nat, top : Nat] /\ stats' \in [not : Nat, top : Nat]
         /\ stats'.not + stats'.top = stats.not + stats.top + 1
    BY <1>1 DEF RemainInv
  <1> QED  BY <1>1, <1>9, <1>10, TallyAdds

\* A step of a copy changes no mark and no list of tops, and lists external
\* databases only below a top that main() has dealt out.
LEMMA CopyRemain ==
    ASSUME IInv, RowsInv, EarlyInv, ExtInv, TallyInv, runs # 0, NEW t \in Threads, CopyStep(t)
    PROVE  EarlyInv' /\ ExtInv' /\ TallyInv'
  <1>1. UNCHANGED <<phase, opt, todo, tops, stats, runs>>
    BY DEF CopyStep, PopCopy, CopyToTop, CopyFails, CountCopy, RollupMerge
  <1>2. phase # "find"
    BY DEF CopyStep, PopCopy, CopyToTop, CopyFails, CountCopy, RollupMerge, IInv, PhaseInv
  <1>3. EarlyInv'
    BY <1>1, <1>2 DEF EarlyInv, Early
  <1>4. \A y \in Dirs : GetIsrolledup(db'[y]) <=> GetIsrolledup(db[y])
    <2>1. CASE CopyToTop(t)
      <3>1. OthersKept(busy[t].top) /\ Copied(busy[t].top, busy[t].slot, busy[t].dir)
        BY <2>1, CopyRows
      <3> QED  BY <3>1 DEF OthersKept, Copied, GetIsrolledup
    <2>2. CASE RollupMerge(t)
      <3>1. OthersKept(busy[t].top) /\ Merged(busy[t].top)
        BY <2>2, MergeRows
      <3> QED  BY <3>1 DEF OthersKept, Merged, GetIsrolledup
    <2>3. CASE PopCopy(t) \/ CopyFails(t) \/ CountCopy(t)
      BY <2>3 DEF PopCopy, CopyFails, CountCopy
    <2> QED  BY <2>1, <2>2, <2>3 DEF CopyStep
  <1>5. \A y \in Dirs : Stops(y)' <=> Stops(y)
    BY <1>1, <1>4 DEF Stops, IsTopOf
  <1>6. TallyInv'
    BY <1>1, <1>5, TallyKept
  <1>7. ext' = ext \/ (busy[t].what \in {"write", "merge"} /\ ext' \subseteq ext \cup {busy[t].top})
    BY DEF CopyStep, PopCopy, CopyToTop, CopyFails, CountCopy, RollupMerge
  <1>8. ASSUME busy[t].what \in {"write", "merge"} PROVE ~IsTopOf(tops, busy[t].top)
    <2>1. busy[t].top \in Dirs
      BY <1>8 DEF IInv, ItemTypes
    <2>2. CASE busy[t].what = "write"
      <3>1. <<t, 0>> \in Pending(busy[t].top)
        BY <2>2, PendingIs
      <3> QED  BY <2>1, <3>1 DEF IInv, OnceInv, IsTopOf
    <2>3. CASE busy[t].what = "merge"
      <3>1. IsMerged(busy[t].top)
        BY <2>3 DEF IsMerged
      <3> QED  BY <2>1, <3>1 DEF IInv, OnceInv, IsTopOf
    <2> QED  BY <1>8, <2>2, <2>3
  <1>9. ExtInv'
    BY <1>1, <1>7, <1>8 DEF ExtInv, IsTopOf
  <1> QED  BY <1>3, <1>6, <1>9

\* What main() deals out is rolled up from then on.
LEMMA DealRemain ==
    ASSUME IInv, RowsInv, ExtInv, TallyInv, runs # 0, EnqueueRollupCopy
    PROVE  EarlyInv' /\ ExtInv' /\ TallyInv'
  <1>0. PICK top : top = NextTop
    OBVIOUS
  <1>1. UNCHANGED <<ext, phase, opt, todo, stats, runs>> /\ tops' = Popped /\ TopsLeft /\ phase = "copy"
    BY DEF EnqueueRollupCopy, Ready
  <1>2. EarlyInv'
    BY <1>1 DEF EarlyInv, Early
  <1>3. /\ \A x : IsTopOf(tops', x) <=> IsTopOf(tops, x) /\ x # top
        /\ IsTopOf(tops, top) /\ top \in Dirs
    BY <1>0, <1>1, PoppedTops
  <1>4. OthersKept(top) /\ db'[top].can /\ db'[top].isroll
    BY <1>0, DealRows
  <1>5. ASSUME NEW y \in Dirs PROVE Stops(y)' <=> Stops(y)
    <2>1. Stops(y)' <=> GetIsrolledup(db'[y]) \/ IsTopOf(tops', y)
      BY DEF Stops, IsTopOf
    <2>2. CASE y = top
      BY <1>3, <1>4, <2>1, <2>2 DEF Stops, GetIsrolledup
    <2>3. CASE y # top
      <3>1. db'[y] = db[y]
        BY <1>4, <2>3 DEF OthersKept
      <3> QED  BY <1>3, <2>1, <2>3, <3>1 DEF Stops
    <2> QED  BY <2>2, <2>3
  <1>6. TallyInv'
    BY <1>1, <1>5, TallyKept
  <1>7. ExtInv'
    <2>1. \A x \in ext : ~IsTopOf(tops, x) => ~IsTopOf(tops', x)
      BY <1>3
    <2> QED  BY <1>1, <2>1 DEF ExtInv, IsTopOf
  <1> QED  BY <1>2, <1>6, <1>7

\* Without a failure main() gives no top of the first run up.
LEMMA NoneGivenUp ==
    ASSUME IInv, RowsInv, ExtInv, runs # 0, EnqueueFails, faults' = faults, faults \in Nat
    PROVE  EarlyInv' /\ ExtInv' /\ TallyInv'
  <1>0. PICK top : top = NextTop
    OBVIOUS
  <1>1. UNCHANGED <<phase, todo, runs>> /\ TopsLeft /\ phase = "copy" /\ tops' = Popped
    BY DEF EnqueueFails, Ready
  <1>2. NextTop \in ext
    BY DEF EnqueueFails, Fault, InitSucceeds
  <1>3. IsTopOf(tops, top)
    BY <1>0, <1>1, PoppedTops
  <1>4. runs # 1
    BY <1>0, <1>2, <1>3 DEF ExtInv
  <1> QED  BY <1>1, <1>4 DEF EarlyInv, Early, ExtInv, TallyInv

\* The walk begins with everything still to be seen.
LEMMA StartRemain ==
    ASSUME RemainInv, EarlyInv, NEW o \in Options, Start(o)
    PROVE  EarlyInv' /\ ExtInv' /\ TallyInv'
  <1>1. /\ UNCHANGED <<db, ext, tops>> /\ runs' = runs + 1 /\ todo' = {Find(Root)}
        /\ stats' = [not |-> 0, top |-> 0]
    BY DEF Start
  <1>2. runs' # 0 /\ (runs' = 1 => runs = 0)
    BY <1>1 DEF RemainInv
  <1>3. EarlyInv' /\ ExtInv'
    BY <1>1, <1>2 DEF EarlyInv, Early, ExtInv
  <1>4. (Passed \ ToSee)' = {}
    <2>1. Root \in Dirs /\ Find(Root) \in todo'
      BY <1>1, TreeAssumption
    <2>2. \A x \in Dirs : x \in Under(Root)
      BY UnderIsBelow
    <2>3. \A x \in Dirs : x \in ToSee'
      BY <2>1, <2>2 DEF ToSee
    <2> QED  BY <2>3 DEF Passed
  <1>5. TallyInv'
    BY <1>1, <1>4, FS_EmptySet DEF TallyInv
  <1> QED  BY <1>3, <1>5

\* The steps of main() that deal nothing out.
LEMMA MainRemain ==
    ASSUME EarlyInv, ExtInv, TallyInv, runs # 0, FoundAll \/ MainWaits \/ Stop \/ End
    PROVE  EarlyInv' /\ ExtInv' /\ TallyInv'
  <1>1. /\ UNCHANGED <<db, ext, opt, todo, tops, stats, runs>>
        /\ phase' = phase \/ phase' # "find"
    BY DEF FoundAll, MainWaits, Stop, End
  <1>2. EarlyInv' /\ ExtInv'
    BY <1>1 DEF EarlyInv, Early, ExtInv, IsTopOf
  <1>3. \A y \in Dirs : Stops(y)' <=> Stops(y)
    BY <1>1 DEF Stops, IsTopOf
  <1>4. TallyInv'
    BY <1>1, <1>3, TallyKept
  <1> QED  BY <1>2, <1>4

\* The walk of the first run, without a failure.
LEMMA WalkRemain ==
    ASSUME IInv, RemainInv, EarlyInv, ExtInv, TallyInv, NEW t \in Threads, FindStep(t), faults' = faults
    PROVE  EarlyInv' /\ ExtInv' /\ TallyInv'
  <1>1. UNCHANGED <<db, ext, phase, opt, runs>> /\ phase = "find"
    BY DEF FindStep, FindTopDescends, FindTop, FindTopFails, ParallelWalk, ParallelWalkFails
  <1>2. EarlyInv' /\ ExtInv'
    BY <1>1 DEF EarlyInv, Early, ExtInv
  <1>3. CASE \E d \in Dirs : FindTopDescends(d)
    <2>1. PICK d \in Dirs : FindTopDescends(d)
      BY <1>3
    <2>2. TallyInv'
      BY <1>1, <2>1, DescendTally
    <2> QED  BY <1>2, <2>2
  <1>4. CASE \E d \in Dirs : FindTop(d, t)
    <2>1. PICK d \in Dirs : FindTop(d, t)
      BY <1>4
    <2>2. TallyInv'
      BY <1>1, <2>1, TopTally
    <2> QED  BY <1>2, <2>2
  <1>5. CASE \E d, top \in Dirs : ParallelWalk(d, top, t)
    <2>1. PICK d \in Dirs, top \in Dirs : ParallelWalk(d, top, t)
      BY <1>5
    <2>2. /\ UNCHANGED <<tops, stats>>
          /\ todo' = (todo \ {Walk(top, d)}) \cup {Walk(top, c) : c \in Kids(d)}
      BY <2>1 DEF ParallelWalk
    <2>3. \A y \in Dirs : Find(y) \in todo' <=> Find(y) \in todo
      <3>1. Kids(d) \subseteq Dirs
        BY KidsIs
      <3> QED  BY <2>2, <3>1, WalkIs
    <2>4. \A y \in Dirs : Stops(y)' <=> Stops(y)
      BY <1>1, <2>2 DEF Stops, IsTopOf
    <2> QED  BY <1>1, <1>2, <2>2, <2>3, <2>4, TallyKept
  <1>6. \A d, top \in Dirs : ~FindTopFails(d) /\ ~ParallelWalkFails(d, top)
    BY DEF FindTopFails, ParallelWalkFails, Fault, RemainInv
  <1> QED  BY <1>2, <1>3, <1>4, <1>5, <1>6 DEF FindStep

\* This invariant is inductive too.
LEMMA RemainInit == Init => RemainInv
  <1> SUFFICES ASSUME Init PROVE RemainInv
    OBVIOUS
  <1>1. PICK p \in Perms : db = [d \in Dirs |-> Marked(p, d)]
    BY DEF Init
  <1>2. \A d \in Dirs : ~db[d].isroll
    BY <1>1 DEF Marked, NewDb
  <1>3. /\ stats = [not |-> 0, top |-> 0] /\ runs = 0 /\ faults = 0 /\ phase = "idle" /\ ext = {}
    BY DEF Init
  <1> QED  BY <1>2, <1>3 DEF RemainInv, EarlyInv, ExtInv, TallyInv

LEMMA RemainNext == IInv /\ TopsInv /\ RemainInv /\ [Next]_vars => RemainInv'
  <1> SUFFICES ASSUME IInv, TopsInv, RemainInv, [Next]_vars PROVE RemainInv'
    OBVIOUS
  <1>0. RowsInv
    BY DEF TopsInv, SubtreeInv
  <1>1. ASSUME runs = 0 PROVE phase = "idle" /\ todo = {} /\ ~TopsLeft /\ \A t \in Threads : ~CopyStep(t)
    BY <1>1 DEF RemainInv, IInv, PhaseInv, TopsLeft, CopyStep, PopCopy, CopyToTop, CopyFails, CountCopy, RollupMerge
  <1>2. stats' \in [not : Nat, top : Nat] /\ runs' \in Nat
    <2>1. \/ stats' \in {stats, [not |-> 0, top |-> 0], [stats EXCEPT !.not = @ + 1], [stats EXCEPT !.top = @ + 1]}
      BY DEF Next, vars, MainStep, FindStep, CopyStep, Start, FindTopDescends, FindTop, FindTopFails,
             ParallelWalk, ParallelWalkFails, FoundAll, MainWaits, EnqueueRollupCopy, EnqueueFails,
             Stop, End, PopCopy, CopyToTop, CopyFails, CountCopy, RollupMerge
    <2>2. runs' \in {runs, runs + 1}
      BY DEF Next, vars, MainStep, FindStep, CopyStep, Start, FindTopDescends, FindTop, FindTopFails,
             ParallelWalk, ParallelWalkFails, FoundAll, MainWaits, EnqueueRollupCopy, EnqueueFails,
             Stop, End, PopCopy, CopyToTop, CopyFails, CountCopy, RollupMerge
    <2> QED  BY <2>1, <2>2 DEF RemainInv
  <1>3. faults' \in {faults, faults + 1}
    BY DEF Next, vars, MainStep, FindStep, CopyStep, Start, FindTopDescends, FindTop, FindTopFails,
           ParallelWalk, ParallelWalkFails, FoundAll, MainWaits, EnqueueRollupCopy, EnqueueFails,
           Stop, End, PopCopy, CopyToTop, CopyFails, CountCopy, RollupMerge, Fault
  <1>4. ASSUME UNCHANGED vars PROVE RemainInv'
    <2>1. UNCHANGED <<db, ext, phase, opt, todo, tops, stats, runs, faults>>
      BY <1>4 DEF vars
    <2>2. \A y \in Dirs : Stops(y)' <=> Stops(y)
      BY <2>1 DEF Stops, IsTopOf
    <2>3. TallyInv => TallyInv'
      BY <2>1, <2>2, TallyKept
    <2>4. (EarlyInv => EarlyInv') /\ (ExtInv => ExtInv')
      BY <2>1 DEF EarlyInv, Early, ExtInv, IsTopOf
    <2> QED  BY <2>1, <2>3, <2>4 DEF RemainInv
  <1>5. ASSUME Next PROVE runs' # 0
    <2>1. CASE \E o \in Options : Start(o)
      BY <2>1 DEF Start, RemainInv
    <2>2. CASE ~\E o \in Options : Start(o)
      <3>1. runs # 0
        BY <1>1, <1>5, <2>2 DEF Next, MainStep, FindStep, FoundAll, MainWaits, EnqueueRollupCopy,
           EnqueueFails, Ready, Stop, End
      <3>2. runs' = runs
        BY <1>5, <2>2 DEF Next, MainStep, FindStep, CopyStep, FindTopDescends, FindTop, FindTopFails,
             ParallelWalk, ParallelWalkFails, FoundAll, MainWaits, EnqueueRollupCopy, EnqueueFails,
             Stop, End, PopCopy, CopyToTop, CopyFails, CountCopy, RollupMerge
      <3> QED  BY <3>1, <3>2
    <2> QED  BY <2>1, <2>2
  <1>6. ASSUME Next, faults' = 0 PROVE EarlyInv' /\ ExtInv' /\ TallyInv'
    <2>1. faults = 0 /\ faults' = faults /\ EarlyInv /\ ExtInv /\ TallyInv
      BY <1>3, <1>6 DEF RemainInv
    <2>2. CASE \E o \in Options : Start(o)
      BY <2>1, <2>2, StartRemain
    <2>3. CASE runs # 0 /\ MainStep
      BY <1>0, <2>1, <2>3, MainRemain, DealRemain, NoneGivenUp DEF MainStep
    <2>4. CASE \E t \in Threads : FindStep(t)
      BY <2>1, <2>4, WalkRemain
    <2>5. CASE runs # 0 /\ \E t \in Threads : CopyStep(t)
      BY <1>0, <2>1, <2>5, CopyRemain
    <2>6. ASSUME runs = 0 PROVE ~MainStep
      BY <1>1, <2>6 DEF MainStep, FoundAll, MainWaits, EnqueueRollupCopy, EnqueueFails, Ready, Stop, End
    <2> QED  BY <1>1, <1>6, <2>2, <2>3, <2>4, <2>5, <2>6 DEF Next
  <1> QED  BY <1>2, <1>3, <1>4, <1>5, <1>6 DEF RemainInv

\* At the end nothing is to be seen, and there are no tops left.
LEMMA IdleRemains == ASSUME IInv, RemainInv PROVE RemainingExact
  <1> SUFFICES ASSUME phase = "idle", runs = 1, faults = 0, ~opt.dry_run
               PROVE  stats.not + stats.top = Cardinality(Visited(db))
    BY DEF RemainingExact
  <1>1. todo = {} /\ \A t \in Threads : tops[t] = <<>>
    BY DEF IInv, PhaseInv
  <1>2. ToSee = {} /\ \A x : ~IsTopOf(tops, x)
    BY <1>1 DEF ToSee, IsTopOf
  <1>3. Passed \ ToSee = Visited(db)
    BY <1>2 DEF Passed, Stops, Visited
  <1> QED  BY <1>3 DEF RemainInv, TallyInv

\* Between two runs of gufi_rollup_topdown the directories that main() and
\* copy_to_top have rolled up have the rows of everything below them once,
\* whatever threads made the copies and whoever merged them; and as many
\* directories remain to be traversed as compute_stats prints.
THEOREM TopsComplete == Spec => []RolledUpComplete
  <1>1. IInv /\ TopsInv /\ RemainInv => RolledUpComplete
    <2> SUFFICES ASSUME IInv, TopsInv, RemainInv PROVE RolledUpComplete
      OBVIOUS
    <2>1. ASSUME phase = "idle", NEW d \in Visited(db) \ lost, GetIsrolledup(db[d]),
                 NEW rows \in {db[d].roll, db[d].pent}
          PROVE  IsInjective(rows) /\ ToSet(rows) = Below[d]
      <3>1. d \in Dirs /\ d \notin lost /\ db[d].isroll
        BY <2>1 DEF Visited, GetIsrolledup
      <3>2. db[d].pent = db[d].roll /\ IsInjective(db[d].roll) /\ ToSet(db[d].roll) = Below[d]
        BY <2>1, <3>1, IdleComplete
      <3> QED  BY <2>1, <3>2
    <2> QED  BY <2>1, IdleRemains DEF RolledUpComplete
  <1>2. Init => IInv /\ TopsInv /\ RemainInv
    BY InitInv, TopsInit, RemainInit
  <1>3. IInv /\ TopsInv /\ RemainInv /\ [Next]_vars => (IInv /\ TopsInv /\ RemainInv)'
    BY NextInv, TopsNext, RemainNext
  <1> QED  BY <1>1, <1>2, <1>3, PTL DEF Spec
=============================================================================
