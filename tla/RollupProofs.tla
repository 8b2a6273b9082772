---------------------------- MODULE RollupProofs ----------------------------
(***************************************************************************)
(* Theorems about Rollup: what is marked as rolled up was allowed to be,   *)
(* and holds no more entries than the limit; between two runs a query      *)
(* finds every row once and visits as many directories as were announced;  *)
(* gufi_unrollup leaves nothing behind.                                    *)
(***************************************************************************)
EXTENDS Rollup, FoldTheorems

-----------------------------------------------------------------------------
(* The inductive invariant                                                 *)

Fields == {"perm", "roll", "pent", "can", "isroll", "ts"}
LogEntries ==
    [job : Options, remaining : Nat, ended : BOOLEAN, clean : BOOLEAN, fresh : BOOLEAN,
     torn : BOOLEAN]

\* The part of TypeOK that the other invariants need.
RowsInv ==
    /\ DOMAIN db = Dirs
    /\ \A d \in Dirs : /\ DOMAIN db[d] = Fields
                       /\ db[d].roll \in Seq(Dirs) /\ db[d].pent \in Seq(Dirs)
                       /\ db[d].isroll \in BOOLEAN
WalkTypes ==
    /\ job \in Options \cup {NoJob}
    /\ pc \in [Dirs -> {"out", "todo", "copy", "done", "hung"}]
    /\ left \in [Dirs -> Seq(Dirs)] /\ rolledup \in [Dirs -> BOOLEAN]
    /\ remaining \in Nat /\ faults \in Nat /\ log \in Seq(LogEntries)

\* The latest entry of the log is about the program that is running, and
\* nothing is on its way when none is.
LogInv ==
    /\ job # NoJob => log # <<>> /\ Latest.job = job /\ ~Latest.ended
    /\ job = NoJob => \A d \in Dirs : pc[d] = "out"

\* The directories below d may be rolled up into it, step by step.
Legal(d) ==
    \A e \in {d} \cup Below[d] : \A c \in Kids(e) : CheckPairPermissions(db[e].perm, db[c].perm)

\* Whoever is rolled up, has copies, or is about to have some may have them.
LegalInv ==
    \A d \in Dirs :
        db[d].isroll \/ db[d].roll # <<>> \/ rolledup[d] \/ pc[d] = "copy" => Legal(d)

\* While a directory copies, its subdirectories are at rest, and it copies
\* each of them once.
CopyInv ==
    \A d \in Dirs : pc[d] = "copy" =>
        /\ Running("rollup")
        /\ \A c \in Kids(d) : pc[c] \in {"done", "out"}
        /\ IsInjective(left[d]) /\ \A i \in DOMAIN left[d] : left[d][i] \in Kids(d)

\* What a directory still has to copy
LeftEntries(d) == SumFunction([i \in DOMAIN left[d] |-> Entries(left[d][i])])
Limited == Running("rollup") /\ job.limit > 0 /\ Latest.clean /\ Latest.fresh

\* What has been copied and what is to be copied stay within the limit.
LimitInv ==
    Limited => \A d \in Dirs :
        /\ db[d].isroll => pc[d] \in {"copy", "done"}
        /\ pc[d] = "copy" => Entries(d) + LeftEntries(d) <= job.limit
        /\ db[d].isroll /\ pc[d] = "done" => Entries(d) <= job.limit

\* The second half of RolledUpLegally.
Within ==
    Succeeded("rollup") /\ Latest.fresh /\ Latest.job.limit > 0 =>
        \A d \in Dirs : db[d].isroll => Entries(d) <= Latest.job.limit

IInv == RowsInv /\ WalkTypes /\ LogInv /\ LegalInv /\ CopyInv /\ LimitInv /\ Within

-----------------------------------------------------------------------------
(* The tree and the permissions                                            *)

\* The subdirectories are directories, those of two directories are not the
\* same, and what is below a directory are directories.
LEMMA TreeIs ==
    ASSUME NEW d \in Dirs
    PROVE  /\ Kids(d) \subseteq Dirs /\ Below[d] \subseteq Dirs
           /\ Subdirs[d] \in Seq(Dirs) /\ IsInjective(Subdirs[d])
           /\ \A i \in DOMAIN Subdirs[d] : Subdirs[d][i] \in Kids(d)
           /\ \A e \in Dirs : e # d => Kids(d) \cap Kids(e) = {}
<1>1. Subdirs[d] \in Seq(Dirs) /\ IsInjective(Subdirs[d])
  BY TreeAssumption
<1>2. Kids(d) = {Subdirs[d][i] : i \in DOMAIN Subdirs[d]}
  BY DEF Kids, ToSet
<1>3. Below[d] \subseteq Dirs
  BY DEF Below
<1>4. \A e \in Dirs : e # d => Kids(d) \cap Kids(e) = {}
  BY TreeAssumption
<1>5. \A i \in DOMAIN Subdirs[d] : Subdirs[d][i] \in Dirs
  BY <1>1
<1> QED  BY <1>1, <1>2, <1>3, <1>4, <1>5

\* What is below a directory is a subdirectory or below one.
LEMMA BelowKids ==
    ASSUME NEW d \in Dirs, NEW e \in Below[d]
    PROVE  e \in Kids(d) \/ \E c \in Kids(d) : e \in Below[c]
<1> DEFINE S == Kids(d) \cup UNION {Below[c] : c \in Kids(d)}
<1>1. S \in SUBSET Dirs /\ Kids(d) \subseteq S
  BY TreeIs
<1>2. ASSUME NEW x \in S PROVE Kids(x) \subseteq S
  <2>1. CASE x \in Kids(d)
    <3>1. x \in Dirs /\ Kids(x) \subseteq Dirs
      BY <2>1, TreeIs
    <3>2. Kids(x) \subseteq Below[x]
      BY <3>1 DEF Below
    <3> QED  BY <2>1, <3>2
  <2>2. CASE x \notin Kids(d)
    <3>1. PICK c \in Kids(d) : x \in Below[c]
      BY <2>2
    <3>2. c \in Dirs /\ Kids(c) \subseteq Dirs
      BY <3>1, TreeIs
    <3>3. x \in Dirs /\ \A T \in SUBSET Dirs : Kids(c) \subseteq T /\ Closed(T) => x \in T
      BY <3>1, <3>2 DEF Below
    <3>4. Kids(x) \subseteq Dirs
      BY <3>3, TreeIs
    <3>5. ASSUME NEW y \in Kids(x) PROVE y \in Below[c]
      <4>1. ASSUME NEW T \in SUBSET Dirs, Kids(c) \subseteq T, Closed(T) PROVE y \in T
        BY <3>3, <4>1 DEF Closed
      <4> QED  BY <3>2, <3>4, <4>1 DEF Below
    <3> QED  BY <3>1, <3>5
  <2> QED  BY <2>1, <2>2
<1>3. Closed(S)
  BY <1>2 DEF Closed
<1> HIDE DEF S
<1>4. e \in S
  BY <1>1, <1>3 DEF Below
<1> QED  BY <1>4 DEF S

\* If everything may be rolled up into the subdirectories and those into the
\* directory, everything may be rolled up into the directory.
LEMMA LegalUp ==
    ASSUME NEW d \in Dirs,
           \A c \in Kids(d) : Legal(c) /\ CheckPairPermissions(db[d].perm, db[c].perm)
    PROVE  Legal(d)
<1> SUFFICES ASSUME NEW e \in {d} \cup Below[d], NEW k \in Kids(e)
             PROVE  CheckPairPermissions(db[e].perm, db[k].perm)
  BY DEF Legal
<1>1. CASE e = d
  BY <1>1
<1>2. CASE e \in Below[d]
  <2>1. PICK c \in Kids(d) : e = c \/ e \in Below[c]
    BY <1>2, BelowKids
  <2>2. Legal(c)
    BY <2>1
  <2> QED  BY <2>1, <2>2 DEF Legal
<1> QED  BY <1>1, <1>2

\* What is legal stays so while no permissions change.
LEMMA LegalStays ==
    ASSUME \A e \in Dirs : db'[e].perm = db[e].perm, NEW d \in Dirs, Legal(d)
    PROVE  Legal(d)'
<1> SUFFICES ASSUME NEW e \in {d} \cup Below[d], NEW k \in Kids(e)
             PROVE  CheckPairPermissions(db'[e].perm, db'[k].perm)
  BY DEF Legal
<1>1. e \in Dirs
  BY TreeIs
<1>2. k \in Dirs
  BY <1>1, TreeIs
<1> QED  BY <1>1, <1>2 DEF Legal

\* can_rollup compares with the row that was copied last; but if there is
\* one, the directory has been allowed to have it.
LEMMA CanRollupIsLegal ==
    ASSUME RowsInv, LegalInv, NEW d \in Dirs, CanRollup(d)
    PROVE  Legal(d)
<1>1. CASE db[d].roll # <<>>
  BY <1>1 DEF LegalInv
<1>2. CASE db[d].roll = <<>>
  <2>1. <<d>> \o db[d].roll = <<d>>
    BY <1>2, ConcatEmptySeq
  <2>2. GetPermissions(d, db) = db[d].perm
    BY <2>1 DEF GetPermissions, Last
  <2>3. ASSUME NEW c \in Kids(d)
        PROVE  Legal(c) /\ CheckPairPermissions(db[d].perm, db[c].perm)
    <3>1. c \in Dirs
      BY TreeIs
    <3>2. rolledup[c] /\ CheckPairPermissions(GetPermissions(d, db), db[c].perm)
      BY DEF CanRollup
    <3> QED  BY <2>2, <3>1, <3>2 DEF LegalInv
  <2> QED  BY <2>3, LegalUp
<1> QED  BY <1>1, <1>2

-----------------------------------------------------------------------------
(* Entries                                                                 *)

\* What it is to be two sequences put together.
LEMMA ConcatIs ==
    ASSUME NEW s \in Seq(Int), NEW t \in Seq(Int), NEW u \in Seq(Int),
           Len(u) = Len(s) + Len(t),
           \A i \in 1 .. Len(u) : u[i] = IF i <= Len(s) THEN s[i] ELSE t[i - Len(s)]
    PROVE  u = s \o t
<1>1. /\ s \o t \in Seq(Int) /\ Len(s \o t) = Len(s) + Len(t)
      /\ \A i \in 1 .. (Len(s) + Len(t)) :
             (s \o t)[i] = IF i <= Len(s) THEN s[i] ELSE t[i - Len(s)]
  BY ConcatProperties
<1> DEFINE v == s \o t
<1>2. v \in Seq(Int) /\ Len(u) = Len(v) /\ \A i \in 1 .. Len(u) : u[i] = v[i]
  BY <1>1
<1> HIDE DEF v
<1>3. u = v
  BY <1>2, SeqEqual
<1> QED  BY <1>3 DEF v

\* Numbers of entries are numbers.
LEMMA TotalType ==
    ASSUME NEW s \in Seq(Dirs)
    PROVE  /\ [i \in DOMAIN s |-> Files[s[i]]] \in Seq(Nat)
           /\ Total(s) \in Nat
<1>1. DOMAIN s = 1 .. Len(s) /\ Len(s) \in Nat /\ \A i \in 1 .. Len(s) : s[i] \in Dirs
  OBVIOUS
<1>2. Files \in [Dirs -> Nat]
  BY TreeAssumption
<1>3. [i \in DOMAIN s |-> Files[s[i]]] \in Seq(Nat)
  BY <1>1, <1>2
<1> QED  BY <1>3, SumNat DEF Total

\* The entries of two lists of directories add up.
LEMMA TotalConcat ==
    ASSUME NEW s \in Seq(Dirs), NEW t \in Seq(Dirs)
    PROVE  Total(s \o t) = Total(s) + Total(t)
<1> DEFINE F(u) == [i \in DOMAIN u |-> Files[u[i]]]
<1>1. s \o t \in Seq(Dirs)
  BY ConcatProperties
<1>2. F(s) \in Seq(Int) /\ F(t) \in Seq(Int) /\ F(s \o t) \in Seq(Int)
  <2>1. F(s) \in Seq(Nat) /\ F(t) \in Seq(Nat) /\ F(s \o t) \in Seq(Nat)
    BY <1>1, TotalType
  <2> HIDE DEF F
  <2> QED  BY <2>1
<1>3. F(s \o t) = F(s) \o F(t)
  <2>1. DOMAIN s = 1 .. Len(s) /\ DOMAIN t = 1 .. Len(t) /\ Len(s) \in Nat /\ Len(t) \in Nat
    BY LenProperties
  <2>2. /\ DOMAIN (s \o t) = 1 .. (Len(s) + Len(t))
        /\ \A i \in 1 .. (Len(s) + Len(t)) :
               (s \o t)[i] = IF i <= Len(s) THEN s[i] ELSE t[i - Len(s)]
    BY ConcatProperties, LenProperties
  <2>3. Len(F(s)) = Len(s) /\ Len(F(t)) = Len(t)
    BY <2>1
  <2>4. Len(F(s \o t)) = Len(s) + Len(t)
    BY <2>1, <2>2
  <2>5. ASSUME NEW i \in 1 .. (Len(s) + Len(t))
        PROVE  F(s \o t)[i] = IF i <= Len(s) THEN F(s)[i] ELSE F(t)[i - Len(s)]
    BY <2>1, <2>2
  <2> DEFINE a == F(s)
             b == F(t)
             c == F(s \o t)
  <2>6. a \in Seq(Int) /\ b \in Seq(Int) /\ c \in Seq(Int) /\ Len(c) = Len(a) + Len(b)
    BY <1>2, <2>3, <2>4
  <2>7. \A i \in 1 .. Len(c) : c[i] = IF i <= Len(a) THEN a[i] ELSE b[i - Len(a)]
    <3> HIDE DEF F
    <3> QED  BY <2>3, <2>4, <2>5
  <2> HIDE DEF a, b, c
  <2>8. c = a \o b
    BY <2>6, <2>7, ConcatIs
  <2> QED  BY <2>8 DEF a, b, c
<1>4. SumFunction(F(s) \o F(t)) = SumFunction(F(s)) + SumFunction(F(t))
  <2> HIDE DEF F
  <2> QED  BY <1>2, SumConcat
<1>5. Total(s \o t) = SumFunction(F(s \o t)) /\ Total(s) = SumFunction(F(s))
      /\ Total(t) = SumFunction(F(t))
  BY DEF Total
<1> QED  BY <1>3, <1>4, <1>5

\* The entries of a directory, those of a list of directories, are numbers.
LEMMA EntriesType ==
    ASSUME RowsInv, WalkTypes, NEW d \in Dirs
    PROVE  /\ Entries(d) \in Nat
           /\ [i \in DOMAIN left[d] |-> Entries(left[d][i])] \in Seq(Nat)
           /\ LeftEntries(d) \in Nat
<1>1. ASSUME NEW e \in Dirs PROVE Entries(e) \in Nat
  <2>1. <<e>> \o db[e].pent \in Seq(Dirs)
    BY DEF RowsInv
  <2> QED  BY <2>1, TotalType DEF Entries
<1>2. left[d] \in Seq(Dirs)
  BY DEF WalkTypes
<1>3. [i \in DOMAIN left[d] |-> Entries(left[d][i])] \in Seq(Nat)
  <2>1. DOMAIN left[d] = 1 .. Len(left[d]) /\ Len(left[d]) \in Nat
        /\ \A i \in 1 .. Len(left[d]) : left[d][i] \in Dirs
    BY <1>2
  <2> QED  BY <1>1, <2>1
<1> QED  BY <1>1, <1>3, SumNat DEF LeftEntries

\* The same of the next state.
LEMMA EntriesTypePrimed ==
    ASSUME RowsInv', WalkTypes', NEW d \in Dirs
    PROVE  Entries(d)' \in Nat /\ LeftEntries(d)' \in Nat
<1>1. ASSUME NEW e \in Dirs PROVE Total(<<e>> \o db'[e].pent) \in Nat
  <2>1. <<e>> \o db'[e].pent \in Seq(Dirs)
    BY DEF RowsInv
  <2> QED  BY <2>1, TotalType
<1>2. [i \in DOMAIN left'[d] |-> Total(<<left'[d][i]>> \o db'[left'[d][i]].pent)] \in Seq(Nat)
  <2>1. left'[d] \in Seq(Dirs)
    BY DEF WalkTypes
  <2>2. DOMAIN left'[d] = 1 .. Len(left'[d]) /\ Len(left'[d]) \in Nat
        /\ \A i \in 1 .. Len(left'[d]) : left'[d][i] \in Dirs
    BY <2>1
  <2> QED  BY <1>1, <2>2
<1> QED  BY <1>1, <1>2, SumNat DEF Entries, LeftEntries

\* What is left to copy is the first of it and the rest.
LEMMA LeftHead ==
    ASSUME NEW f, NEW s \in Seq(Dirs), s # <<>>, \A e \in Dirs : f[e] \in Nat
    PROVE  SumFunction([i \in DOMAIN s |-> f[s[i]]])
               = f[Head(s)] + SumFunction([i \in DOMAIN Tail(s) |-> f[Tail(s)[i]]])
<1> DEFINE F(u) == [i \in DOMAIN u |-> f[u[i]]]
<1>1. /\ Tail(s) \in Seq(Dirs) /\ Head(s) \in Dirs /\ Head(s) = s[1]
      /\ Len(s) \in Nat \ {0} /\ Len(Tail(s)) = Len(s) - 1
      /\ \A i \in 1 .. Len(Tail(s)) : Tail(s)[i] = s[i + 1]
  BY HeadTailProperties, EmptySeq
<1>2. /\ DOMAIN s = 1 .. Len(s) /\ DOMAIN Tail(s) = 1 .. Len(Tail(s))
      /\ \A i \in DOMAIN s : s[i] \in Dirs
  BY <1>1, LenProperties
<1>3. F(s) \in Seq(Int) /\ F(Tail(s)) \in Seq(Int) /\ <<f[Head(s)]>> \in Seq(Int)
  <2>1. \A u \in Seq(Dirs) : F(u) \in Seq(Int)
    <3> SUFFICES ASSUME NEW u \in Seq(Dirs) PROVE F(u) \in Seq(Int)
      OBVIOUS
    <3>1. DOMAIN u = 1 .. Len(u) /\ Len(u) \in Nat /\ \A i \in 1 .. Len(u) : u[i] \in Dirs
      OBVIOUS
    <3> QED  BY <3>1
  <2>2. <<f[Head(s)]>> \in Seq(Int)
    <3>1. f[Head(s)] \in Int
      BY <1>1
    <3> QED  BY <3>1
  <2> HIDE DEF F
  <2>3. F(s) \in Seq(Int) /\ F(Tail(s)) \in Seq(Int)
    BY <1>1, <2>1
  <2> QED  BY <2>2, <2>3
<1>4. F(s) = <<f[Head(s)]>> \o F(Tail(s))
  <2>1. Len(F(s)) = Len(s) /\ Len(F(Tail(s))) = Len(s) - 1 /\ Len(<<f[Head(s)]>>) = 1
    BY <1>1, <1>2
  <2>2. ASSUME NEW i \in 1 .. Len(s)
        PROVE  F(s)[i] = IF i <= 1 THEN f[Head(s)] ELSE F(Tail(s))[i - 1]
    BY <1>1, <1>2
  <2>3. <<f[Head(s)]>>[1] = f[Head(s)]
    OBVIOUS
  <2> DEFINE a == <<f[Head(s)]>>
             b == F(Tail(s))
             c == F(s)
  <2>4. a \in Seq(Int) /\ b \in Seq(Int) /\ c \in Seq(Int) /\ Len(c) = Len(a) + Len(b)
    BY <1>1, <1>3, <2>1
  <2>5. \A i \in 1 .. Len(c) : c[i] = IF i <= Len(a) THEN a[i] ELSE b[i - Len(a)]
    <3>1. \A i \in 1 .. Len(s) : i <= 1 => i = 1
      BY <1>1
    <3> HIDE DEF F
    <3> QED  BY <1>1, <2>1, <2>2, <2>3, <3>1
  <2> HIDE DEF a, b, c
  <2>6. c = a \o b
    BY <2>4, <2>5, ConcatIs
  <2> QED  BY <2>6 DEF a, b, c
<1>5. SumFunction(<<f[Head(s)]>> \o F(Tail(s)))
          = SumFunction(<<f[Head(s)]>>) + SumFunction(F(Tail(s)))
  <2> HIDE DEF F
  <2> QED  BY <1>3, SumConcat
<1>6. SumFunction(<<f[Head(s)]>>) = f[Head(s)]
  <2>1. f[Head(s)] \in Int
    BY <1>1
  <2> QED  BY <2>1, SumOne
<1>7. SumFunction(F(s)) = f[Head(s)] + SumFunction(F(Tail(s)))
  <2> HIDE DEF F
  <2> QED  BY <1>4, <1>5, <1>6
<1> QED  BY <1>7

-----------------------------------------------------------------------------
(* What the operators of IndexDb do to a database                          *)

\* Neither permissions nor copies nor the mark change.
Keeps(x, y) ==
    /\ DOMAIN y = Fields
    /\ y.perm = x.perm /\ y.roll = x.roll /\ y.pent = x.pent /\ y.isroll = x.isroll

\* Tree summaries have a column of their own.
LEMMA SummaryKeeps ==
    ASSUME NEW x, DOMAIN x = Fields, NEW d
    PROVE  /\ Keeps(x, x)
           /\ Keeps(x, CreateTreesummaryTables(x))
           /\ Keeps(x, [x EXCEPT !.ts.exists = TRUE])
           /\ Keeps(x, DeleteOwnRow(d, x))
           /\ \A sum : Keeps(x, Inserttreesumdb(d, x, sum))
           /\ \A v : Keeps(x, [x EXCEPT !.can = v])
BY DEF Keeps, Fields, CreateTreesummaryTables, DeleteOwnRow, Inserttreesumdb

\* So have those that are computed on the way up.
LEMMA CollectKeeps ==
    ASSUME NEW d, NEW f, DOMAIN f[d] = Fields, NEW x, DOMAIN x = Fields, NEW lost
    PROVE  Keeps(x, CollectRolledUp(d, x)) /\ Keeps(f[d], CollectChildren(d, f, lost))
<1>1. Keeps(x, DeleteOwnRow(d, x)) /\ DOMAIN DeleteOwnRow(d, x) = Fields
      /\ Keeps(f[d], DeleteOwnRow(d, f[d])) /\ DOMAIN DeleteOwnRow(d, f[d]) = Fields
  BY SummaryKeeps DEF Keeps
<1>2. /\ \A sum : Keeps(DeleteOwnRow(d, x), Inserttreesumdb(d, DeleteOwnRow(d, x), sum))
      /\ \A sum : Keeps(DeleteOwnRow(d, f[d]), Inserttreesumdb(d, DeleteOwnRow(d, f[d]), sum))
  BY <1>1, SummaryKeeps
<1>3. /\ \A sum : Keeps(x, Inserttreesumdb(d, DeleteOwnRow(d, x), sum))
      /\ \A sum : Keeps(f[d], Inserttreesumdb(d, DeleteOwnRow(d, f[d]), sum))
  BY <1>1, <1>2 DEF Keeps
<1> QED  BY <1>3 DEF CollectRolledUp, CollectChildren

\* The statements that delete copies.
LEMMA DeleteIs ==
    ASSUME NEW x, DOMAIN x = Fields, x.roll \in Seq(Dirs), x.pent \in Seq(Dirs),
           x.isroll \in BOOLEAN
    PROVE  /\ LET y == DeleteRollup(x)
              IN  /\ DOMAIN y = Fields /\ y.perm = x.perm /\ y.roll = <<>> /\ y.pent = <<>>
                  /\ y.isroll = x.isroll
           /\ LET y == RollupCleanup(x)
              IN  /\ DOMAIN y = Fields /\ y.perm = x.perm /\ y.roll = <<>> /\ y.pent = <<>>
                  /\ y.isroll = FALSE
           /\ LET y == RollupInit(x)
              IN  /\ DOMAIN y = Fields /\ y.perm = x.perm /\ y.roll = <<>> /\ y.pent = <<>>
                  /\ y.isroll = TRUE
BY DEF Fields, DeleteRollup, RollupCleanup, RollupInit

\* The statements that delete a subdirectory's copies.
LEMMA DeleteSubdirIs ==
    ASSUME NEW x, DOMAIN x = Fields, x.isroll \in BOOLEAN, NEW n,
           NEW y, y = DeleteSubdirRollup(x, n)
    PROVE  /\ DOMAIN y = Fields /\ y.perm = x.perm
           /\ y.roll \in {x.roll, <<>>} /\ y.pent \in {x.pent, <<>>}
           /\ y.isroll \in {x.isroll, FALSE}
           /\ n = Statements => ~y.isroll
BY DEF Fields, DeleteSubdirRollup, Statements

\* The entries of a directory that has copied another one.
Joined(s, c, t) == s \o (<<c>> \o t)

\* They are directories.
LEMMA JoinedType ==
    ASSUME NEW s \in Seq(Dirs), NEW c \in Dirs, NEW t \in Seq(Dirs)
    PROVE  Joined(s, c, t) \in Seq(Dirs)
<1>1. <<c>> \in Seq(Dirs)
  OBVIOUS
<1>2. <<c>> \o t \in Seq(Dirs)
  BY <1>1, ConcatProperties
<1> QED  BY <1>2, ConcatProperties DEF Joined

\* What a directory is when it has copied, all or in part.
Copied(x, d, c, n) ==
    /\ DOMAIN x = Fields /\ x.perm = db[d].perm /\ x.isroll = db[d].isroll
    /\ x.roll \in Seq(Dirs) /\ x.pent \in Seq(Dirs)
    /\ n = Statements => x.pent = Joined(db[d].pent, c, db[c].pent)

\* The statements that copy do so.
LEMMA CopyIs ==
    ASSUME RowsInv, NEW d \in Dirs, NEW c \in Dirs, NEW n \in 0 .. Statements
    PROVE  Copied(RollupChildProcess(db[d], c, db[c], n), d, c, n)
<1> DEFINE x == RollupChildProcess(db[d], c, db[c], n)
<1>1. /\ DOMAIN db[d] = Fields /\ db[d].roll \in Seq(Dirs) /\ db[d].pent \in Seq(Dirs)
      /\ db[c].roll \in Seq(Dirs) /\ db[c].pent \in Seq(Dirs)
  BY DEF RowsInv
<1>2. /\ Joined(db[d].pent, c, db[c].pent) \in Seq(Dirs)
      /\ Joined(db[d].roll, c, db[c].roll) \in Seq(Dirs)
  BY <1>1, JoinedType
<1>3. /\ DOMAIN x = Fields /\ x.perm = db[d].perm /\ x.isroll = db[d].isroll
      /\ x.pent = IF n >= 1 THEN Joined(db[d].pent, c, db[c].pent) ELSE db[d].pent
      /\ x.roll = IF n >= 2 THEN Joined(db[d].roll, c, db[c].roll) ELSE db[d].roll
  BY <1>1 DEF Fields, RollupChildProcess, Joined
<1>4. n = Statements => n >= 1
  BY DEF Statements
<1> HIDE DEF x
<1>5. Copied(x, d, c, n)
  BY <1>1, <1>2, <1>3, <1>4 DEF Copied
<1> QED  BY <1>5 DEF x

-----------------------------------------------------------------------------
(* The invariant is preserved: what the steps have in common               *)

\* A step that gives nobody a mark or a copy who was not allowed to have it.
LEMMA LegalKeeps ==
    ASSUME LegalInv, \A e \in Dirs : db'[e].perm = db[e].perm,
           \A e \in Dirs :
               db'[e].isroll \/ db'[e].roll # <<>> \/ rolledup'[e] \/ pc'[e] = "copy" =>
                   \/ db[e].isroll \/ db[e].roll # <<>> \/ rolledup[e] \/ pc[e] = "copy"
                   \/ Legal(e)
    PROVE  LegalInv'
<1> SUFFICES ASSUME NEW e \in Dirs,
                    db'[e].isroll \/ db'[e].roll # <<>> \/ rolledup'[e] \/ pc'[e] = "copy"
             PROVE  Legal(e)'
  BY DEF LegalInv
<1>1. Legal(e)
  BY DEF LegalInv
<1> QED  BY <1>1, LegalStays

\* The log of a run that goes on, with or without a failure.
LEMMA LogKeeps ==
    ASSUME WalkTypes, LogInv, job # NoJob, UNCHANGED job, Fault \/ NoFault
    PROVE  /\ log' \in Seq(LogEntries) /\ faults' \in Nat /\ LogInv'
           /\ Limited' => Limited /\ NoFault /\ UNCHANGED Latest
<1>0. faults' \in Nat
  <2>1. faults \in Nat /\ (faults' = faults + 1 \/ faults' = faults)
    BY DEF WalkTypes, Fault, NoFault
  <2> QED  BY <2>1
<1>1. /\ log \in Seq(LogEntries) /\ Len(log) \in Nat \ {0} /\ Len(log) \in DOMAIN log
      /\ Latest \in LogEntries /\ Latest.job = job /\ ~Latest.ended
  <2>1. log \in Seq(LogEntries) /\ log # <<>> /\ Latest.job = job /\ ~Latest.ended
    BY DEF WalkTypes, LogInv
  <2>2. Len(log) \in Nat \ {0} /\ DOMAIN log = 1 .. Len(log)
    BY <2>1, EmptySeq, LenProperties
  <2>3. Len(log) \in 1 .. Len(log)
    BY <2>2
  <2> QED  BY <2>1, <2>2, <2>3, ElementOfSeq DEF Latest
<1>2. CASE NoFault
  BY <1>0, <1>1, <1>2 DEF NoFault, LogInv, WalkTypes, Latest, Limited, Running
<1>3. CASE Fault
  <2>1. log' = [log EXCEPT ![Len(log)].clean = FALSE]
    BY <1>3 DEF Fault
  <2> DEFINE entry == [Latest EXCEPT !.clean = FALSE]
  <2>2. entry \in LogEntries /\ entry.job = job /\ ~entry.ended /\ ~entry.clean
    BY <1>1 DEF LogEntries
  <2>3. log' = [log EXCEPT ![Len(log)] = entry]
    BY <2>1 DEF Latest
  <2> HIDE DEF entry
  <2>4. log' \in Seq(LogEntries) /\ Len(log') = Len(log) /\ log'[Len(log)] = entry
    BY <1>1, <2>2, <2>3
  <2>5. log' # <<>> /\ Latest' = entry
    BY <1>1, <2>4 DEF Latest
  <2> QED  BY <1>0, <2>2, <2>4, <2>5 DEF LogInv, Limited
<1> QED  BY <1>2, <1>3

\* While a program runs there is nothing to say about its end.
LEMMA RunningWithin == ASSUME job' # NoJob PROVE Within'
BY DEF Within, Succeeded, Idle

\* A directory keeps its entries with its copies, and a list of directories
\* with theirs.
LEMMA EntriesKeep ==
    /\ \A e : db'[e].pent = db[e].pent => Entries(e)' = Entries(e)
    /\ \A e : /\ left'[e] = left[e]
              /\ \A i \in DOMAIN left[e] : db'[left[e][i]].pent = db[left[e][i]].pent
              => LeftEntries(e)' = LeftEntries(e)
<1>1. \A e : db'[e].pent = db[e].pent => Entries(e)' = Entries(e)
  BY DEF Entries, Total
<1>2. ASSUME NEW e, left'[e] = left[e],
             \A i \in DOMAIN left[e] : db'[left[e][i]].pent = db[left[e][i]].pent
      PROVE  LeftEntries(e)' = LeftEntries(e)
  <2>1. [i \in DOMAIN left'[e] |-> Total(<<left'[e][i]>> \o db'[left'[e][i]].pent)]
            = [i \in DOMAIN left[e] |-> Total(<<left[e][i]>> \o db[left[e][i]].pent)]
    BY <1>2
  <2> QED  BY <2>1 DEF LeftEntries, Entries
<1> QED  BY <1>1, <1>2

\* A directory is done without having copied anything.
LEMMA DoneStep ==
    ASSUME IInv, NEW d \in Dirs, job # NoJob, pc[d] = "todo", Done(d), UNCHANGED <<job, left>>,
           Fault \/ NoFault, RowsInv', remaining' \in Nat,
           \A e \in Dirs : /\ db'[e].perm = db[e].perm /\ db'[e].isroll = db[e].isroll
                           /\ db'[e].roll \in {db[e].roll, <<>>}
                           /\ NoFault => db'[e].pent = db[e].pent,
           rolledup' \in [Dirs -> BOOLEAN], \A e \in Dirs \ {d} : rolledup'[e] = rolledup[e],
           rolledup'[d] => rolledup[d] \/ Legal(d)
    PROVE  IInv'
<1>1. pc' = [pc EXCEPT ![d] = "done"]
  BY DEF Done
<1>2. pc \in [Dirs -> {"out", "todo", "copy", "done", "hung"}] /\ left \in [Dirs -> Seq(Dirs)]
  BY DEF IInv, WalkTypes
<1>3. pc'[d] = "done" /\ \A e \in Dirs \ {d} : pc'[e] = pc[e]
  BY <1>1, <1>2
<1>4. log' \in Seq(LogEntries) /\ faults' \in Nat /\ LogInv'
      /\ (Limited' => Limited /\ NoFault /\ UNCHANGED Latest)
  BY LogKeeps DEF IInv
<1>5. WalkTypes'
  BY <1>1, <1>2, <1>4 DEF IInv, WalkTypes
<1>6. LegalInv'
  BY <1>3, LegalKeeps DEF IInv
<1>7. CopyInv'
  <2> SUFFICES ASSUME NEW e \in Dirs, pc'[e] = "copy"
               PROVE  /\ Running("rollup")'
                      /\ \A c \in Kids(e) : pc'[c] \in {"done", "out"}
                      /\ IsInjective(left'[e]) /\ \A i \in DOMAIN left'[e] : left'[e][i] \in Kids(e)
    BY DEF CopyInv
  <2>1. pc[e] = "copy" /\ Kids(e) \subseteq Dirs
    BY <1>3, TreeIs
  <2> QED  BY <1>3, <2>1 DEF IInv, CopyInv, Running
<1>8. LimitInv'
  <2> SUFFICES ASSUME Limited', NEW e \in Dirs
               PROVE  /\ db'[e].isroll => pc'[e] \in {"copy", "done"}
                      /\ pc'[e] = "copy" => Entries(e)' + LeftEntries(e)' <= job'.limit
                      /\ db'[e].isroll /\ pc'[e] = "done" => Entries(e)' <= job'.limit
    BY DEF LimitInv
  <2>1. Limited /\ NoFault
    BY <1>4
  <2>2. \A x \in Dirs : db'[x].pent = db[x].pent
    BY <2>1
  <2>3. Entries(e)' = Entries(e)
    BY <2>2, EntriesKeep
  <2>4. LeftEntries(e)' = LeftEntries(e)
    <3>1. \A i \in DOMAIN left[e] : left[e][i] \in Dirs
      BY <1>2
    <3> QED  BY <2>2, <3>1, EntriesKeep
  <2>5. /\ db[e].isroll => pc[e] \in {"copy", "done"}
        /\ pc[e] = "copy" => Entries(e) + LeftEntries(e) <= job.limit
        /\ db[e].isroll /\ pc[e] = "done" => Entries(e) <= job.limit
    BY <2>1 DEF IInv, LimitInv
  <2> QED  BY <1>3, <2>3, <2>4, <2>5
<1>9. Within'
  BY RunningWithin
<1> QED  BY <1>4, <1>5, <1>6, <1>7, <1>8, <1>9 DEF IInv

-----------------------------------------------------------------------------
(* Steps after which a directory is done                                   *)

\* One database is given another tree summary, or none is changed.
LEMMA MarkKeeps ==
    ASSUME RowsInv, NEW d \in Dirs, NEW y, Keeps(db[d], y),
           db' = [db EXCEPT ![d] = y] \/ UNCHANGED db
    PROVE  /\ RowsInv'
           /\ \A e \in Dirs : /\ db'[e].perm = db[e].perm /\ db'[e].isroll = db[e].isroll
                              /\ db'[e].roll \in {db[e].roll, <<>>}
                              /\ db'[e].roll = db[e].roll /\ db'[e].pent = db[e].pent
<1>1. CASE UNCHANGED db
  BY <1>1 DEF RowsInv
<1>2. CASE db' = [db EXCEPT ![d] = y]
  <2>1. DOMAIN db' = Dirs /\ db'[d] = y /\ \A e \in Dirs \ {d} : db'[e] = db[e]
    BY <1>2 DEF RowsInv
  <2> QED  BY <2>1 DEF RowsInv, Keeps
<1> QED  BY <1>1, <1>2

\* A directory that is to ascend is one of a walk that is going on.
LEMMA AscendFacts ==
    ASSUME IInv, NEW d \in Dirs, CanAscend(d), NEW tool, Running(tool)
    PROVE  /\ job # NoJob /\ pc[d] = "todo" /\ RowsInv /\ DOMAIN db[d] = Fields
           /\ remaining \in Nat /\ rolledup \in [Dirs -> BOOLEAN]
           /\ Keeps(db[d], db[d]) /\ Keeps(db[d], Opened(d)) /\ DOMAIN Opened(d) = Fields
<1>1. RowsInv /\ DOMAIN db[d] = Fields /\ remaining \in Nat /\ rolledup \in [Dirs -> BOOLEAN]
  BY DEF IInv, RowsInv, WalkTypes
<1>2. Keeps(db[d], db[d]) /\ Keeps(db[d], Opened(d)) /\ DOMAIN Opened(d) = Fields
  BY <1>1, SummaryKeeps DEF Opened, Keeps
<1> QED  BY <1>1, <1>2 DEF CanAscend, Running

\* A directory that cannot be opened counts as remaining.
LEMMA UnopenableStep ==
    ASSUME IInv, NEW d \in Dirs, AscendUnopenable(d)
    PROVE  IInv'
<1>1. Running("rollup") /\ CanAscend(d) /\ Fault /\ Done(d) /\ remaining' = remaining + 1
      /\ UNCHANGED <<db, job, left, rolledup>>
  BY DEF AscendUnopenable
<1>2. job # NoJob /\ pc[d] = "todo" /\ RowsInv /\ remaining' \in Nat
      /\ rolledup \in [Dirs -> BOOLEAN] /\ Keeps(db[d], db[d])
  BY <1>1, AscendFacts
<1> QED  BY <1>1, <1>2, MarkKeeps, DoneStep

\* A directory that is skipped gets an empty tree summary.
LEMMA SkipStep ==
    ASSUME IInv, NEW d \in Dirs, AscendSkip(d)
    PROVE  IInv'
<1>1. Running("rollup") /\ CanAscend(d) /\ NoFault /\ Done(d) /\ db' = [db EXCEPT ![d] = Opened(d)]
      /\ UNCHANGED <<job, left, rolledup, remaining>>
  BY DEF AscendSkip
<1>2. job # NoJob /\ pc[d] = "todo" /\ RowsInv /\ remaining' \in Nat
      /\ rolledup \in [Dirs -> BOOLEAN] /\ Keeps(db[d], Opened(d))
  BY <1>1, AscendFacts
<1> QED  BY <1>1, <1>2, MarkKeeps, DoneStep

\* So does one whose subdirectories cannot be read.
LEMMA FailsStep ==
    ASSUME IInv, NEW d \in Dirs, AscendFails(d)
    PROVE  IInv'
<1>1. Running("rollup") /\ CanAscend(d) /\ Fault /\ Done(d) /\ db' = [db EXCEPT ![d] = Opened(d)]
      /\ UNCHANGED <<job, left, rolledup, remaining>>
  BY DEF AscendFails, MustDecide
<1>2. job # NoJob /\ pc[d] = "todo" /\ RowsInv /\ remaining' \in Nat
      /\ rolledup \in [Dirs -> BOOLEAN] /\ Keeps(db[d], Opened(d))
  BY <1>1, AscendFacts
<1> QED  BY <1>1, <1>2, MarkKeeps, DoneStep

\* A directory that does not roll up gets the tree summary of what is below.
LEMMA RefuseStep ==
    ASSUME IInv, NEW d \in Dirs, AscendRefuse(d)
    PROVE  IInv'
<1> DEFINE f == [db EXCEPT ![d] = Opened(d)]
           y == CollectChildren(d, f, {})
<1>1. /\ Running("rollup") /\ CanAscend(d) /\ NoFault /\ Done(d)
      /\ db' = [db EXCEPT ![d] = y] \/ UNCHANGED db
      /\ remaining' = remaining + RemainingHere(d) /\ UNCHANGED <<job, left, rolledup>>
  BY DEF AscendRefuse, MustDecide
<1>2. job # NoJob /\ pc[d] = "todo" /\ RowsInv /\ remaining \in Nat
      /\ rolledup \in [Dirs -> BOOLEAN] /\ Keeps(db[d], Opened(d)) /\ DOMAIN Opened(d) = Fields
  BY <1>1, AscendFacts
<1>3. f[d] = Opened(d)
  BY <1>2 DEF RowsInv
<1>4. Keeps(db[d], y)
  <2>1. Keeps(f[d], CollectChildren(d, f, {}))
    BY <1>2, <1>3, CollectKeeps
  <2> QED  BY <1>2, <1>3, <2>1 DEF Keeps
<1>5. remaining' \in Nat
  <2>1. IsFiniteSet({c \in Kids(d) : rolledup[c]})
    BY TreeAssumption, TreeIs, FS_Subset
  <2> QED  BY <1>1, <1>2, <2>1, FS_CardinalityType DEF RemainingHere
<1> HIDE DEF y
<1> QED  BY <1>1, <1>2, <1>4, <1>5, MarkKeeps, DoneStep

\* A dry run only says that the directory would roll up.
LEMMA DryStep ==
    ASSUME IInv, NEW d \in Dirs, AscendDry(d)
    PROVE  IInv'
<1>1. /\ Running("rollup") /\ CanAscend(d) /\ NoFault /\ Done(d) /\ ShouldRollup(d)
      /\ rolledup' = [rolledup EXCEPT ![d] = TRUE] /\ RemainingRoot(d)
      /\ UNCHANGED <<db, job, left>>
  BY DEF AscendDry, MustDecide
<1>2. job # NoJob /\ pc[d] = "todo" /\ RowsInv /\ remaining \in Nat
      /\ rolledup \in [Dirs -> BOOLEAN] /\ Keeps(db[d], db[d])
  BY <1>1, AscendFacts
<1>3. remaining' \in Nat
  BY <1>1, <1>2 DEF RemainingRoot
<1>4. Legal(d)
  BY <1>1, CanRollupIsLegal DEF ShouldRollup, IInv
<1> QED  BY <1>1, <1>2, <1>3, <1>4, MarkKeeps, DoneStep

\* A directory whose old copies could not all be deleted does not roll up.
LEMMA InitFailsStep ==
    ASSUME IInv, NEW d \in Dirs, InitFails(d)
    PROVE  IInv'
<1>1. /\ Running("rollup") /\ CanAscend(d) /\ Fault /\ Done(d)
      /\ rolledup' = [rolledup EXCEPT ![d] = FALSE] /\ RemainingRoot(d)
      /\ db' = [db EXCEPT ![d] = DeleteRollup(Opened(d))]
      /\ UNCHANGED <<job, left>>
  BY DEF InitFails, MustDecide, NotRolledUp
<1>2. job # NoJob /\ pc[d] = "todo" /\ RowsInv /\ remaining \in Nat
      /\ rolledup \in [Dirs -> BOOLEAN] /\ Keeps(db[d], Opened(d)) /\ DOMAIN Opened(d) = Fields
  BY <1>1, AscendFacts
<1>3. remaining' \in Nat
  BY <1>1, <1>2 DEF RemainingRoot
<1> DEFINE y == DeleteRollup(Opened(d))
<1>4. /\ DOMAIN y = Fields /\ y.perm = db[d].perm /\ y.isroll = db[d].isroll
      /\ y.roll = <<>> /\ y.pent = <<>>
  BY <1>2, DeleteIs DEF Keeps, RowsInv
<1>5. db'[d] = y /\ DOMAIN db' = Dirs /\ \A e \in Dirs \ {d} : db'[e] = db[e]
  BY <1>1, <1>2 DEF RowsInv
<1>6. ~NoFault
  <2>1. faults \in Nat /\ faults' = faults + 1
    BY <1>1 DEF Fault, IInv, WalkTypes
  <2>2. faults' # faults
    BY <2>1
  <2> QED  BY <2>2 DEF NoFault
<1> HIDE DEF y
<1>7. RowsInv'
  <2>1. y.isroll \in BOOLEAN /\ y.roll \in Seq(Dirs) /\ y.pent \in Seq(Dirs)
    BY <1>2, <1>4 DEF RowsInv
  <2> QED  BY <1>2, <1>4, <1>5, <2>1 DEF RowsInv
<1>8. \A e \in Dirs : /\ db'[e].perm = db[e].perm /\ db'[e].isroll = db[e].isroll
                      /\ db'[e].roll \in {db[e].roll, <<>>}
  BY <1>4, <1>5
<1> QED  BY <1>1, <1>2, <1>3, <1>6, <1>7, <1>8, DoneStep

\* gufi_treesummary_all
LEMMA SummaryStep ==
    ASSUME IInv, NEW d \in Dirs, TreesummaryAscend(d) \/ TreesummaryAscendFails(d)
    PROVE  IInv'
<1>1. /\ Running("treesummary_all") /\ CanAscend(d) /\ (Fault \/ NoFault) /\ Done(d)
      /\ UNCHANGED <<job, left, rolledup, remaining>>
  BY DEF TreesummaryAscend, TreesummaryAscendFails
<1>2. job # NoJob /\ pc[d] = "todo" /\ RowsInv /\ remaining' \in Nat
      /\ rolledup \in [Dirs -> BOOLEAN] /\ DOMAIN db[d] = Fields /\ Keeps(db[d], db[d])
  BY <1>1, AscendFacts
<1>3. \E y : Keeps(db[d], y) /\ (db' = [db EXCEPT ![d] = y] \/ UNCHANGED db)
  <2>1. CASE TreesummaryAscendFails(d)
    BY <1>2, <2>1 DEF TreesummaryAscendFails
  <2>2. CASE TreesummaryAscend(d)
    <3> DEFINE x == [db[d] EXCEPT !.ts.exists = TRUE]
               f == [db EXCEPT ![d] = x]
               up == GetIsrolledup(x)
               z == IF up THEN CollectRolledUp(d, x) ELSE CollectChildren(d, f, {})
               v == up \/ CanrollupChildren(d, f, {})
    <3>1. db' = [db EXCEPT ![d] = [z EXCEPT !.can = v]]
      BY <2>2 DEF TreesummaryAscend
    <3>2. Keeps(db[d], x) /\ DOMAIN x = Fields
      BY <1>2, SummaryKeeps DEF Keeps
    <3> HIDE DEF x
    <3>3. f[d] = x
      BY <1>2 DEF RowsInv
    <3>4. Keeps(x, CollectRolledUp(d, x)) /\ Keeps(x, CollectChildren(d, f, {}))
      BY <3>2, <3>3, CollectKeeps
    <3>5. Keeps(x, z)
      BY <3>4
    <3> HIDE DEF z, v
    <3>6. DOMAIN z = Fields
      BY <3>5 DEF Keeps
    <3>7. Keeps(z, [z EXCEPT !.can = v])
      BY <3>6, SummaryKeeps
    <3>8. Keeps(db[d], [z EXCEPT !.can = v])
      BY <3>2, <3>5, <3>7 DEF Keeps
    <3> QED  BY <3>1, <3>8
  <2> QED  BY <2>1, <2>2
<1>4. PICK y : Keeps(db[d], y) /\ (db' = [db EXCEPT ![d] = y] \/ UNCHANGED db)
  BY <1>3
<1> QED  BY <1>1, <1>2, <1>4, MarkKeeps, DoneStep

-----------------------------------------------------------------------------
(* Copying                                                                 *)

\* The subdirectories of two directories are different, and so is what is
\* left to copy.
LEMMA LeftApart ==
    ASSUME WalkTypes, CopyInv, NEW d \in Dirs, NEW e \in Dirs, d # e, pc[e] = "copy",
           NEW i \in DOMAIN left[e]
    PROVE  left[e][i] \in Dirs /\ left[e][i] \notin Kids(d) /\ pc[left[e][i]] \in {"done", "out"}
<1>1. left[e][i] \in Kids(e) /\ pc[left[e][i]] \in {"done", "out"}
  BY DEF CopyInv
<1> QED  BY <1>1, TreeIs

\* The limit of a program that is running is a number.
LEMMA JobType ==
    ASSUME WalkTypes, NEW tool, Running(tool)
    PROVE  job \in Options /\ job # NoJob /\ job.limit \in Nat
<1>1. job \in Options /\ job # NoJob
  BY DEF WalkTypes, Running
<1> QED  BY <1>1, OptionsAssumption

\* do_rollup begins: the directory may, and what it is about to copy is
\* within the limit.
LEMMA InitStep ==
    ASSUME IInv, NEW d \in Dirs, AscendInit(d)
    PROVE  IInv'
<1> DEFINE y == RollupInit(Opened(d))
<1>1. /\ Running("rollup") /\ CanAscend(d) /\ NoFault /\ ShouldRollup(d)
      /\ db' = [db EXCEPT ![d] = y]
      /\ pc' = [pc EXCEPT ![d] = "copy"] /\ left' = [left EXCEPT ![d] = Subdirs[d]]
      /\ UNCHANGED <<job, rolledup, remaining>>
  BY DEF AscendInit, MustDecide
<1>2. job # NoJob /\ pc[d] = "todo" /\ RowsInv /\ Keeps(db[d], Opened(d)) /\ DOMAIN Opened(d) = Fields
  BY <1>1, AscendFacts
<1>3. /\ DOMAIN y = Fields /\ y.perm = db[d].perm /\ y.roll = <<>> /\ y.pent = <<>>
      /\ y.isroll = TRUE
  BY <1>2, DeleteIs DEF Keeps, RowsInv
<1> HIDE DEF y
<1>4. /\ WalkTypes /\ LogInv /\ LegalInv /\ CopyInv /\ LimitInv
      /\ pc \in [Dirs -> {"out", "todo", "copy", "done", "hung"}] /\ left \in [Dirs -> Seq(Dirs)]
  BY DEF IInv, WalkTypes
<1>5. /\ DOMAIN db' = Dirs /\ db'[d] = y /\ \A e \in Dirs \ {d} : db'[e] = db[e]
      /\ pc'[d] = "copy" /\ \A e \in Dirs \ {d} : pc'[e] = pc[e]
      /\ left'[d] = Subdirs[d] /\ \A e \in Dirs \ {d} : left'[e] = left[e]
  BY <1>1, <1>2, <1>4 DEF RowsInv
<1>6. RowsInv'
  <2>1. y.isroll \in BOOLEAN
    BY <1>3
  <2>2. y.roll \in Seq(Dirs) /\ y.pent \in Seq(Dirs)
    BY <1>3
  <2> QED  BY <1>2, <1>3, <1>5, <2>1, <2>2 DEF RowsInv
<1>7. /\ log' \in Seq(LogEntries) /\ faults' \in Nat /\ LogInv'
      /\ (Limited' => Limited /\ NoFault /\ UNCHANGED Latest)
  BY <1>1, <1>2, <1>4, LogKeeps
<1>8. WalkTypes'
  <2>1. Subdirs[d] \in Seq(Dirs)
    BY TreeIs
  <2>2. pc' \in [Dirs -> {"out", "todo", "copy", "done", "hung"}] /\ left' \in [Dirs -> Seq(Dirs)]
    BY <1>1, <1>4, <2>1
  <2> QED  BY <1>1, <1>4, <1>7, <2>2 DEF WalkTypes
<1>9. LegalInv'
  <2>1. Legal(d)
    BY <1>1, <1>2, <1>4, CanRollupIsLegal DEF ShouldRollup
  <2> QED  BY <1>1, <1>3, <1>4, <1>5, <2>1, LegalKeeps
<1>10. \A c \in Kids(d) : c \in Dirs /\ c # d /\ pc[c] \in {"done", "out"} /\ pc'[c] = pc[c]
  <2>1. \A c \in Kids(d) : c \in Dirs /\ pc[c] \in {"done", "out"}
    BY <1>1, TreeIs DEF CanAscend
  <2> QED  BY <1>2, <1>5, <2>1
<1>11. CopyInv'
  <2> SUFFICES ASSUME NEW e \in Dirs, pc'[e] = "copy"
               PROVE  /\ Running("rollup")'
                      /\ \A c \in Kids(e) : pc'[c] \in {"done", "out"}
                      /\ IsInjective(left'[e]) /\ \A i \in DOMAIN left'[e] : left'[e][i] \in Kids(e)
    BY DEF CopyInv
  <2>1. CASE e = d
    BY <1>1, <1>5, <1>10, <2>1, TreeIs DEF Running
  <2>2. CASE e # d
    <3>1. pc[e] = "copy" /\ left'[e] = left[e] /\ Kids(e) \subseteq Dirs
      BY <1>5, <2>2, TreeIs
    <3>2. \A c \in Kids(e) : pc[c] \in {"done", "out"} /\ c # d
      BY <1>2, <1>4, <3>1 DEF CopyInv
    <3> QED  BY <1>1, <1>4, <1>5, <3>1, <3>2 DEF CopyInv, Running
  <2> QED  BY <2>1, <2>2
<1>12. LimitInv'
  <2> SUFFICES ASSUME Limited', NEW e \in Dirs
               PROVE  /\ db'[e].isroll => pc'[e] \in {"copy", "done"}
                      /\ pc'[e] = "copy" => Entries(e)' + LeftEntries(e)' <= job'.limit
                      /\ db'[e].isroll /\ pc'[e] = "done" => Entries(e)' <= job'.limit
    BY DEF LimitInv
  <2>1. Limited /\ job' = job /\ job.limit > 0 /\ job.limit \in Nat
    <3>1. Limited /\ job' = job /\ job.limit > 0
      BY <1>1, <1>7 DEF Limited
    <3> QED  BY <1>1, <1>4, <3>1, JobType
  <2>2. CASE e = d
    <3>1. Entries(d)' = Total(<<d>>)
      <4>1. <<d>> \o y.pent = <<d>>
        BY <1>3, ConcatEmptySeq
      <4> QED  BY <1>5, <4>1 DEF Entries
    <3>2. LeftEntries(d)' = TotalChildEntries(d)
      <4>1. \A i \in DOMAIN Subdirs[d] : db'[Subdirs[d][i]] = db[Subdirs[d][i]]
        BY <1>5, <1>10, TreeIs
      <4>2. [i \in DOMAIN left'[d] |-> Total(<<left'[d][i]>> \o db'[left'[d][i]].pent)]
                = [i \in DOMAIN Subdirs[d] |-> Total(<<Subdirs[d][i]>> \o db[Subdirs[d][i]].pent)]
        BY <1>5, <4>1
      <4> QED  BY <4>2 DEF LeftEntries, TotalChildEntries, Entries
    <3>3. GetNondirs(d) = Total(<<d>>) + Total(db[d].roll)
      <4>1. <<d>> \in Seq(Dirs) /\ db[d].roll \in Seq(Dirs)
        BY <1>2 DEF RowsInv
      <4> QED  BY <4>1, TotalConcat DEF GetNondirs
    <3>4. GetNondirs(d) + TotalChildEntries(d) <= job.limit
      BY <1>1, <2>1 DEF ShouldRollup
    <3>5. Total(<<d>>) \in Nat /\ Total(db[d].roll) \in Nat
      <4>1. <<d>> \in Seq(Dirs) /\ db[d].roll \in Seq(Dirs)
        BY <1>2 DEF RowsInv
      <4> QED  BY <4>1, TotalType
    <3>6. LeftEntries(d)' \in Nat
      BY <1>6, <1>8, EntriesTypePrimed
    <3> QED  BY <1>5, <2>1, <2>2, <3>1, <3>2, <3>3, <3>4, <3>5, <3>6
  <2>3. CASE e # d
    <3>1. Entries(e)' = Entries(e)
      BY <1>5, <2>3, EntriesKeep
    <3>2. pc[e] = "copy" => LeftEntries(e)' = LeftEntries(e)
      <4> SUFFICES ASSUME pc[e] = "copy" PROVE LeftEntries(e)' = LeftEntries(e)
        OBVIOUS
      <4>1. \A i \in DOMAIN left[e] : left[e][i] \in Dirs /\ pc[left[e][i]] \in {"done", "out"}
        BY <1>4, <2>3, LeftApart
      <4>2. \A i \in DOMAIN left[e] : db'[left[e][i]].pent = db[left[e][i]].pent
        BY <1>2, <1>5, <4>1
      <4> QED  BY <1>5, <2>3, <4>2, EntriesKeep
    <3>3. /\ db[e].isroll => pc[e] \in {"copy", "done"}
          /\ pc[e] = "copy" => Entries(e) + LeftEntries(e) <= job.limit
          /\ db[e].isroll /\ pc[e] = "done" => Entries(e) <= job.limit
      BY <1>4, <2>1 DEF LimitInv
    <3> QED  BY <1>5, <2>1, <2>3, <3>1, <3>2, <3>3
  <2> QED  BY <2>2, <2>3
<1>13. Within'
  BY <1>1, <1>2, RunningWithin
<1> QED  BY <1>6, <1>7, <1>8, <1>9, <1>11, <1>12, <1>13 DEF IInv

\* A directory that copies has a subdirectory at rest to copy.
LEMMA HeadOfLeft ==
    ASSUME IInv, NEW d \in Dirs, pc[d] = "copy", left[d] # <<>>
    PROVE  /\ Head(left[d]) \in Kids(d) /\ Head(left[d]) \in Dirs /\ Head(left[d]) # d
           /\ pc[Head(left[d])] \in {"done", "out"}
           /\ Tail(left[d]) \in Seq(Dirs) /\ IsInjective(Tail(left[d]))
           /\ \A i \in DOMAIN Tail(left[d]) : /\ Tail(left[d])[i] \in Kids(d)
                                              /\ Tail(left[d])[i] # Head(left[d])
<1> DEFINE s == left[d]
<1>1. s \in Seq(Dirs) /\ s # <<>> /\ IsInjective(s) /\ \A i \in DOMAIN s : s[i] \in Kids(d)
  BY DEF IInv, WalkTypes, CopyInv
<1> HIDE DEF s
<1>2. /\ Tail(s) \in Seq(Dirs) /\ Head(s) \in Dirs /\ Head(s) = s[1]
      /\ Len(s) \in Nat \ {0} /\ Len(Tail(s)) = Len(s) - 1
      /\ \A i \in 1 .. Len(Tail(s)) : Tail(s)[i] = s[i + 1]
  BY <1>1, HeadTailProperties, EmptySeq
<1>3. DOMAIN s = 1 .. Len(s) /\ DOMAIN Tail(s) = 1 .. (Len(s) - 1)
  BY <1>1, <1>2, LenProperties
<1>4. \A i \in DOMAIN Tail(s) : i + 1 \in DOMAIN s /\ i + 1 # 1 /\ Tail(s)[i] = s[i + 1]
  BY <1>2, <1>3
<1>5. 1 \in DOMAIN s
  BY <1>2, <1>3
<1>6. \A i, j \in DOMAIN s : s[i] = s[j] => i = j
  BY <1>1 DEF IsInjective
<1>7. \A i, j \in DOMAIN Tail(s) : Tail(s)[i] = Tail(s)[j] => i = j
  <2> SUFFICES ASSUME NEW i \in DOMAIN Tail(s), NEW j \in DOMAIN Tail(s), Tail(s)[i] = Tail(s)[j]
               PROVE  i = j
    OBVIOUS
  <2>1. i + 1 = j + 1
    BY <1>4, <1>6
  <2>2. i \in Int /\ j \in Int
    BY <1>3
  <2> QED  BY <2>1, <2>2
<1>8. IsInjective(Tail(s))
  BY <1>7 DEF IsInjective
<1>9. pc[s[1]] \in {"done", "out"} /\ pc[d] = "copy"
  BY <1>1, <1>5 DEF IInv, CopyInv
<1>10. \A i \in DOMAIN Tail(s) : Tail(s)[i] \in Kids(d) /\ Tail(s)[i] # Head(s)
  BY <1>1, <1>2, <1>4, <1>5, <1>6
<1> QED  BY <1>1, <1>2, <1>5, <1>8, <1>9, <1>10 DEF s

\* A fault is counted.
LEMMA FaultIsOne == ASSUME WalkTypes, Fault PROVE ~NoFault
<1>1. faults \in Nat /\ faults' = faults + 1
  BY DEF Fault, WalkTypes
<1>2. faults' # faults
  BY <1>1
<1> QED  BY <1>2 DEF NoFault

\* One turn of the loop: what is copied was to be copied, and a subdirectory
\* whose copies are deleted loses its mark.
LEMMA CopyStep ==
    ASSUME IInv, NEW d \in Dirs, NEW n \in 0 .. Statements, CopyChild(d, n)
    PROVE  IInv'
<1> DEFINE sub == Head(left[d])
           x == RollupChildProcess(db[d], sub, db[sub], Statements)
           z == IF Deletes(d) THEN DeleteSubdirRollup(db[sub], n) ELSE db[sub]
<1>1. /\ pc[d] = "copy" /\ left[d] # <<>>
      /\ IF n = Statements THEN NoFault ELSE Deletes(d) /\ Fault
      /\ db' = [db EXCEPT ![d] = RollupChildProcess(@, sub, db[sub], Statements),
                          ![sub] = IF Deletes(d) THEN DeleteSubdirRollup(@, n) ELSE @]
      /\ left' = [left EXCEPT ![d] = Tail(@)]
      /\ UNCHANGED <<job, pc, rolledup, remaining>>
  BY DEF CopyChild
<1>2. /\ RowsInv /\ WalkTypes /\ LogInv /\ LegalInv /\ CopyInv /\ LimitInv
      /\ left \in [Dirs -> Seq(Dirs)]
  BY DEF IInv, WalkTypes
<1>3. /\ sub \in Kids(d) /\ sub \in Dirs /\ sub # d /\ pc[sub] \in {"done", "out"}
      /\ Tail(left[d]) \in Seq(Dirs) /\ IsInjective(Tail(left[d]))
      /\ \A i \in DOMAIN Tail(left[d]) : Tail(left[d])[i] \in Kids(d) /\ Tail(left[d])[i] # sub
  BY <1>1, HeadOfLeft
<1>4. Running("rollup") /\ job # NoJob /\ job.limit \in Nat
  BY <1>1, <1>2, JobType DEF CopyInv
<1>5. /\ DOMAIN x = Fields /\ x.perm = db[d].perm /\ x.isroll = db[d].isroll
      /\ x.roll \in Seq(Dirs) /\ x.pent \in Seq(Dirs)
      /\ x.pent = Joined(db[d].pent, sub, db[sub].pent)
  <2>1. RowsInv /\ sub \in Dirs
    BY <1>2, <1>3
  <2>2. Statements \in 0 .. Statements
    BY DEF Statements
  <2> HIDE DEF sub
  <2>3. Copied(x, d, sub, Statements)
    BY <2>1, <2>2, CopyIs
  <2> HIDE DEF x
  <2> QED  BY <2>3 DEF Copied
<1>6. /\ DOMAIN z = Fields /\ z.perm = db[sub].perm
      /\ z.roll \in {db[sub].roll, <<>>} /\ z.pent \in {db[sub].pent, <<>>}
      /\ z.isroll \in {db[sub].isroll, FALSE}
      /\ n = Statements => ~z.isroll \/ z.pent = db[sub].pent
  <2>1. /\ DOMAIN db[sub] = Fields /\ db[sub].roll \in Seq(Dirs) /\ db[sub].pent \in Seq(Dirs)
        /\ db[sub].isroll \in BOOLEAN
    BY <1>2, <1>3 DEF RowsInv
  <2> HIDE DEF sub
  <2>2. CASE Deletes(d)
    <3>1. z = DeleteSubdirRollup(db[sub], n)
      BY <2>2
    <3> HIDE DEF z
    <3> QED  BY <2>1, <3>1, DeleteSubdirIs
  <2>3. CASE ~Deletes(d)
    BY <2>1, <2>3
  <2> QED  BY <2>2, <2>3
<1>7. /\ DOMAIN db' = Dirs /\ db'[d] = x /\ db'[sub] = z
      /\ \A e \in Dirs \ {d, sub} : db'[e] = db[e]
      /\ left'[d] = Tail(left[d]) /\ \A e \in Dirs \ {d} : left'[e] = left[e]
  BY <1>1, <1>2, <1>3 DEF RowsInv
<1> HIDE DEF sub, x, z
<1>8. RowsInv'
  <2>1. z.isroll \in BOOLEAN
    BY <1>2, <1>3, <1>6 DEF RowsInv
  <2>2. x.isroll \in BOOLEAN
    BY <1>2, <1>5 DEF RowsInv
  <2>3. z.roll \in Seq(Dirs) /\ z.pent \in Seq(Dirs)
    <3>1. db[sub].roll \in Seq(Dirs) /\ db[sub].pent \in Seq(Dirs) /\ <<>> \in Seq(Dirs)
      BY <1>2, <1>3, EmptySeq DEF RowsInv
    <3> QED  BY <1>6, <3>1
  <2> QED  BY <1>2, <1>5, <1>6, <1>7, <2>1, <2>2, <2>3 DEF RowsInv
<1>9. /\ log' \in Seq(LogEntries) /\ faults' \in Nat /\ LogInv'
      /\ (Limited' => Limited /\ NoFault /\ UNCHANGED Latest)
  BY <1>1, <1>2, <1>4, LogKeeps
<1>10. WalkTypes'
  <2>1. left' \in [Dirs -> Seq(Dirs)]
    BY <1>1, <1>2, <1>3
  <2> QED  BY <1>1, <1>2, <1>9, <2>1 DEF WalkTypes
<1>11. LegalInv'
  <2>1. \A e \in Dirs : db'[e].perm = db[e].perm
    BY <1>5, <1>6, <1>7
  <2>2. db'[sub].isroll \/ db'[sub].roll # <<>> => db[sub].isroll \/ db[sub].roll # <<>>
    BY <1>6, <1>7
  <2> QED  BY <1>1, <1>2, <1>7, <2>1, <2>2, LegalKeeps
<1>12. CopyInv'
  <2> SUFFICES ASSUME NEW e \in Dirs, pc[e] = "copy"
               PROVE  /\ \A c \in Kids(e) : pc[c] \in {"done", "out"}
                      /\ IsInjective(left'[e]) /\ \A i \in DOMAIN left'[e] : left'[e][i] \in Kids(e)
    BY <1>1, <1>4 DEF CopyInv, Running
  <2>1. CASE e = d
    BY <1>2, <1>3, <1>7, <2>1 DEF CopyInv
  <2>2. CASE e # d
    BY <1>2, <1>7, <2>2 DEF CopyInv
  <2> QED  BY <2>1, <2>2
<1>13. LimitInv'
  <2> SUFFICES ASSUME Limited', NEW e \in Dirs
               PROVE  /\ db'[e].isroll => pc[e] \in {"copy", "done"}
                      /\ pc[e] = "copy" => Entries(e)' + LeftEntries(e)' <= job.limit
                      /\ db'[e].isroll /\ pc[e] = "done" => Entries(e)' <= job.limit
    BY <1>1 DEF LimitInv
  <2>1. Limited /\ n = Statements
    BY <1>1, <1>2, <1>9, FaultIsOne
  <2>2. /\ db[e].isroll => pc[e] \in {"copy", "done"}
        /\ pc[e] = "copy" => Entries(e) + LeftEntries(e) <= job.limit
        /\ db[e].isroll /\ pc[e] = "done" => Entries(e) <= job.limit
    BY <1>2, <2>1 DEF LimitInv
  <2>3. CASE e = d
    <3>1. Entries(d)' = Entries(d) + Entries(sub)
      <4>1. /\ <<d>> \in Seq(Dirs) /\ db[d].pent \in Seq(Dirs)
            /\ <<sub>> \o db[sub].pent \in Seq(Dirs)
        BY <1>2, <1>3 DEF RowsInv
      <4>2. x.pent \in Seq(Dirs) /\ Total(x.pent) = Total(db[d].pent) + Total(<<sub>> \o db[sub].pent)
        BY <1>5, <4>1, TotalConcat DEF Joined
      <4>3. /\ Total(<<d>> \o x.pent) = Total(<<d>>) + Total(x.pent)
            /\ Total(<<d>> \o db[d].pent) = Total(<<d>>) + Total(db[d].pent)
        BY <4>1, <4>2, TotalConcat
      <4>4. /\ Total(<<d>>) \in Nat /\ Total(db[d].pent) \in Nat
            /\ Total(<<sub>> \o db[sub].pent) \in Nat
        BY <4>1, TotalType
      <4>5. Total(<<d>> \o x.pent)
                = Total(<<d>> \o db[d].pent) + Total(<<sub>> \o db[sub].pent)
        BY <4>2, <4>3, <4>4
      <4> QED  BY <1>7, <4>5 DEF Entries
    <3>2. LeftEntries(d) = Entries(sub) + LeftEntries(d)'
      <4> DEFINE f == [y \in Dirs |-> Entries(y)]
                 s == left[d]
      <4>1. \A y \in Dirs : f[y] = Entries(y) /\ f[y] \in Nat
        BY <1>2, EntriesType
      <4>2. s \in Seq(Dirs) /\ s # <<>>
        BY <1>1, <1>2
      <4> HIDE DEF f, s
      <4>3. SumFunction([i \in DOMAIN s |-> f[s[i]]])
                = f[Head(s)] + SumFunction([i \in DOMAIN Tail(s) |-> f[Tail(s)[i]]])
        BY <4>1, <4>2, LeftHead
      <4>4. \A i \in DOMAIN s : s[i] \in Dirs
        BY <4>2
      <4>5. [i \in DOMAIN s |-> f[s[i]]] = [i \in DOMAIN left[d] |-> Entries(left[d][i])]
        BY <4>1, <4>4 DEF s
      <4>6. \A i \in DOMAIN Tail(s) :
                /\ Tail(s)[i] \in Dirs
                /\ Total(<<Tail(s)[i]>> \o db'[Tail(s)[i]].pent) = f[Tail(s)[i]]
        <5> SUFFICES ASSUME NEW i \in DOMAIN Tail(s)
                     PROVE  /\ Tail(s)[i] \in Dirs
                            /\ Total(<<Tail(s)[i]>> \o db'[Tail(s)[i]].pent) = f[Tail(s)[i]]
          OBVIOUS
        <5>1. Tail(s)[i] \in Kids(d) /\ Tail(s)[i] \in Dirs /\ Tail(s)[i] # sub
          BY <1>3, TreeIs DEF s
        <5>2. pc[Tail(s)[i]] \in {"done", "out"}
          BY <1>1, <1>2, <5>1 DEF CopyInv
        <5>3. db'[Tail(s)[i]] = db[Tail(s)[i]]
          BY <1>1, <1>7, <5>1, <5>2
        <5> QED  BY <4>1, <5>1, <5>3 DEF Entries
      <4>7. [i \in DOMAIN left'[d] |-> Total(<<left'[d][i]>> \o db'[left'[d][i]].pent)]
                = [i \in DOMAIN Tail(s) |-> f[Tail(s)[i]]]
        BY <1>7, <4>6 DEF s
      <4>8. f[Head(s)] = Entries(sub)
        BY <1>3, <4>1 DEF s, sub
      <4> QED  BY <4>3, <4>5, <4>7, <4>8 DEF LeftEntries, Entries
    <3>3. Entries(d) \in Nat /\ Entries(sub) \in Nat /\ LeftEntries(d)' \in Nat
      BY <1>2, <1>3, <1>8, <1>10, EntriesType, EntriesTypePrimed
    <3> QED  BY <1>1, <1>4, <2>2, <2>3, <3>1, <3>2, <3>3
  <2>4. CASE e = sub
    <3>1. db'[sub].isroll => db[sub].isroll /\ db'[sub].pent = db[sub].pent
      BY <1>6, <1>7, <2>1
    <3>2. db'[e].pent = db[e].pent => Entries(e)' = Entries(e)
      BY EntriesKeep
    <3> QED  BY <1>3, <2>2, <2>4, <3>1, <3>2
  <2>5. CASE e \notin {d, sub}
    <3>1. Entries(e)' = Entries(e)
      BY <1>7, <2>5, EntriesKeep
    <3>2. pc[e] = "copy" => LeftEntries(e)' = LeftEntries(e)
      <4> SUFFICES ASSUME pc[e] = "copy" PROVE LeftEntries(e)' = LeftEntries(e)
        OBVIOUS
      <4>1. \A i \in DOMAIN left[e] : /\ left[e][i] \in Dirs /\ left[e][i] # sub
                                      /\ left[e][i] # d
        BY <1>1, <1>2, <1>3, <2>5, LeftApart
      <4>2. \A i \in DOMAIN left[e] : db'[left[e][i]].pent = db[left[e][i]].pent
        BY <1>7, <4>1
      <4> QED  BY <1>7, <2>5, <4>2, EntriesKeep
    <3> QED  BY <1>7, <2>2, <2>5, <3>1, <3>2
  <2> QED  BY <2>3, <2>4, <2>5
<1>14. Within'
  BY <1>1, <1>4, RunningWithin
<1> QED  BY <1>8, <1>9, <1>10, <1>11, <1>12, <1>13, <1>14 DEF IInv

\* The copying of a directory is over, or has failed.
LEMMA CopiedStep ==
    ASSUME IInv, NEW d \in Dirs, pc[d] = "copy", Done(d), UNCHANGED job, Fault \/ NoFault,
           NEW x, db' = [db EXCEPT ![d] = x],
           DOMAIN x = Fields, x.perm = db[d].perm, x.isroll = db[d].isroll,
           x.roll \in Seq(Dirs), x.pent \in Seq(Dirs), NoFault => x.pent = db[d].pent,
           left' \in [Dirs -> Seq(Dirs)], \A e \in Dirs \ {d} : left'[e] = left[e],
           rolledup' \in [Dirs -> BOOLEAN], \A e \in Dirs \ {d} : rolledup'[e] = rolledup[e],
           remaining' \in Nat
    PROVE  IInv'
<1>1. pc' = [pc EXCEPT ![d] = "done"]
  BY DEF Done
<1>2. /\ RowsInv /\ WalkTypes /\ LogInv /\ LegalInv /\ CopyInv /\ LimitInv
      /\ pc \in [Dirs -> {"out", "todo", "copy", "done", "hung"}]
  BY DEF IInv, WalkTypes
<1>3. /\ pc'[d] = "done" /\ \A e \in Dirs \ {d} : pc'[e] = pc[e]
      /\ DOMAIN db' = Dirs /\ db'[d] = x /\ \A e \in Dirs \ {d} : db'[e] = db[e]
  BY <1>1, <1>2 DEF RowsInv
<1>4. Running("rollup") /\ job \in Options /\ job # NoJob /\ job.limit \in Nat
  BY <1>2, JobType DEF CopyInv
<1>5. log' \in Seq(LogEntries) /\ faults' \in Nat /\ LogInv'
      /\ (Limited' => Limited /\ NoFault /\ UNCHANGED Latest)
  BY <1>2, <1>4, LogKeeps
<1>6. RowsInv'
  <2>1. x.isroll \in BOOLEAN
    BY <1>2 DEF RowsInv
  <2> QED  BY <1>2, <1>3, <2>1 DEF RowsInv
<1>7. WalkTypes'
  BY <1>1, <1>2, <1>5 DEF WalkTypes
<1>8. LegalInv'
  <2>1. \A e \in Dirs : db'[e].perm = db[e].perm
    BY <1>3
  <2> QED  BY <1>2, <1>3, <2>1, LegalKeeps
<1>9. CopyInv'
  <2> SUFFICES ASSUME NEW e \in Dirs, pc'[e] = "copy"
               PROVE  /\ Running("rollup")'
                      /\ \A c \in Kids(e) : pc'[c] \in {"done", "out"}
                      /\ IsInjective(left'[e]) /\ \A i \in DOMAIN left'[e] : left'[e][i] \in Kids(e)
    BY DEF CopyInv
  <2>1. e # d /\ pc[e] = "copy" /\ Kids(e) \subseteq Dirs
    BY <1>3, TreeIs
  <2> QED  BY <1>2, <1>3, <2>1 DEF CopyInv, Running
<1>10. LimitInv'
  <2> SUFFICES ASSUME Limited', NEW e \in Dirs
               PROVE  /\ db'[e].isroll => pc'[e] \in {"copy", "done"}
                      /\ pc'[e] = "copy" => Entries(e)' + LeftEntries(e)' <= job.limit
                      /\ db'[e].isroll /\ pc'[e] = "done" => Entries(e)' <= job.limit
    BY DEF LimitInv
  <2>1. Limited /\ NoFault
    BY <1>5
  <2>2. \A y \in Dirs : db'[y].pent = db[y].pent /\ db'[y].isroll = db[y].isroll
    BY <1>3, <2>1
  <2>3. Entries(e)' = Entries(e)
    BY <2>2, EntriesKeep
  <2>4. /\ db[e].isroll => pc[e] \in {"copy", "done"}
        /\ pc[e] = "copy" => Entries(e) + LeftEntries(e) <= job.limit
        /\ db[e].isroll /\ pc[e] = "done" => Entries(e) <= job.limit
    BY <1>2, <2>1 DEF LimitInv
  <2>5. CASE e = d
    <3>1. Entries(d) \in Nat /\ LeftEntries(d) \in Nat
      BY <1>2, EntriesType
    <3>2. Entries(d) <= job.limit
      BY <1>4, <2>4, <2>5, <3>1
    <3> QED  BY <1>3, <2>3, <2>5, <3>2
  <2>6. CASE e # d
    <3>1. LeftEntries(e)' = LeftEntries(e)
      <4>1. left'[e] = left[e] /\ \A i \in DOMAIN left[e] : left[e][i] \in Dirs
        BY <1>2, <2>6 DEF WalkTypes
      <4> QED  BY <2>2, <4>1, EntriesKeep
    <3> QED  BY <1>3, <2>2, <2>3, <2>4, <2>6, <3>1
  <2> QED  BY <2>5, <2>6
<1>11. Within'
  BY <1>4, RunningWithin
<1> QED  BY <1>5, <1>6, <1>7, <1>8, <1>9, <1>10, <1>11 DEF IInv

\* A failure leaves the directory marked, with what it has copied.
LEMMA CopyFailsStep ==
    ASSUME IInv, NEW d \in Dirs, NEW n \in 0 .. (Statements - 1), CopyFails(d, n)
    PROVE  IInv'
<1> DEFINE sub == Head(left[d])
           x == RollupChildProcess(db[d], sub, db[sub], n)
<1>1. /\ pc[d] = "copy" /\ left[d] # <<>> /\ Fault /\ Done(d)
      /\ rolledup' = [rolledup EXCEPT ![d] = FALSE] /\ RemainingRoot(d)
      /\ db' = [db EXCEPT ![d] = x]
      /\ left' = [left EXCEPT ![d] = <<>>] /\ UNCHANGED job
  BY DEF CopyFails, NotRolledUp
<1>2. RowsInv /\ WalkTypes /\ sub \in Dirs /\ n \in 0 .. Statements
  <2>1. n \in 0 .. Statements
    BY DEF Statements
  <2> QED  BY <1>1, <2>1, HeadOfLeft DEF IInv
<1> HIDE DEF sub
<1>3. Copied(x, d, sub, n)
  BY <1>2, CopyIs
<1> HIDE DEF x
<1>4. /\ DOMAIN x = Fields /\ x.perm = db[d].perm /\ x.isroll = db[d].isroll
      /\ x.roll \in Seq(Dirs) /\ x.pent \in Seq(Dirs)
  BY <1>3 DEF Copied
<1>5. /\ left' \in [Dirs -> Seq(Dirs)] /\ \A e \in Dirs \ {d} : left'[e] = left[e]
      /\ rolledup' \in [Dirs -> BOOLEAN] /\ \A e \in Dirs \ {d} : rolledup'[e] = rolledup[e]
      /\ remaining' \in Nat
  BY <1>1, <1>2 DEF WalkTypes, RemainingRoot
<1>6. ~NoFault
  BY <1>1, <1>2, FaultIsOne
<1> QED  BY <1>1, <1>4, <1>5, <1>6, CopiedStep

\* Everything has been copied: the tree summary is made.
LEMMA FinishStep ==
    ASSUME IInv, NEW d \in Dirs, FinishRollup(d)
    PROVE  IInv'
<1> DEFINE x == CollectRolledUp(d, db[d])
<1>1. /\ pc[d] = "copy" /\ Done(d) /\ db' = [db EXCEPT ![d] = x]
      /\ rolledup' = [rolledup EXCEPT ![d] = TRUE] /\ RemainingRoot(d)
      /\ UNCHANGED <<job, left, faults, log>> /\ NoFault
  BY DEF FinishRollup, NoFault
<1>2. RowsInv /\ WalkTypes /\ DOMAIN db[d] = Fields
  BY DEF IInv, RowsInv
<1>3. Keeps(db[d], x)
  BY <1>2, CollectKeeps
<1> HIDE DEF x
<1>4. /\ DOMAIN x = Fields /\ x.perm = db[d].perm /\ x.isroll = db[d].isroll
      /\ x.roll \in Seq(Dirs) /\ x.pent \in Seq(Dirs) /\ x.pent = db[d].pent
  BY <1>2, <1>3 DEF Keeps, RowsInv
<1>5. /\ left' \in [Dirs -> Seq(Dirs)] /\ \A e \in Dirs \ {d} : left'[e] = left[e]
      /\ rolledup' \in [Dirs -> BOOLEAN] /\ \A e \in Dirs \ {d} : rolledup'[e] = rolledup[e]
      /\ remaining' \in Nat
  BY <1>1, <1>2 DEF WalkTypes, RemainingRoot
<1> QED  BY <1>1, <1>4, <1>5, CopiedStep

-----------------------------------------------------------------------------
(* The programs that walk with the pool                                    *)

\* A step of another program adds no copies and no marks.
LEMMA PoolStep ==
    ASSUME IInv, job # NoJob, job.tool # "rollup", UNCHANGED <<job, walk>>, Fault \/ NoFault,
           RowsInv', \A e \in Dirs : /\ db'[e].perm = db[e].perm
                                     /\ db'[e].isroll => db[e].isroll
                                     /\ db'[e].roll \in {db[e].roll, <<>>}
    PROVE  IInv'
<1>1. RowsInv /\ WalkTypes /\ LogInv /\ LegalInv /\ CopyInv /\ UNCHANGED <<pc, left, rolledup, remaining>>
  BY DEF IInv, walk
<1>2. log' \in Seq(LogEntries) /\ faults' \in Nat /\ LogInv'
  BY <1>1, LogKeeps
<1>3. WalkTypes'
  BY <1>1, <1>2 DEF WalkTypes
<1>4. LegalInv'
  BY <1>1, LegalKeeps
<1>5. CopyInv'
  BY <1>1 DEF CopyInv, Running
<1>6. LimitInv'
  BY DEF LimitInv, Limited, Running
<1>7. Within'
  BY RunningWithin
<1> QED  BY <1>2, <1>3, <1>4, <1>5, <1>6, <1>7 DEF IInv

\* gufi_unrollup deletes the copies and the mark.
LEMMA UnrollupStep ==
    ASSUME IInv, NEW d \in Dirs, NEW i \in BOOLEAN, UnrollupDir(d, i) \/ UnrollupFails(d, i)
    PROVE  IInv'
<1> DEFINE x == RollupCleanup(db[d])
<1>1. /\ Running("unrollup") /\ UNCHANGED <<job, walk>> /\ (Fault \/ NoFault)
      /\ db' = [db EXCEPT ![d] = x] \/ UNCHANGED db
  BY DEF UnrollupDir, UnrollupFails
<1>2. RowsInv /\ DOMAIN db = Dirs /\ job # NoJob /\ job.tool # "rollup"
  BY <1>1 DEF IInv, RowsInv, Running
<1>3. /\ DOMAIN x = Fields /\ x.perm = db[d].perm /\ x.roll = <<>> /\ x.pent = <<>>
      /\ x.isroll = FALSE
  BY <1>2, DeleteIs DEF RowsInv
<1> HIDE DEF x
<1>4. /\ RowsInv'
      /\ \A e \in Dirs : /\ db'[e].perm = db[e].perm
                         /\ db'[e].isroll => db[e].isroll
                         /\ db'[e].roll \in {db[e].roll, <<>>}
  <2>1. CASE UNCHANGED db
    BY <1>2, <2>1 DEF RowsInv
  <2>2. CASE db' = [db EXCEPT ![d] = x]
    <3>1. DOMAIN db' = Dirs /\ db'[d] = x /\ \A e \in Dirs \ {d} : db'[e] = db[e]
      BY <1>2, <2>2
    <3>2. x.isroll \in BOOLEAN
      BY <1>3
    <3>3. x.roll \in Seq(Dirs) /\ x.pent \in Seq(Dirs)
      BY <1>3
    <3> QED  BY <1>2, <1>3, <3>1, <3>2, <3>3 DEF RowsInv
  <2> QED  BY <1>1, <2>1, <2>2
<1> QED  BY <1>1, <1>2, <1>4, PoolStep

\* gufi_treesummary reads.
LEMMA TreesummaryStep ==
    ASSUME IInv, NEW d \in Dirs, TreesummaryDirFails(d) \/ \E t \in Threads : TreesummaryDir(d, t)
    PROVE  IInv'
<1>1. Running("treesummary") /\ UNCHANGED <<db, job, walk>> /\ (Fault \/ NoFault)
  BY DEF TreesummaryDir, TreesummaryDirFails
<1>2. job # NoJob /\ job.tool # "rollup" /\ RowsInv
  BY <1>1 DEF IInv, Running
<1>3. RowsInv' /\ \A e \in Dirs : db'[e] = db[e]
  BY <1>1, <1>2 DEF RowsInv
<1> QED  BY <1>1, <1>2, <1>3, PoolStep

-----------------------------------------------------------------------------
(* A program starts and ends                                               *)

\* A program is over.
LEMMA OverStep ==
    ASSUME IInv, job' = NoJob, Gone, NEW d \in Dirs, NEW y, Keeps(db[d], y),
           db' = [db EXCEPT ![d] = y] \/ UNCHANGED db,
           log' \in Seq(LogEntries), faults' \in Nat, Within'
    PROVE  IInv'
<1>1. RowsInv /\ LegalInv
  BY DEF IInv
<1>2. /\ RowsInv'
      /\ \A e \in Dirs : /\ db'[e].perm = db[e].perm /\ db'[e].isroll = db[e].isroll
                         /\ db'[e].roll = db[e].roll
  BY <1>1, MarkKeeps
<1>3. /\ pc' = [e \in Dirs |-> "out"] /\ left' = [e \in Dirs |-> <<>>]
      /\ rolledup' = [e \in Dirs |-> FALSE] /\ remaining' = 0
  BY DEF Gone
<1>4. WalkTypes'
  <2>1. <<>> \in Seq(Dirs)
    OBVIOUS
  <2> QED  BY <1>3, <2>1 DEF WalkTypes
<1>5. \A e \in Dirs : pc'[e] = "out" /\ ~rolledup'[e]
  BY <1>3
<1>6. LegalInv'
  BY <1>1, <1>2, <1>5, LegalKeeps
<1>7. LogInv' /\ CopyInv' /\ LimitInv'
  BY <1>5 DEF LogInv, CopyInv, LimitInv, Limited, Running
<1> QED  BY <1>2, <1>4, <1>6, <1>7 DEF IInv

\* A program that is running has its entry in the log.
LEMMA LogIsNotEmpty ==
    ASSUME WalkTypes, LogInv, job # NoJob
    PROVE  log \in Seq(LogEntries) /\ Len(log) \in DOMAIN log
<1>1. log \in Seq(LogEntries) /\ log # <<>>
  BY DEF WalkTypes, LogInv
<1>2. Len(log) \in Nat \ {0} /\ DOMAIN log = 1 .. Len(log)
  BY <1>1, EmptySeq, LenProperties
<1> QED  BY <1>1, <1>2

\* The entry of the program that is running.
LEMMA EntryOfJob ==
    ASSUME WalkTypes, LogInv, job # NoJob
    PROVE  /\ log \in Seq(LogEntries) /\ Latest \in LogEntries /\ Latest.job = job
           /\ \A y \in LogEntries :
                  log' = [log EXCEPT ![Len(log)] = y] => log' \in Seq(LogEntries) /\ Latest' = y
<1>1. log \in Seq(LogEntries) /\ log # <<>> /\ Latest.job = job
  BY DEF WalkTypes, LogInv
<1>2. Len(log) \in Nat \ {0} /\ DOMAIN log = 1 .. Len(log)
  BY <1>1, EmptySeq, LenProperties
<1>3. Len(log) \in 1 .. Len(log)
  BY <1>2
<1>4. ASSUME NEW y \in LogEntries, log' = [log EXCEPT ![Len(log)] = y]
      PROVE  log' \in Seq(LogEntries) /\ Latest' = y
  <2>1. log' \in Seq(LogEntries) /\ Len(log') = Len(log) /\ log'[Len(log)] = y
    BY <1>1, <1>2, <1>3, <1>4
  <2> QED  BY <2>1 DEF Latest
<1> QED  BY <1>1, <1>2, <1>3, <1>4, ElementOfSeq DEF Latest

\* A bottom-up walk is over: everybody who is marked has finished.
LEMMA EndStep ==
    ASSUME IInv, End
    PROVE  IInv'
<1> DEFINE y == [[Latest EXCEPT !.ended = TRUE] EXCEPT !.remaining = remaining]
<1>1. /\ job # NoJob /\ \A d \in Dirs : pc[d] \notin {"todo", "copy"}
      /\ job' = NoJob /\ Gone /\ UNCHANGED <<db, faults>>
      /\ log' = [log EXCEPT ![Len(log)].ended = TRUE, ![Len(log)].remaining = remaining]
  BY DEF End
<1>2. RowsInv /\ WalkTypes /\ LogInv /\ LimitInv /\ faults \in Nat /\ remaining \in Nat
  BY DEF IInv, WalkTypes
<1>3. /\ log \in Seq(LogEntries) /\ Latest \in LogEntries /\ Latest.job = job
      /\ \A z \in LogEntries :
             log' = [log EXCEPT ![Len(log)] = z] => log' \in Seq(LogEntries) /\ Latest' = z
  BY <1>1, <1>2, EntryOfJob
<1>4. /\ y \in LogEntries /\ y.job = Latest.job /\ y.clean = Latest.clean
      /\ y.fresh = Latest.fresh
  BY <1>2, <1>3 DEF LogEntries
<1>5. log' = [log EXCEPT ![Len(log)] = y]
  <2>1. log \in Seq(LogEntries) /\ Len(log) \in DOMAIN log
    BY <1>1, <1>2, LogIsNotEmpty
  <2> DEFINE a == [log EXCEPT ![Len(log)].ended = TRUE]
  <2>2. a[Len(log)] = [Latest EXCEPT !.ended = TRUE]
    BY <2>1 DEF Latest
  <2>3. [a EXCEPT ![Len(log)] = y] = [log EXCEPT ![Len(log)] = y]
    <3> HIDE DEF y
    <3> QED  BY <2>1
  <2>4. log' = [a EXCEPT ![Len(log)].remaining = remaining]
    BY <1>1
  <2> QED  BY <2>2, <2>3, <2>4
<1> HIDE DEF y
<1>6. log' \in Seq(LogEntries) /\ Latest' = y
  BY <1>3, <1>4, <1>5
<1>7. Within'
  <2> SUFFICES ASSUME Succeeded("rollup")', Latest'.fresh, Latest'.job.limit > 0,
                      NEW d \in Dirs, db'[d].isroll
               PROVE  Entries(d)' <= Latest'.job.limit
    BY DEF Within
  <2>1. Limited /\ Latest'.job = job
    BY <1>1, <1>3, <1>4, <1>6 DEF Succeeded, Limited, Running
  <2>2. db[d].isroll /\ pc[d] = "done"
    BY <1>1, <1>2, <2>1 DEF LimitInv
  <2>3. Entries(d) <= job.limit
    BY <1>2, <2>1, <2>2 DEF LimitInv
  <2>4. Entries(d)' = Entries(d)
    BY <1>1, EntriesKeep
  <2> QED  BY <2>1, <2>3, <2>4
<1>8. Root \in Dirs /\ Keeps(db[Root], db[Root])
  BY <1>2, TreeAssumption, SummaryKeeps DEF RowsInv
<1> QED  BY <1>1, <1>2, <1>6, <1>7, <1>8, OverStep

\* A process dies.
LEMMA CrashStep ==
    ASSUME IInv, Crash
    PROVE  IInv'
<1> DEFINE y == [Latest EXCEPT !.clean = FALSE]
<1>1. job # NoJob /\ Fault /\ job' = NoJob /\ Gone /\ UNCHANGED db
  BY DEF Crash
<1>2. RowsInv /\ WalkTypes /\ LogInv /\ faults \in Nat
  BY DEF IInv, WalkTypes
<1>3. log' = [log EXCEPT ![Len(log)] = y] /\ faults' \in Nat
  BY <1>1, <1>2 DEF Fault, Latest
<1>4. Latest \in LogEntries /\ \A z \in LogEntries :
          log' = [log EXCEPT ![Len(log)] = z] => log' \in Seq(LogEntries) /\ Latest' = z
  BY <1>1, <1>2, EntryOfJob
<1>5. y \in LogEntries /\ ~y.clean
  BY <1>4 DEF LogEntries
<1> HIDE DEF y
<1>6. log' \in Seq(LogEntries) /\ Latest' = y
  BY <1>3, <1>4, <1>5
<1>7. Within'
  BY <1>5, <1>6 DEF Within, Succeeded
<1>8. Root \in Dirs /\ Keeps(db[Root], db[Root])
  BY <1>2, TreeAssumption, SummaryKeeps DEF RowsInv
<1> QED  BY <1>1, <1>3, <1>6, <1>7, <1>8, OverStep

\* gufi_treesummary writes the sums of its threads.
LEMMA ComputeStep ==
    ASSUME IInv, ComputeTreesummary
    PROVE  IInv'
<1> DEFINE y == [Latest EXCEPT !.ended = TRUE]
           x == CreateTreesummaryTables(db[Root])
<1>1. /\ Running("treesummary") /\ job # NoJob /\ job' = NoJob /\ Gone /\ UNCHANGED faults
      /\ log' = [log EXCEPT ![Len(log)].ended = TRUE]
      /\ \/ \E sum : db' = [db EXCEPT ![Root] = Inserttreesumdb(Root, x, sum)]
         \/ UNCHANGED db
  BY DEF ComputeTreesummary, Running
<1>2. /\ RowsInv /\ WalkTypes /\ LogInv /\ faults \in Nat /\ Root \in Dirs
      /\ DOMAIN db[Root] = Fields
  BY TreeAssumption DEF IInv, WalkTypes, RowsInv
<1>3. \E z : Keeps(db[Root], z) /\ (db' = [db EXCEPT ![Root] = z] \/ UNCHANGED db)
  <2>1. Keeps(db[Root], x) /\ DOMAIN x = Fields /\ Keeps(db[Root], db[Root])
    BY <1>2, SummaryKeeps DEF Keeps
  <2> HIDE DEF x
  <2>2. \A sum : Keeps(x, Inserttreesumdb(Root, x, sum))
    BY <2>1, SummaryKeeps
  <2>3. \A sum : Keeps(db[Root], Inserttreesumdb(Root, x, sum))
    BY <2>1, <2>2 DEF Keeps
  <2> QED  BY <1>1, <2>1, <2>3
<1>4. log' = [log EXCEPT ![Len(log)] = y]
  BY <1>1, <1>2 DEF Latest
<1>5. Latest \in LogEntries /\ Latest.job = job /\ \A z \in LogEntries :
          log' = [log EXCEPT ![Len(log)] = z] => log' \in Seq(LogEntries) /\ Latest' = z
  BY <1>1, <1>2, EntryOfJob
<1>6. y \in LogEntries /\ y.job = job
  BY <1>5 DEF LogEntries
<1> HIDE DEF y
<1>7. log' \in Seq(LogEntries) /\ Latest' = y
  BY <1>4, <1>5, <1>6
<1>8. Within'
  BY <1>1, <1>6, <1>7 DEF Within, Succeeded, Running
<1>9. PICK z : Keeps(db[Root], z) /\ (db' = [db EXCEPT ![Root] = z] \/ UNCHANGED db)
  BY <1>3
<1> QED  BY <1>1, <1>2, <1>7, <1>8, <1>9, OverStep

\* A program starts: what is marked as rolled up in memory is so in the index.
LEMMA StartStep ==
    ASSUME IInv, NEW o \in Options, NEW hung \in Dirs \cup {NoDir}, Start(o, hung)
    PROVE  IInv'
<1> DEFINE y == [job |-> o, remaining |-> 0, ended |-> FALSE, clean |-> hung = NoDir,
                 fresh |-> \A d \in Dirs : ~db[d].isroll,
                 torn |-> \E d \in torn : db[d].isroll]
<1>1. /\ job' = o /\ UNCHANGED db /\ remaining' = 0 /\ left' = [d \in Dirs |-> <<>>]
      /\ faults' = IF hung = NoDir THEN faults ELSE faults + 1
      /\ rolledup' = [d \in Dirs |-> o.tool = "rollup" /\ d \in Walked(o) /\ StopsAt(o, d)]
      /\ log' = Append(log, y)
  BY DEF Start
<1>2. pc' \in [Dirs -> {"out", "todo", "hung"}]
  BY DEF Start
<1>3. RowsInv /\ LegalInv /\ log \in Seq(LogEntries) /\ faults \in Nat
  BY DEF IInv, WalkTypes
<1>4. o # NoJob
  BY OptionsAssumption
<1>5. /\ y \in LogEntries /\ y.job = o /\ ~y.ended
      /\ y.fresh => \A d \in Dirs : ~db[d].isroll
  BY DEF LogEntries
<1> HIDE DEF y
<1>6. log' \in Seq(LogEntries) /\ log' # <<>> /\ Latest' = y
  <2>1. /\ log' \in Seq(LogEntries) /\ Len(log') = Len(log) + 1 /\ log'[Len(log) + 1] = y
        /\ Len(log) \in Nat
    BY <1>1, <1>3, <1>5, AppendProperties
  <2>2. log' # <<>>
    BY <2>1, EmptySeq
  <2> QED  BY <2>1, <2>2 DEF Latest
<1>7. \A d \in Dirs : pc'[d] \in {"out", "todo", "hung"} /\ db'[d] = db[d]
                      /\ (rolledup'[d] => db[d].isroll)
  <2>1. \A d \in Dirs : o.tool = "rollup" /\ StopsAt(o, d) => db[d].isroll
    BY DEF StopsAt, RollupDescendStops, GetIsrolledup
  <2> QED  BY <1>1, <1>2, <2>1
<1>8. RowsInv'
  BY <1>1, <1>3 DEF RowsInv
<1>9. WalkTypes'
  <2>1. left' \in [Dirs -> Seq(Dirs)]
    <3>1. <<>> \in Seq(Dirs)
      OBVIOUS
    <3> QED  BY <1>1, <3>1
  <2>2. rolledup' \in [Dirs -> BOOLEAN]
    BY <1>1
  <2>3. pc' \in [Dirs -> {"out", "todo", "copy", "done", "hung"}]
    BY <1>2
  <2>4. faults' \in Nat /\ remaining' \in Nat /\ job' \in Options
    BY <1>1, <1>3
  <2> QED  BY <1>6, <2>1, <2>2, <2>3, <2>4 DEF WalkTypes
<1>10. LogInv'
  BY <1>1, <1>4, <1>5, <1>6 DEF LogInv
<1>11. LegalInv'
  <2>1. \A e \in Dirs : db'[e].perm = db[e].perm
    BY <1>7
  <2> QED  BY <1>3, <1>7, <2>1, LegalKeeps
<1>12. CopyInv'
  BY <1>7 DEF CopyInv
<1>13. LimitInv'
  BY <1>5, <1>6, <1>7 DEF LimitInv, Limited
<1>14. Within'
  BY <1>1, <1>4, RunningWithin
<1> QED  BY <1>8, <1>9, <1>10, <1>11, <1>12, <1>13, <1>14 DEF IInv

-----------------------------------------------------------------------------
(* Theorems                                                                *)

\* An index starts without copies and without marks.
LEMMA InitRollup == Init => IInv
<1> SUFFICES ASSUME Init PROVE IInv
  OBVIOUS
<1>1. PICK p \in Perms : db = [d \in Dirs |-> NewDb(p[d])]
  BY DEF Init
<1>2. \A d \in Dirs : /\ DOMAIN db[d] = Fields /\ db[d].roll = <<>> /\ db[d].pent = <<>>
                      /\ db[d].isroll = FALSE
  BY <1>1 DEF NewDb, Fields
<1>3. /\ job = NoJob /\ log = <<>> /\ faults = 0 /\ remaining = 0
      /\ pc = [d \in Dirs |-> "out"] /\ left = [d \in Dirs |-> <<>>]
      /\ rolledup = [d \in Dirs |-> FALSE]
  BY DEF Init
<1>4. <<>> \in Seq(Dirs) /\ <<>> \in Seq(LogEntries)
  OBVIOUS
<1>5. RowsInv
  <2>1. DOMAIN db = Dirs
    BY <1>1
  <2>2. \A d \in Dirs : db[d].roll \in Seq(Dirs) /\ db[d].pent \in Seq(Dirs)
    BY <1>2, <1>4
  <2>3. \A d \in Dirs : db[d].isroll \in BOOLEAN
    BY <1>2
  <2> QED  BY <1>2, <2>1, <2>2, <2>3 DEF RowsInv
<1>6. WalkTypes
  BY <1>3, <1>4 DEF WalkTypes
<1>7. LogInv /\ CopyInv /\ LimitInv /\ Within
  BY <1>3 DEF LogInv, CopyInv, LimitInv, Limited, Running, Within, Succeeded
<1>8. LegalInv
  BY <1>2, <1>3 DEF LegalInv
<1> QED  BY <1>5, <1>6, <1>7, <1>8 DEF IInv

\* Every step of every program keeps the invariant.
LEMMA NextRollup == IInv /\ [Next]_vars => IInv'
<1> SUFFICES ASSUME IInv, [Next]_vars PROVE IInv'
  OBVIOUS
<1>1. ASSUME NEW o \in Options, NEW h \in Dirs \cup {NoDir}, Start(o, h) PROVE IInv'
  BY <1>1, StartStep
<1>2. ASSUME NEW d \in Dirs, \/ AscendUnopenable(d) \/ AscendSkip(d) \/ AscendFails(d)
                             \/ AscendRefuse(d) \/ AscendDry(d) \/ InitFails(d)
      PROVE  IInv'
  BY <1>2, UnopenableStep, SkipStep, FailsStep, RefuseStep, DryStep, InitFailsStep
<1>3. ASSUME NEW d \in Dirs, AscendInit(d) \/ FinishRollup(d)
      PROVE  IInv'
  BY <1>3, InitStep, FinishStep
<1>4. ASSUME NEW d \in Dirs, NEW n \in 0 .. Statements, CopyChild(d, n) PROVE IInv'
  BY <1>4, CopyStep
<1>5. ASSUME NEW d \in Dirs, NEW n \in 0 .. (Statements - 1), CopyFails(d, n) PROVE IInv'
  BY <1>5, CopyFailsStep
<1>6. ASSUME NEW d \in Dirs, TreesummaryAscend(d) \/ TreesummaryAscendFails(d) PROVE IInv'
  BY <1>6, SummaryStep
<1>7. ASSUME NEW d \in Dirs, NEW i \in BOOLEAN, UnrollupDir(d, i) \/ UnrollupFails(d, i)
      PROVE  IInv'
  BY <1>7, UnrollupStep
<1>8. ASSUME NEW d \in Dirs, TreesummaryDirFails(d) \/ \E t \in Threads : TreesummaryDir(d, t)
      PROVE  IInv'
  BY <1>8, TreesummaryStep
<1>9. ASSUME ComputeTreesummary \/ End \/ Crash PROVE IInv'
  BY <1>9, ComputeStep, EndStep, CrashStep
<1>10. ASSUME UNCHANGED vars PROVE IInv'
  <2>1. UNCHANGED <<db, job, pc, left, rolledup, remaining, faults, log>>
    BY <1>10 DEF vars
  <2>2. RowsInv' /\ WalkTypes' /\ LogInv' /\ LegalInv' /\ CopyInv'
    BY <2>1 DEF IInv, RowsInv, WalkTypes, LogInv, LegalInv, Legal, CopyInv, Latest, Running
  <2>3. \A e : Entries(e)' = Entries(e) /\ LeftEntries(e)' = LeftEntries(e)
    BY <2>1, EntriesKeep
  <2>4. LimitInv'
    BY <2>1, <2>3 DEF IInv, LimitInv, Limited, Latest, Running
  <2>5. Within'
    BY <2>1, <2>3 DEF IInv, Within, Succeeded, Idle, Latest
  <2> QED  BY <2>2, <2>4, <2>5 DEF IInv
<1> QED  BY <1>1, <1>2, <1>3, <1>4, <1>5, <1>6, <1>7, <1>8, <1>9, <1>10 DEF Next

\* What is marked, copied, about to be copied and logged agrees in every
\* state that the programs can reach, failures and crashes included.
THEOREM Invariant == Spec => []IInv
BY InitRollup, NextRollup, PTL DEF Spec

\* However many programs run with whichever options: what is marked as rolled
\* up was allowed to be (check_pair_permissions), all the way down, and after
\* a roll-up with a limit, of an index that was not rolled up, no directory
\* holds more entries than that.
THEOREM RollsUpLegally == Spec => []RolledUpLegally
<1>1. IInv => RolledUpLegally
  <2> SUFFICES ASSUME IInv PROVE RolledUpLegally
    OBVIOUS
  <2>1. \A d \in Dirs : db[d].isroll => Legal(d)
    BY DEF IInv, LegalInv
  <2>2. Within
    BY DEF IInv
  <2> QED  BY <2>1, <2>2 DEF RolledUpLegally, Legal, Within, Entries
<1> QED  BY <1>1, Invariant, PTL

-----------------------------------------------------------------------------
(* What is below and above a directory                                     *)

\* A directory and what is below it
Under(d) == {d} \cup Below[d]

\* What is below a directory is the least closed set with its subdirectories.
LEMMA BelowIs ==
    ASSUME NEW d \in Dirs
    PROVE  /\ Kids(d) \subseteq Below[d]
           /\ \A x \in Below[d] : Kids(x) \subseteq Below[d]
           /\ \A S \in SUBSET Dirs :
                  Kids(d) \subseteq S /\ (\A x \in S : Kids(x) \subseteq S) => Below[d] \subseteq S
<1>1. Kids(d) \subseteq Dirs /\ Below[d] \subseteq Dirs
  BY TreeIs
<1>2. Below[d] = {e \in Dirs : \A S \in SUBSET Dirs : Kids(d) \subseteq S /\ Closed(S) => e \in S}
  BY DEF Below
<1>3. Kids(d) \subseteq Below[d]
  BY <1>1, <1>2
<1>4. ASSUME NEW x \in Below[d], NEW k \in Kids(x) PROVE k \in Below[d]
  <2>1. k \in Dirs
    BY <1>1, <1>4, TreeIs
  <2>2. ASSUME NEW S \in SUBSET Dirs, Kids(d) \subseteq S, Closed(S) PROVE k \in S
    BY <1>2, <1>4, <2>2 DEF Closed
  <2> QED  BY <1>2, <2>1, <2>2
<1>5. ASSUME NEW S \in SUBSET Dirs, Kids(d) \subseteq S, \A x \in S : Kids(x) \subseteq S
      PROVE  Below[d] \subseteq S
  BY <1>2, <1>5 DEF Closed
<1> QED  BY <1>3, <1>4, <1>5

\* What is below something below is below.
LEMMA BelowBelow ==
    ASSUME NEW d \in Dirs, NEW x \in Below[d]
    PROVE  x \in Dirs /\ Below[x] \subseteq Below[d]
<1>1. Below[d] \in SUBSET Dirs /\ x \in Dirs
  BY TreeIs
<1>2. Kids(x) \subseteq Below[d] /\ \A y \in Below[d] : Kids(y) \subseteq Below[d]
  BY BelowIs
<1> QED  BY <1>1, <1>2, BelowIs

\* It is a subdirectory of the directory or of something below it, and of nothing else.
LEMMA ParentIs ==
    ASSUME NEW d \in Dirs, NEW x \in Below[d]
    PROVE  /\ \E p \in Under(d) : x \in Kids(p)
           /\ \A p \in Dirs : x \in Kids(p) => p \in Under(d)
<1> DEFINE S == UNION {Kids(p) : p \in Under(d)}
<1>1. Under(d) \subseteq Dirs
  BY TreeIs DEF Under
<1>2. S \in SUBSET Dirs /\ Kids(d) \subseteq S
  BY <1>1, TreeIs DEF Under
<1>3. S \subseteq Below[d]
  BY BelowIs DEF Under
<1>4. \A y \in S : Kids(y) \subseteq S
  BY <1>3 DEF Under
<1>5. x \in S
  <2> HIDE DEF S
  <2> QED  BY <1>2, <1>4, BelowIs
<1>6. PICK p \in Under(d) : x \in Kids(p)
  BY <1>5
<1>7. \A q \in Dirs : x \in Kids(q) => q = p
  BY <1>1, <1>6, TreeIs
<1> QED  BY <1>6, <1>7

\* Every directory is the root or below it, and none is below itself.
LEMMA NoCycle ==
    ASSUME NEW d \in Dirs
    PROVE  d \notin Below[d] /\ d \in Under(Root)
<1>0. Root \in Dirs /\ d \in Under(Root)
  BY TreeAssumption DEF Under
<1> DEFINE S == {x \in Dirs : x \notin Below[x]}
<1>1. Root \in S
  <2>1. ASSUME Root \in Below[Root] PROVE FALSE
    <3>1. PICK p \in Under(Root) : Root \in Kids(p)
      BY <1>0, <2>1, ParentIs
    <3>2. p \in Dirs
      BY <1>0, TreeIs DEF Under
    <3> QED  BY <3>1, <3>2, TreeAssumption
  <2> QED  BY <1>0, <2>1
<1>2. ASSUME NEW x \in S, NEW k \in Kids(x) PROVE k \in S
  <2>1. x \in Dirs /\ k \in Dirs /\ k \in Below[x]
    BY TreeIs, BelowIs
  <2>2. ASSUME k \in Below[k] PROVE FALSE
    <3>1. x \in Under(k)
      BY <2>1, <2>2, ParentIs
    <3>2. x \in Below[k]
      BY <2>2, <3>1 DEF Under
    <3> QED  BY <2>1, <3>2, BelowBelow
  <2> QED  BY <2>1, <2>2
<1>3. Below[Root] \subseteq S
  <2>1. S \in SUBSET Dirs /\ Kids(Root) \subseteq S /\ \A x \in S : Kids(x) \subseteq S
    BY <1>1, <1>2
  <2> HIDE DEF S
  <2> QED  BY <1>0, <2>1, BelowIs
<1> QED  BY <1>0, <1>1, <1>3 DEF Under

\* Two directories above the same one are above each other.
LEMMA AboveIsChain ==
    ASSUME NEW d \in Dirs, NEW e \in Dirs, NEW x \in Below[d], x \in Below[e]
    PROVE  d = e \/ d \in Below[e] \/ e \in Below[d]
<1> SUFFICES ASSUME d # e, d \notin Below[e], e \notin Below[d] PROVE FALSE
  OBVIOUS
<1> DEFINE S == Below[d] \ Below[e]
<1>1. S \in SUBSET Dirs
  BY TreeIs
<1>2. ASSUME NEW y \in Under(d), y \notin Below[e], NEW k \in Kids(y) PROVE k \in S
  <2>1. y \in Dirs /\ k \in Below[d]
    BY TreeIs, BelowIs DEF Under
  <2>2. ASSUME k \in Below[e] PROVE FALSE
    <3>1. y \in Under(e)
      BY <2>1, <2>2, <1>2, ParentIs
    <3> QED  BY <1>2, <3>1 DEF Under
  <2> QED  BY <2>1, <2>2
<1>3. Kids(d) \subseteq S /\ \A y \in S : Kids(y) \subseteq S
  BY <1>2 DEF Under
<1> HIDE DEF S
<1>4. Below[d] \subseteq S
  BY <1>1, <1>3, BelowIs
<1> QED  BY <1>4 DEF S

\* What is above a subdirectory is the directory and what is above it.
LEMMA AboveKid ==
    ASSUME NEW d \in Dirs, NEW c \in Kids(d)
    PROVE  /\ c \in Dirs /\ c # d /\ d \notin Below[c] /\ Above(c) = Above(d) \cup {d}
           /\ \A e \in Dirs : c \in Kids(e) => e = d
<1>1. c \in Dirs /\ c \in Below[d] /\ Below[c] \subseteq Below[d]
  BY TreeIs, BelowIs, BelowBelow
<1>2. d \notin Below[d]
  BY NoCycle
<1>3. \A e \in Dirs : c \in Kids(e) => e = d
  BY TreeIs
<1>4. ASSUME NEW e \in Above(d) PROVE e \in Above(c)
  <2>1. e \in Dirs /\ d \in Below[e]
    BY DEF Above
  <2> QED  BY <1>1, <2>1, BelowBelow DEF Above
<1>5. ASSUME NEW e \in Above(c) PROVE e \in Above(d) \cup {d}
  <2>1. e \in Dirs /\ c \in Below[e]
    BY DEF Above
  <2>2. d \in Under(e)
    BY <2>1, ParentIs
  <2> QED  BY <2>1, <2>2 DEF Above, Under
<1>6. d \in Above(c)
  BY <1>1 DEF Above
<1> QED  BY <1>1, <1>2, <1>3, <1>4, <1>5, <1>6

\* The root has no directory above it, all others have one above it.
LEMMA ParentOf ==
    ASSUME NEW d \in Dirs
    PROVE  /\ d # Root => \E p \in Dirs : d \in Kids(p)
           /\ \A p \in Dirs : d \in Kids(p) => /\ Above(d) = Above(p) \cup {p}
                                               /\ d # Root
           /\ d = Root => Above(d) = {}
<1>1. Root \in Dirs /\ d \in Under(Root) /\ Under(Root) \subseteq Dirs
  BY NoCycle, TreeIs, TreeAssumption DEF Under
<1>2. d # Root => \E p \in Dirs : d \in Kids(p)
  BY <1>1, ParentIs DEF Under
<1>3. \A p \in Dirs : d \in Kids(p) => Above(d) = Above(p) \cup {p} /\ d # Root
  BY AboveKid, TreeAssumption
<1>4. d = Root => Above(d) = {}
  <2> SUFFICES ASSUME NEW x \in Dirs, Root \in Below[x] PROVE FALSE
    BY DEF Above
  <2>1. PICK p \in Under(x) : Root \in Kids(p)
    BY <1>1, ParentIs
  <2>2. p \in Dirs
    BY <2>1, TreeIs DEF Under
  <2> QED  BY <2>1, <2>2, TreeAssumption
<1> QED  BY <1>2, <1>3, <1>4

\* Two subdirectories of a directory have nothing below in common.
LEMMA KidsApart ==
    ASSUME NEW d \in Dirs, NEW c \in Kids(d), NEW k \in Kids(d), c # k
    PROVE  Under(c) \cap Under(k) = {}
<1>1. c \in Dirs /\ k \in Dirs /\ d \notin Below[c] /\ d \notin Below[k] /\ c # d /\ k # d
  BY AboveKid
<1>2. \A x, y \in Dirs : x \in Kids(d) /\ y \in Kids(d) => x \notin Below[y]
  <2> SUFFICES ASSUME NEW x \in Kids(d), NEW y \in Kids(d), x \in Below[y] PROVE FALSE
    OBVIOUS
  <2>1. y \in Dirs /\ y # d /\ d \notin Below[y]
    BY AboveKid
  <2>2. d \in Under(y)
    BY <2>1, ParentIs
  <2> QED  BY <2>1, <2>2 DEF Under
<1>3. ASSUME NEW x \in Below[c], x \in Below[k] PROVE FALSE
  <2>1. c = k \/ c \in Below[k] \/ k \in Below[c]
    BY <1>1, <1>3, AboveIsChain
  <2> QED  BY <1>1, <1>2, <2>1
<1> QED  BY <1>1, <1>2, <1>3 DEF Under

\* The level of a directory
LEMMA LevelType ==
    ASSUME NEW d \in Dirs
    PROVE  /\ Level(d) \in Nat
           /\ \A c \in Kids(d) : Level(c) \in Nat /\ Level(c) >= Level(d)
<1>1. \A e \in Dirs : Above(e) \subseteq Dirs /\ IsFiniteSet(Above(e)) /\ Level(e) \in Nat
  <2>1. \A e \in Dirs : Above(e) \subseteq Dirs /\ IsFiniteSet(Above(e))
    BY TreeAssumption, FS_Subset DEF Above
  <2> QED  BY <2>1, FS_CardinalityType DEF Level
<1>2. ASSUME NEW c \in Kids(d) PROVE Level(c) \in Nat /\ Level(c) >= Level(d)
  <2>1. c \in Dirs /\ Above(d) \subseteq Above(c)
    BY AboveKid
  <2>2. Cardinality(Above(d)) <= Cardinality(Above(c))
    BY <1>1, <2>1, FS_Subset
  <2> QED  BY <1>1, <2>1, <2>2 DEF Level
<1> QED  BY <1>1, <1>2

\* What is below a directory is below one of its subdirectories or is one.
LEMMA BelowIsUnder ==
    ASSUME NEW d \in Dirs
    PROVE  \A x \in Below[d] : \E c \in Kids(d) : x \in Under(c)
BY BelowKids DEF Under

-----------------------------------------------------------------------------
(* Lists of directories                                                    *)

\* What is in a list that is put together, and what is left of one.
LEMMA JoinedSet ==
    ASSUME NEW s \in Seq(Dirs), NEW c \in Dirs, NEW t \in Seq(Dirs)
    PROVE  /\ ToSet(Joined(s, c, t)) = ToSet(s) \cup ({c} \cup ToSet(t))
           /\ (/\ IsInjective(s) /\ IsInjective(t) /\ c \notin ToSet(t)
               /\ ToSet(s) \cap ({c} \cup ToSet(t)) = {})
              => IsInjective(Joined(s, c, t))
<1> DEFINE u == Joined(s, c, t)
           m == Len(s)
           n == Len(t)
<1>1. /\ m \in Nat /\ n \in Nat /\ DOMAIN s = 1 .. m /\ DOMAIN t = 1 .. n
      /\ <<c>> \in Seq(Dirs) /\ Len(<<c>>) = 1 /\ <<c>>[1] = c
  BY LenProperties
<1> DEFINE v == <<c>> \o t
<1>2. v \in Seq(Dirs) /\ Len(v) = 1 + n /\ v[1] = c /\ \A i \in 2 .. (1 + n) : v[i] = t[i - 1]
  <2>1. /\ v \in Seq(Dirs) /\ Len(v) = 1 + n
        /\ \A i \in 1 .. (1 + n) : v[i] = IF i <= 1 THEN <<c>>[i] ELSE t[i - 1]
    BY <1>1, ConcatProperties
  <2> HIDE DEF v
  <2> QED  BY <1>1, <2>1
<1> HIDE DEF v
<1>3. /\ u = s \o v /\ u \in Seq(Dirs) /\ Len(u) = m + (1 + n)
      /\ \A i \in 1 .. (m + (1 + n)) : u[i] = IF i <= m THEN s[i] ELSE v[i - m]
  <2>1. u = s \o v
    BY DEF Joined, v
  <2> HIDE DEF u, m, n
  <2>2. s \in Seq(Dirs) /\ v \in Seq(Dirs) /\ Len(s) = m /\ Len(v) = 1 + n
    BY <1>2 DEF m
  <2>3. /\ s \o v \in Seq(Dirs) /\ Len(s \o v) = Len(s) + Len(v)
        /\ \A i \in 1 .. (Len(s) + Len(v)) : (s \o v)[i] = IF i <= Len(s) THEN s[i] ELSE v[i - Len(s)]
    BY <2>2, ConcatProperties
  <2> QED  BY <2>1, <2>2, <2>3
<1> HIDE DEF u, m, n
<1>4. DOMAIN u = 1 .. (m + (1 + n))
  BY <1>3, LenProperties
<1>5. /\ \A i \in 1 .. m : u[i] = s[i]
      /\ u[m + 1] = c
      /\ \A i \in (m + 2) .. (m + 1 + n) : u[i] = t[i - m - 1] /\ i - m - 1 \in 1 .. n
  <2>1. \A i \in 1 .. m : u[i] = s[i]
    BY <1>1, <1>3
  <2>2. u[m + 1] = c
    BY <1>1, <1>2, <1>3
  <2>3. ASSUME NEW i \in (m + 2) .. (m + 1 + n) PROVE u[i] = t[i - m - 1] /\ i - m - 1 \in 1 .. n
    <3>1. i \in 1 .. (m + (1 + n)) /\ ~(i <= m) /\ i - m \in 2 .. (1 + n) /\ (i - m) - 1 = i - m - 1
          /\ i - m - 1 \in 1 .. n
      BY <1>1
    <3> QED  BY <1>2, <1>3, <3>1
  <2> QED  BY <2>1, <2>2, <2>3
<1>6. \A i \in DOMAIN u : i \in 1 .. m \/ i = m + 1 \/ i \in (m + 2) .. (m + 1 + n)
  BY <1>1, <1>4
<1>7. /\ \A i \in 1 .. m : i \in DOMAIN u
      /\ m + 1 \in DOMAIN u
      /\ \A i \in 1 .. n : i + m + 1 \in (m + 2) .. (m + 1 + n) /\ i + m + 1 \in DOMAIN u
                           /\ (i + m + 1) - m - 1 = i
  BY <1>1, <1>4
<1>8. ToSet(u) = ToSet(s) \cup ({c} \cup ToSet(t))
  <2>1. ASSUME NEW i \in DOMAIN u PROVE u[i] \in ToSet(s) \cup ({c} \cup ToSet(t))
    BY <1>1, <1>5, <1>6 DEF ToSet
  <2>2. ASSUME NEW i \in DOMAIN s PROVE s[i] \in ToSet(u)
    BY <1>1, <1>5, <1>7 DEF ToSet
  <2>3. c \in ToSet(u)
    BY <1>5, <1>7 DEF ToSet
  <2>4. ASSUME NEW i \in DOMAIN t PROVE t[i] \in ToSet(u)
    <3>1. u[i + m + 1] = t[i] /\ i + m + 1 \in DOMAIN u
      BY <1>1, <1>5, <1>7
    <3> QED  BY <3>1 DEF ToSet
  <2>5. \A w : \A x \in ToSet(w) : \E i \in DOMAIN w : x = w[i]
    BY DEF ToSet
  <2> QED  BY <2>1, <2>2, <2>3, <2>4, <2>5
<1>9. ASSUME IsInjective(s), IsInjective(t), c \notin ToSet(t), ToSet(s) \cap ({c} \cup ToSet(t)) = {}
      PROVE  IsInjective(u)
  <2> SUFFICES ASSUME NEW i \in DOMAIN u, NEW j \in DOMAIN u, u[i] = u[j] PROVE i = j
    BY DEF IsInjective
  <2>0. /\ \A k, l \in DOMAIN s : s[k] = s[l] => k = l
        /\ \A k, l \in DOMAIN t : t[k] = t[l] => k = l
    BY <1>9 DEF IsInjective
  <2>1. \A k \in 1 .. m : u[k] \in ToSet(s)
    BY <1>1, <1>5 DEF ToSet
  <2>2. \A k \in (m + 2) .. (m + 1 + n) : u[k] \in ToSet(t)
    BY <1>1, <1>5 DEF ToSet
  <2>3. CASE i \in 1 .. m
    BY <1>1, <1>5, <1>6, <1>9, <2>0, <2>1, <2>2, <2>3
  <2>4. CASE i = m + 1
    BY <1>5, <1>6, <1>9, <2>1, <2>2, <2>4
  <2>5. CASE i \in (m + 2) .. (m + 1 + n)
    <3>1. j \in (m + 2) .. (m + 1 + n)
      BY <1>5, <1>6, <1>9, <2>1, <2>2, <2>5
    <3>2. t[i - m - 1] = t[j - m - 1] /\ i - m - 1 \in 1 .. n /\ j - m - 1 \in 1 .. n
      BY <1>5, <2>5, <3>1
    <3>3. i - m - 1 = j - m - 1
      BY <1>1, <2>0, <3>2
    <3>4. i \in Int /\ j \in Int
      BY <2>5, <3>1
    <3> QED  BY <1>1, <3>3, <3>4
  <2> QED  BY <1>6, <2>3, <2>4, <2>5
<1> QED  BY <1>8, <1>9 DEF u

\* The first of a list of different directories is not in the rest.
LEMMA HeadTailSet ==
    ASSUME NEW s \in Seq(Dirs), s # <<>>, IsInjective(s)
    PROVE  Head(s) \in ToSet(s) /\ ToSet(Tail(s)) = ToSet(s) \ {Head(s)}
<1>1. /\ Tail(s) \in Seq(Dirs) /\ Head(s) = s[1]
      /\ Len(s) \in Nat \ {0} /\ Len(Tail(s)) = Len(s) - 1
      /\ \A i \in 1 .. Len(Tail(s)) : Tail(s)[i] = s[i + 1]
  BY HeadTailProperties, EmptySeq
<1>2. DOMAIN s = 1 .. Len(s) /\ DOMAIN Tail(s) = 1 .. (Len(s) - 1)
  BY <1>1, LenProperties
<1>3. \A i, j \in DOMAIN s : s[i] = s[j] => i = j
  BY DEF IsInjective
<1>4. 1 \in DOMAIN s /\ \A i \in DOMAIN Tail(s) : i + 1 \in DOMAIN s /\ i + 1 # 1
  BY <1>1, <1>2
<1>5. \A i \in DOMAIN s : i # 1 => i - 1 \in DOMAIN Tail(s) /\ (i - 1) + 1 = i
  BY <1>1, <1>2
<1>6. \A i \in DOMAIN Tail(s) : Tail(s)[i] = s[i + 1]
  BY <1>1, <1>2
<1>7. ASSUME NEW i \in DOMAIN Tail(s) PROVE Tail(s)[i] \in ToSet(s) \ {Head(s)}
  <2>1. Tail(s)[i] = s[i + 1] /\ i + 1 \in DOMAIN s /\ s[i + 1] # s[1]
    BY <1>3, <1>4, <1>6
  <2> QED  BY <1>1, <2>1 DEF ToSet
<1>8. ASSUME NEW i \in DOMAIN s, s[i] # Head(s) PROVE s[i] \in ToSet(Tail(s))
  <2>1. i # 1
    BY <1>1, <1>8
  <2>2. i - 1 \in DOMAIN Tail(s) /\ Tail(s)[i - 1] = s[i]
    BY <1>5, <1>6, <2>1
  <2> QED  BY <2>2 DEF ToSet
<1>9. Head(s) \in ToSet(s)
  BY <1>1, <1>4 DEF ToSet
<1>10. \A w : \A x \in ToSet(w) : \E i \in DOMAIN w : x = w[i]
  BY DEF ToSet
<1>11. ToSet(Tail(s)) \subseteq ToSet(s) \ {Head(s)}
  BY <1>7, <1>10
<1>12. ToSet(s) \ {Head(s)} \subseteq ToSet(Tail(s))
  BY <1>8, <1>10
<1> QED  BY <1>9, <1>11, <1>12

\* There is nothing in an empty list.
LEMMA EmptyList == ToSet(<<>>) = {} /\ IsInjective(<<>>) /\ <<>> \in Seq(Dirs)
BY DEF ToSet, IsInjective

-----------------------------------------------------------------------------
(* What the steps do to the copies                                         *)

\* A directory keeps its copies and its mark, which goes on to count.
Same(e) ==
    /\ db'[e].perm = db[e].perm
    /\ db'[e].roll = db[e].roll /\ db'[e].pent = db[e].pent /\ db'[e].isroll = db[e].isroll
    /\ db[e].isroll /\ db[e].can => db'[e].can

\* A directory loses its copies, and its mark is set to a value.
Emptied(e, mark) ==
    /\ db'[e].perm = db[e].perm
    /\ db'[e].roll = <<>> /\ db'[e].pent = <<>> /\ db'[e].isroll = mark
    /\ mark => db'[e].can \/ (db[e].isroll /\ (db[e].can => db'[e].can))

\* What becomes of the mark of a database that keeps its copies.
KeepsMark(x, y) == Keeps(x, y) /\ (x.isroll /\ x.can => y.can)

LEMMA SummaryKeepsMark ==
    ASSUME NEW x, DOMAIN x = Fields, NEW d
    PROVE  /\ KeepsMark(x, x)
           /\ KeepsMark(x, CreateTreesummaryTables(x))
           /\ KeepsMark(x, [x EXCEPT !.ts.exists = TRUE])
           /\ KeepsMark(x, DeleteOwnRow(d, x))
           /\ \A sum : KeepsMark(x, Inserttreesumdb(d, x, sum))
           /\ \A v : (x.isroll /\ x.can => v) => KeepsMark(x, [x EXCEPT !.can = v])
BY DEF KeepsMark, Keeps, Fields, CreateTreesummaryTables, DeleteOwnRow, Inserttreesumdb

\* Keeping is transitive.
LEMMA KeepsMarkOn ==
    ASSUME NEW x, NEW y, NEW z, KeepsMark(x, y), KeepsMark(y, z)
    PROVE  KeepsMark(x, z)
BY DEF KeepsMark, Keeps

LEMMA CollectKeepsMark ==
    ASSUME NEW d, NEW f, DOMAIN f[d] = Fields, NEW x, DOMAIN x = Fields, NEW lost
    PROVE  KeepsMark(x, CollectRolledUp(d, x)) /\ KeepsMark(f[d], CollectChildren(d, f, lost))
<1>1. KeepsMark(x, DeleteOwnRow(d, x)) /\ KeepsMark(f[d], DeleteOwnRow(d, f[d]))
      /\ DOMAIN DeleteOwnRow(d, x) = Fields /\ DOMAIN DeleteOwnRow(d, f[d]) = Fields
  BY SummaryKeepsMark DEF KeepsMark, Keeps
<1>2. /\ \A sum : KeepsMark(DeleteOwnRow(d, x), Inserttreesumdb(d, DeleteOwnRow(d, x), sum))
      /\ \A sum : KeepsMark(DeleteOwnRow(d, f[d]), Inserttreesumdb(d, DeleteOwnRow(d, f[d]), sum))
  BY <1>1, SummaryKeepsMark
<1>3. /\ \A sum : KeepsMark(x, Inserttreesumdb(d, DeleteOwnRow(d, x), sum))
      /\ \A sum : KeepsMark(f[d], Inserttreesumdb(d, DeleteOwnRow(d, f[d]), sum))
  BY <1>1, <1>2, KeepsMarkOn
<1> QED  BY <1>3 DEF CollectRolledUp, CollectChildren

\* One database is given another tree summary, or none is changed.
LEMMA OneIsSame ==
    ASSUME RowsInv, NEW d \in Dirs, NEW y, KeepsMark(db[d], y),
           db' = [db EXCEPT ![d] = y] \/ UNCHANGED db
    PROVE  \A e \in Dirs : Same(e)
<1>1. CASE UNCHANGED db
  BY <1>1 DEF Same
<1>2. CASE db' = [db EXCEPT ![d] = y]
  <2>1. db'[d] = y /\ \A e \in Dirs \ {d} : db'[e] = db[e]
    BY <1>2 DEF RowsInv
  <2> QED  BY <2>1 DEF Same, KeepsMark, Keeps
<1> QED  BY <1>1, <1>2

\* A directory that is opened.
LEMMA OpenedKeepsMark ==
    ASSUME RowsInv, NEW d \in Dirs
    PROVE  /\ DOMAIN db[d] = Fields /\ KeepsMark(db[d], db[d])
           /\ KeepsMark(db[d], Opened(d)) /\ DOMAIN Opened(d) = Fields
<1>1. DOMAIN db[d] = Fields
  BY DEF RowsInv
<1> QED  BY <1>1, SummaryKeepsMark DEF Opened, KeepsMark, Keeps

\* The steps after which a directory is done and everything that has been
\* copied is where it was.
Settles(d) ==
    \/ AscendUnopenable(d) \/ AscendSkip(d) \/ AscendFails(d) \/ AscendRefuse(d) \/ AscendDry(d)
    \/ FinishRollup(d) \/ TreesummaryAscend(d) \/ TreesummaryAscendFails(d)

LEMMA SettleIs ==
    ASSUME RowsInv, NEW d \in Dirs, Settles(d)
    PROVE  /\ \A e \in Dirs : Same(e)
           /\ pc[d] = "todo" \/ (pc[d] = "copy" /\ left[d] = <<>>)
           /\ pc' = [pc EXCEPT ![d] = "done"] /\ UNCHANGED <<job, left, torn, queue>>
<1>0. /\ DOMAIN db[d] = Fields /\ KeepsMark(db[d], db[d])
      /\ KeepsMark(db[d], Opened(d)) /\ DOMAIN Opened(d) = Fields
  BY OpenedKeepsMark
<1>1. \E y : KeepsMark(db[d], y) /\ (db' = [db EXCEPT ![d] = y] \/ UNCHANGED db)
  <2>1. CASE AscendUnopenable(d) \/ AscendDry(d) \/ TreesummaryAscendFails(d)
    <3>1. UNCHANGED db
      BY <2>1 DEF AscendUnopenable, AscendDry, TreesummaryAscendFails
    <3> QED  BY <1>0, <3>1
  <2>2. CASE AscendSkip(d) \/ AscendFails(d)
    <3>1. db' = [db EXCEPT ![d] = Opened(d)]
      BY <2>2 DEF AscendSkip, AscendFails
    <3> QED  BY <1>0, <3>1
  <2>3. CASE AscendRefuse(d)
    <3> DEFINE f == [db EXCEPT ![d] = Opened(d)]
               y == CollectChildren(d, f, {})
    <3>1. db' = [db EXCEPT ![d] = y] \/ UNCHANGED db
      BY <2>3 DEF AscendRefuse
    <3>2. f[d] = Opened(d)
      BY DEF RowsInv
    <3>3. KeepsMark(f[d], y)
      <4> HIDE DEF f
      <4> QED  BY <1>0, <3>2, CollectKeepsMark
    <3>4. KeepsMark(db[d], y)
      <4> HIDE DEF f, y
      <4> QED  BY <1>0, <3>2, <3>3, KeepsMarkOn
    <3> HIDE DEF y
    <3> QED  BY <3>1, <3>4
  <2>4. CASE FinishRollup(d)
    <3>1. db' = [db EXCEPT ![d] = CollectRolledUp(d, db[d])]
      BY <2>4 DEF FinishRollup
    <3>2. KeepsMark(db[d], CollectRolledUp(d, db[d]))
      BY <1>0, CollectKeepsMark
    <3> QED  BY <3>1, <3>2
  <2>5. CASE TreesummaryAscend(d)
    <3> DEFINE x == [db[d] EXCEPT !.ts.exists = TRUE]
               f == [db EXCEPT ![d] = x]
               up == GetIsrolledup(x)
               z == IF up THEN CollectRolledUp(d, x) ELSE CollectChildren(d, f, {})
               v == up \/ CanrollupChildren(d, f, {})
    <3>1. db' = [db EXCEPT ![d] = [z EXCEPT !.can = v]]
      BY <2>5 DEF TreesummaryAscend
    <3>2. KeepsMark(db[d], x) /\ DOMAIN x = Fields
      BY <1>0, SummaryKeepsMark DEF KeepsMark, Keeps
    <3>3. f[d] = x
      BY DEF RowsInv
    <3> HIDE DEF x
    <3>4. KeepsMark(x, CollectRolledUp(d, x)) /\ KeepsMark(x, CollectChildren(d, f, {}))
      <4> HIDE DEF f
      <4> QED  BY <3>2, <3>3, CollectKeepsMark
    <3>5. KeepsMark(x, z)
      BY <3>4
    <3>6. x.isroll /\ x.can => v
      BY DEF GetIsrolledup
    <3> HIDE DEF z, v
    <3>7. DOMAIN z = Fields /\ z.isroll = x.isroll
      BY <3>5 DEF KeepsMark, Keeps
    <3>8. KeepsMark(db[d], [z EXCEPT !.can = v])
      BY <3>2, <3>5, <3>6, <3>7 DEF KeepsMark, Keeps, Fields
    <3> QED  BY <3>1, <3>8
  <2> QED  BY <2>1, <2>2, <2>3, <2>4, <2>5 DEF Settles
<1>2. PICK y : KeepsMark(db[d], y) /\ (db' = [db EXCEPT ![d] = y] \/ UNCHANGED db)
  BY <1>1
<1>3. \A e \in Dirs : Same(e)
  BY <1>2, OneIsSame
<1>4. /\ pc[d] = "todo" \/ (pc[d] = "copy" /\ left[d] = <<>>)
      /\ pc' = [pc EXCEPT ![d] = "done"] /\ UNCHANGED <<job, left, torn, queue>>
  BY DEF Settles, AscendUnopenable, AscendSkip, AscendFails, AscendRefuse, AscendDry, FinishRollup,
         TreesummaryAscend, TreesummaryAscendFails, MustDecide, CanAscend, Done, pool
<1> QED  BY <1>3, <1>4

\* The steps that empty a directory.
LEMMA EmptiedIs ==
    ASSUME RowsInv, NEW d \in Dirs, NEW x, DOMAIN x = Fields, x.perm = db[d].perm, x.roll = <<>>,
           x.pent = <<>>, db' = [db EXCEPT ![d] = x],
           x.isroll => x.can \/ (db[d].isroll /\ (db[d].can => x.can))
    PROVE  Emptied(d, x.isroll) /\ \A e \in Dirs \ {d} : Same(e)
<1>1. db'[d] = x /\ \A e \in Dirs \ {d} : db'[e] = db[e]
  BY DEF RowsInv
<1> QED  BY <1>1 DEF Emptied, Same

LEMMA InitIs ==
    ASSUME RowsInv, NEW d \in Dirs, AscendInit(d) \/ InitFails(d)
    PROVE  /\ \E mark \in BOOLEAN :
                  /\ Emptied(d, mark)
                  /\ mark = IF AscendInit(d) THEN TRUE ELSE db[d].isroll
           /\ \A e \in Dirs \ {d} : Same(e)
           /\ Running("rollup") /\ pc[d] = "todo" /\ ~job.dry_run /\ CanRollup(d)
           /\ UNCHANGED <<job, queue>>
<1>0. /\ DOMAIN db[d] = Fields /\ KeepsMark(db[d], Opened(d)) /\ DOMAIN Opened(d) = Fields
      /\ db[d].isroll \in BOOLEAN
  BY OpenedKeepsMark DEF RowsInv
<1>1. /\ Running("rollup") /\ pc[d] = "todo" /\ ~job.dry_run /\ CanRollup(d)
      /\ UNCHANGED <<job, queue>>
  BY DEF AscendInit, InitFails, MustDecide, CanAscend, ShouldRollup, pool
<1>2. CASE AscendInit(d)
  <2> DEFINE x == RollupInit(Opened(d))
  <2>1. db' = [db EXCEPT ![d] = x]
    BY <1>2 DEF AscendInit
  <2>2. DOMAIN x = Fields /\ x.perm = db[d].perm /\ x.roll = <<>> /\ x.pent = <<>> /\ x.isroll = TRUE
        /\ x.can = TRUE
    BY <1>0 DEF KeepsMark, Keeps, Fields, RollupInit, RollupCleanup, DeleteRollup
  <2> HIDE DEF x
  <2> QED  BY <1>1, <1>2, <2>1, <2>2, EmptiedIs
<1>3. CASE ~AscendInit(d) /\ InitFails(d)
  <2> DEFINE x == DeleteRollup(Opened(d))
  <2>1. db' = [db EXCEPT ![d] = x]
    BY <1>3 DEF InitFails
  <2>2. /\ DOMAIN x = Fields /\ x.perm = db[d].perm /\ x.roll = <<>> /\ x.pent = <<>>
        /\ x.isroll = db[d].isroll /\ (db[d].isroll /\ db[d].can => x.can)
    BY <1>0 DEF KeepsMark, Keeps, Fields, DeleteRollup
  <2> HIDE DEF x
  <2>3. Emptied(d, x.isroll) /\ \A e \in Dirs \ {d} : Same(e)
    BY <2>1, <2>2, EmptiedIs
  <2> QED  BY <1>0, <1>1, <1>3, <2>2, <2>3
<1> QED  BY <1>2, <1>3

\* gufi_unrollup cleans a directory up, or passes.
LEMMA UnrollupDirIs ==
    ASSUME RowsInv, NEW d \in Dirs, NEW i \in BOOLEAN, UnrollupDir(d, i)
    PROVE  \E up \in BOOLEAN :
             /\ up = (i \/ (Level(d) >= job.min_level /\ GetIsrolledup(db[d])))
             /\ queue' = (queue \ {<<d, i>>}) \cup {<<c, up>> : c \in Kids(d)}
             /\ \A e \in Dirs \ {d} : Same(e)
             /\ \/ /\ Level(d) >= job.min_level /\ up
                   /\ Emptied(d, FALSE) /\ torn' = torn \ {d}
                \/ ~(Level(d) >= job.min_level /\ up) /\ Same(d) /\ torn' = torn
             /\ Running("unrollup") /\ <<d, i>> \in queue /\ NoFault /\ UNCHANGED <<job, walk>>
<1> DEFINE deep == Level(d) >= job.min_level
           up == i \/ (deep /\ GetIsrolledup(db[d]))
           x == RollupCleanup(db[d])
<1>1. /\ queue' = (queue \ {<<d, i>>}) \cup {<<c, up>> : c \in Kids(d)}
      /\ db' = IF deep /\ up THEN [db EXCEPT ![d] = x] ELSE db
      /\ torn' = IF deep /\ up THEN torn \ {d} ELSE torn
      /\ Running("unrollup") /\ <<d, i>> \in queue /\ NoFault /\ UNCHANGED <<job, walk>>
  BY DEF UnrollupDir, Inherit
<1>2. DOMAIN db[d] = Fields
  BY DEF RowsInv
<1>3. CASE deep /\ up
  <2>1. DOMAIN x = Fields /\ x.perm = db[d].perm /\ x.roll = <<>> /\ x.pent = <<>> /\ x.isroll = FALSE
    BY <1>2 DEF Fields, RollupCleanup, DeleteRollup
  <2>2. db' = [db EXCEPT ![d] = x]
    BY <1>1, <1>3
  <2> HIDE DEF x
  <2>3. Emptied(d, FALSE) /\ \A e \in Dirs \ {d} : Same(e)
    BY <2>1, <2>2, EmptiedIs
  <2> QED  BY <1>1, <1>3, <2>3
<1>4. CASE ~(deep /\ up)
  <2>1. UNCHANGED db
    BY <1>1, <1>4
  <2>2. \A e \in Dirs : Same(e)
    BY <2>1 DEF Same
  <2>3. up \in BOOLEAN
    OBVIOUS
  <2> QED  BY <1>1, <1>4, <2>2, <2>3
<1> QED  BY <1>3, <1>4

\* What becomes of a subdirectory after it has been copied.
Deleted(y, z, n) ==
    /\ z.roll = (IF n >= 1 THEN <<>> ELSE y.roll)
    /\ z.isroll = (IF n >= 2 THEN FALSE ELSE y.isroll)
    /\ z.pent = (IF n >= 3 THEN <<>> ELSE y.pent)

LEMMA RollupChildIs ==
    ASSUME NEW x, DOMAIN x = Fields, NEW y, DOMAIN y = Fields, NEW c, NEW n \in Nat
    PROVE  /\ LET z == RollupChildProcess(x, c, y, n)
              IN  /\ z.perm = x.perm /\ z.isroll = x.isroll /\ z.can = x.can
                  /\ z.pent = IF n >= 1 THEN Joined(x.pent, c, y.pent) ELSE x.pent
                  /\ z.roll = IF n >= 2 THEN Joined(x.roll, c, y.roll) ELSE x.roll
           /\ LET z == DeleteSubdirRollup(y, n)
              IN  z.perm = y.perm /\ z.can = y.can /\ Deleted(y, z, n)
BY DEF Fields, RollupChildProcess, DeleteSubdirRollup, Joined, Deleted

\* One turn of the loop
LEMMA CopyChildIs ==
    ASSUME IInv, NEW d \in Dirs, NEW n \in 0 .. Statements, CopyChild(d, n)
    PROVE  LET sub == Head(left[d]) IN
           /\ pc[d] = "copy" /\ left[d] # <<>> /\ UNCHANGED <<job, pc, rolledup, remaining, queue>>
           /\ sub \in Dirs /\ sub \in Kids(d) /\ sub # d /\ pc[sub] \in {"done", "out"}
           /\ db'[d].perm = db[d].perm /\ db'[d].isroll = db[d].isroll /\ db'[d].can = db[d].can
           /\ db'[d].roll = Joined(db[d].roll, sub, db[sub].roll)
           /\ db'[d].pent = Joined(db[d].pent, sub, db[sub].pent)
           /\ db'[sub].perm = db[sub].perm /\ db'[sub].can = db[sub].can
           /\ \/ db'[sub] = db[sub] /\ torn' = torn \cup (IF sub \in torn THEN {d} ELSE {})
              \/ /\ Deleted(db[sub], db'[sub], n)
                 /\ torn' = (IF n = Statements THEN torn \ {sub} ELSE torn)
                            \cup (IF sub \in torn THEN {d} ELSE {})
                            \cup (IF n \in {1, 2} THEN {sub} ELSE {})
           /\ left' = [left EXCEPT ![d] = Tail(left[d])]
           /\ \A e \in Dirs \ {d, sub} : Same(e)
<1> DEFINE sub == Head(left[d])
           x == RollupChildProcess(db[d], sub, db[sub], Statements)
           z == IF Deletes(d) THEN DeleteSubdirRollup(db[sub], n) ELSE db[sub]
<1>1. /\ pc[d] = "copy" /\ left[d] # <<>> /\ UNCHANGED <<job, pc, rolledup, remaining, queue>>
      /\ n = Statements \/ Deletes(d)
      /\ left' = [left EXCEPT ![d] = Tail(left[d])]
      /\ torn' = (IF Deletes(d) /\ n = Statements THEN torn \ {sub} ELSE torn)
                       \cup (IF sub \in torn THEN {d} ELSE {})
                       \cup (IF n \in {1, 2} THEN {sub} ELSE {})
  BY DEF CopyChild, pool
<1>2. sub \in Dirs /\ sub \in Kids(d) /\ sub # d /\ pc[sub] \in {"done", "out"}
  BY <1>1, HeadOfLeft
<1>3. RowsInv
  BY DEF IInv
<1>4. db' = [db EXCEPT ![d] = x, ![sub] = z]
  BY <1>2 DEF CopyChild
<1>5. DOMAIN db[d] = Fields /\ DOMAIN db[sub] = Fields
  BY <1>2, <1>3 DEF RowsInv
<1>6. /\ x.perm = db[d].perm /\ x.isroll = db[d].isroll /\ x.can = db[d].can
      /\ x.roll = Joined(db[d].roll, sub, db[sub].roll)
      /\ x.pent = Joined(db[d].pent, sub, db[sub].pent)
  <2> HIDE DEF sub
  <2> QED  BY <1>5, RollupChildIs DEF Statements
<1>7. /\ z.perm = db[sub].perm /\ z.can = db[sub].can
      /\ ~Deletes(d) => z = db[sub]
      /\ Deletes(d) => Deleted(db[sub], z, n)
  <2>1. n \in Nat
    BY DEF Statements
  <2> HIDE DEF sub
  <2> QED  BY <1>5, <2>1, RollupChildIs
<1> HIDE DEF x, z
<1>8. db'[d] = x /\ db'[sub] = z /\ \A e \in Dirs \ {d, sub} : db'[e] = db[e]
  BY <1>2, <1>3, <1>4 DEF RowsInv
<1>9. \A e \in Dirs \ {d, sub} : Same(e)
  BY <1>8 DEF Same
<1>10. ~Deletes(d) => torn' = torn \cup (IF sub \in torn THEN {d} ELSE {})
  BY <1>1 DEF Statements
<1>11. Deletes(d) => torn' = (IF n = Statements THEN torn \ {sub} ELSE torn)
                             \cup (IF sub \in torn THEN {d} ELSE {})
                             \cup (IF n \in {1, 2} THEN {sub} ELSE {})
  BY <1>1
<1> HIDE DEF sub
<1>12. CASE Deletes(d)
  <2> HIDE DEF Deleted
  <2> QED  BY <1>1, <1>2, <1>6, <1>7, <1>8, <1>9, <1>11, <1>12 DEF sub
<1>13. CASE ~Deletes(d)
  BY <1>1, <1>2, <1>6, <1>7, <1>8, <1>9, <1>10, <1>13 DEF sub
<1> QED  BY <1>12, <1>13

\* A turn that fails.
LEMMA CopyFailsIs ==
    ASSUME IInv, NEW d \in Dirs, NEW n \in 0 .. (Statements - 1), CopyFails(d, n)
    PROVE  LET sub == Head(left[d]) IN
           /\ pc[d] = "copy" /\ left[d] # <<>> /\ UNCHANGED <<job, queue>>
           /\ pc' = [pc EXCEPT ![d] = "done"]
           /\ sub \in Dirs /\ sub \in Kids(d)
           /\ db'[d].perm = db[d].perm /\ db'[d].isroll = db[d].isroll /\ db'[d].can = db[d].can
           /\ db'[d].roll \in {db[d].roll, Joined(db[d].roll, sub, db[sub].roll)}
           /\ db'[d].pent \in {db[d].pent, Joined(db[d].pent, sub, db[sub].pent)}
           /\ torn' = torn \cup {d} /\ left' = [left EXCEPT ![d] = <<>>]
           /\ \A e \in Dirs \ {d} : Same(e)
<1> DEFINE sub == Head(left[d])
           x == RollupChildProcess(db[d], sub, db[sub], n)
<1>1. /\ pc[d] = "copy" /\ left[d] # <<>> /\ UNCHANGED <<job, queue>>
      /\ pc' = [pc EXCEPT ![d] = "done"]
      /\ torn' = torn \cup {d} /\ left' = [left EXCEPT ![d] = <<>>]
      /\ db' = [db EXCEPT ![d] = x]
  BY DEF CopyFails, NotRolledUp, Done, pool
<1>2. sub \in Dirs /\ sub \in Kids(d) /\ RowsInv
  BY <1>1, HeadOfLeft DEF IInv
<1>3. DOMAIN db[d] = Fields /\ DOMAIN db[sub] = Fields
  BY <1>2 DEF RowsInv
<1>4. /\ x.perm = db[d].perm /\ x.isroll = db[d].isroll /\ x.can = db[d].can
      /\ x.roll \in {db[d].roll, Joined(db[d].roll, sub, db[sub].roll)}
      /\ x.pent \in {db[d].pent, Joined(db[d].pent, sub, db[sub].pent)}
  <2>1. n \in Nat
    BY DEF Statements
  <2> HIDE DEF sub
  <2> QED  BY <1>3, <2>1, RollupChildIs
<1> HIDE DEF x
<1>5. db'[d] = x /\ \A e \in Dirs \ {d} : db'[e] = db[e]
  BY <1>1, <1>2 DEF RowsInv
<1>6. \A e \in Dirs \ {d} : Same(e)
  BY <1>5 DEF Same
<1> QED  BY <1>1, <1>2, <1>4, <1>5, <1>6

\* A step that leaves the copies where they are, and forgets no directory
\* that is copying.
Rests ==
    /\ \A e \in Dirs : Same(e)
    /\ torn \subseteq torn' /\ torn' \subseteq torn \cup Dirs
    /\ \A e \in Dirs : pc'[e] = "copy" => pc[e] = "copy" /\ left'[e] = left[e] /\ UNCHANGED job
    /\ \A e \in Dirs : pc[e] = "copy" /\ pc'[e] # "copy" => left[e] = <<>> \/ e \in torn'

\* The steps that start and end programs, and those that only read.
Others ==
    \/ \E o \in Options, h \in Dirs \cup {NoDir} : Start(o, h)
    \/ \E d \in Dirs, i \in BOOLEAN : UnrollupFails(d, i)
    \/ \E d \in Dirs : TreesummaryDirFails(d) \/ \E t \in Threads : TreesummaryDir(d, t)
    \/ ComputeTreesummary \/ End \/ Crash \/ UNCHANGED vars

LEMMA RestIs ==
    ASSUME IInv, (\E d \in Dirs : Settles(d)) \/ Others
    PROVE  Rests
<1>0. RowsInv /\ Root \in Dirs
  BY TreeAssumption DEF IInv
<1>1. CASE \E d \in Dirs : Settles(d)
  <2>1. PICK d \in Dirs : Settles(d)
    BY <1>1
  <2>2. /\ \A e \in Dirs : Same(e)
        /\ pc[d] = "todo" \/ (pc[d] = "copy" /\ left[d] = <<>>)
        /\ pc' = [pc EXCEPT ![d] = "done"] /\ UNCHANGED <<job, left, torn>>
    BY <1>0, <2>1, SettleIs
  <2>3. pc \in [Dirs -> {"out", "todo", "copy", "done", "hung"}]
    BY DEF IInv, WalkTypes
  <2>4. pc'[d] = "done" /\ \A e \in Dirs \ {d} : pc'[e] = pc[e]
    BY <2>2, <2>3
  <2> QED  BY <2>2, <2>4 DEF Rests
<1>2. ASSUME UNCHANGED db PROVE \A e \in Dirs : Same(e)
  BY <1>2 DEF Same
<1>3. ASSUME NEW o \in Options, NEW h \in Dirs \cup {NoDir}, Start(o, h) PROVE Rests
  <2>1. job = NoJob /\ UNCHANGED <<db, torn>>
    BY <1>3 DEF Start
  <2>2. \A e \in Dirs : pc[e] = "out"
    BY <2>1 DEF IInv, LogInv
  <2>3. \A e \in Dirs : pc'[e] # "copy"
    BY <1>3 DEF Start
  <2> QED  BY <1>2, <2>1, <2>2, <2>3 DEF Rests
<1>4. CASE \/ \E d \in Dirs, i \in BOOLEAN : UnrollupFails(d, i)
           \/ \E d \in Dirs : TreesummaryDirFails(d) \/ \E t \in Threads : TreesummaryDir(d, t)
           \/ UNCHANGED vars
  <2>1. UNCHANGED <<db, job, pc, left, torn>>
    BY <1>4 DEF UnrollupFails, TreesummaryDirFails, TreesummaryDir, vars, walk
  <2> QED  BY <1>2, <2>1 DEF Rests
<1>5. CASE ComputeTreesummary
  <2>1. /\ Running("treesummary") /\ UNCHANGED torn /\ pc' = [d \in Dirs |-> "out"]
        /\ \/ \E sum : db' = [db EXCEPT ![Root] =
                                Inserttreesumdb(Root, CreateTreesummaryTables(db[Root]), sum)]
           \/ UNCHANGED db
    BY <1>5 DEF ComputeTreesummary, Gone
  <2>2. \A e \in Dirs : pc[e] # "copy" /\ pc'[e] # "copy"
    BY <2>1 DEF IInv, CopyInv, Running
  <2>3. \E y : KeepsMark(db[Root], y) /\ (db' = [db EXCEPT ![Root] = y] \/ UNCHANGED db)
    <3> DEFINE x == CreateTreesummaryTables(db[Root])
    <3>1. KeepsMark(db[Root], db[Root]) /\ KeepsMark(db[Root], x) /\ DOMAIN x = Fields
      BY <1>0, SummaryKeepsMark DEF RowsInv, KeepsMark, Keeps
    <3> HIDE DEF x
    <3>2. \A sum : KeepsMark(x, Inserttreesumdb(Root, x, sum))
      BY <3>1, SummaryKeepsMark
    <3>3. \A sum : KeepsMark(db[Root], Inserttreesumdb(Root, x, sum))
      BY <3>1, <3>2, KeepsMarkOn
    <3> QED  BY <2>1, <3>1, <3>3 DEF x
  <2>4. PICK y : KeepsMark(db[Root], y) /\ (db' = [db EXCEPT ![Root] = y] \/ UNCHANGED db)
    BY <2>3
  <2>5. \A e \in Dirs : Same(e)
    BY <1>0, <2>4, OneIsSame
  <2> QED  BY <2>1, <2>2, <2>5 DEF Rests
<1>6. CASE End
  <2>1. /\ UNCHANGED <<db, torn>> /\ \A e \in Dirs : pc[e] # "copy"
        /\ pc' = [d \in Dirs |-> "out"]
    BY <1>6 DEF End, Gone
  <2> QED  BY <1>2, <2>1 DEF Rests
<1>7. CASE Crash
  <2>1. /\ UNCHANGED db /\ pc' = [d \in Dirs |-> "out"]
        /\ torn' = torn \cup {d \in Dirs : pc[d] = "copy"}
    BY <1>7 DEF Crash, Gone
  <2> QED  BY <1>2, <2>1 DEF Rests
<1> QED  BY <1>1, <1>3, <1>4, <1>5, <1>6, <1>7 DEF Others

\* There are six kinds of steps.
LEMMA StepKinds ==
    ASSUME [Next]_vars
    PROVE  \/ (\E d \in Dirs : Settles(d)) \/ Others
           \/ \E d \in Dirs : AscendInit(d) \/ InitFails(d)
           \/ \E d \in Dirs, n \in 0 .. Statements : CopyChild(d, n)
           \/ \E d \in Dirs, n \in 0 .. (Statements - 1) : CopyFails(d, n)
           \/ \E d \in Dirs, i \in BOOLEAN : UnrollupDir(d, i)
BY DEF Next, Settles, Others

-----------------------------------------------------------------------------
(* Marks                                                                   *)

\* A mark counts, and a directory that is not marked has no copies, but for
\* the entries that deleting left behind.
MarkInv ==
    /\ torn \subseteq Dirs
    /\ \A d \in Dirs :
          /\ db[d].isroll => db[d].can
          /\ ~db[d].isroll => db[d].roll = <<>> /\ (db[d].pent = <<>> \/ d \in torn)
          /\ pc[d] = "copy" => db[d].isroll /\ ~job.dry_run

\* What a roll-up does to the walk when it begins, or fails to.
LEMMA InitWalk ==
    ASSUME WalkTypes, NEW d \in Dirs, AscendInit(d) \/ InitFails(d)
    PROVE  /\ torn' = torn \ {d} \/ torn' = torn \cup {d}
           /\ d \notin torn' => AscendInit(d) \/ ~db[d].isroll
           /\ \A e \in Dirs \ {d} : pc'[e] = pc[e] /\ left'[e] = left[e] /\ rolledup'[e] = rolledup[e]
           /\ \/ pc'[d] = "copy" /\ left'[d] = Subdirs[d] /\ rolledup'[d] = rolledup[d] /\ AscendInit(d)
              \/ pc'[d] = "done" /\ rolledup'[d] = FALSE
<1>1. CASE AscendInit(d)
  <2>1. /\ torn' = torn \ {d} /\ rolledup' = rolledup
        /\ pc' = [pc EXCEPT ![d] = "copy"] /\ left' = [left EXCEPT ![d] = Subdirs[d]]
    BY <1>1 DEF AscendInit
  <2> QED  BY <1>1, <2>1 DEF WalkTypes
<1>2. CASE ~AscendInit(d) /\ InitFails(d)
  <2>1. /\ torn' = (IF db[d].isroll THEN torn \cup {d} ELSE torn \ {d}) /\ left' = left
        /\ pc' = [pc EXCEPT ![d] = "done"] /\ rolledup' = [rolledup EXCEPT ![d] = FALSE]
    BY <1>2 DEF InitFails, NotRolledUp, Done
  <2> QED  BY <1>2, <2>1 DEF WalkTypes
<1> QED  BY <1>1, <1>2

LEMMA MarkRests ==
    ASSUME IInv, MarkInv, Rests
    PROVE  MarkInv'
BY DEF MarkInv, Rests, Same

LEMMA MarkInit ==
    ASSUME IInv, MarkInv, NEW d \in Dirs, AscendInit(d) \/ InitFails(d)
    PROVE  MarkInv'
<1>1. RowsInv /\ WalkTypes
  BY DEF IInv
<1>2. PICK mark \in BOOLEAN : /\ Emptied(d, mark)
                              /\ mark = IF AscendInit(d) THEN TRUE ELSE db[d].isroll
  BY <1>1, InitIs
<1>3. /\ \A e \in Dirs \ {d} : Same(e)
      /\ ~job.dry_run /\ UNCHANGED job
  BY <1>1, InitIs
<1>4. /\ torn' = torn \ {d} \/ torn' = torn \cup {d}
      /\ \A e \in Dirs \ {d} : pc'[e] = pc[e]
      /\ pc'[d] = "copy" => AscendInit(d)
  BY <1>1, InitWalk
<1>5. ASSUME NEW e \in Dirs
      PROVE  /\ db'[e].isroll => db'[e].can
             /\ ~db'[e].isroll => db'[e].roll = <<>> /\ (db'[e].pent = <<>> \/ e \in torn')
             /\ pc'[e] = "copy" => db'[e].isroll /\ ~job'.dry_run
  <2>1. CASE e = d
    BY <1>2, <1>3, <1>4, <2>1 DEF MarkInv, Emptied
  <2>2. CASE e # d
    BY <1>3, <1>4, <2>2 DEF MarkInv, Same
  <2> QED  BY <2>1, <2>2
<1>6. torn' \subseteq Dirs
  BY <1>4 DEF MarkInv
<1> QED  BY <1>5, <1>6 DEF MarkInv

LEMMA MarkCopy ==
    ASSUME IInv, MarkInv, NEW d \in Dirs, NEW n \in 0 .. Statements, CopyChild(d, n)
    PROVE  MarkInv'
<1> DEFINE sub == Head(left[d])
<1>1. /\ pc[d] = "copy" /\ UNCHANGED <<job, pc>>
      /\ sub \in Dirs /\ sub # d /\ pc[sub] \in {"done", "out"}
      /\ db'[d].isroll = db[d].isroll /\ db'[d].can = db[d].can
      /\ db'[sub].can = db[sub].can
      /\ \A e \in Dirs \ {d, sub} : Same(e)
  BY CopyChildIs
<1>2. \/ db'[sub] = db[sub] /\ torn' = torn \cup (IF sub \in torn THEN {d} ELSE {})
      \/ /\ Deleted(db[sub], db'[sub], n)
         /\ torn' = (IF n = Statements THEN torn \ {sub} ELSE torn)
                    \cup (IF sub \in torn THEN {d} ELSE {})
                    \cup (IF n \in {1, 2} THEN {sub} ELSE {})
  BY CopyChildIs
<1> HIDE DEF sub
<1>3. torn' \subseteq Dirs /\ torn \ {sub} \subseteq torn'
  BY <1>1, <1>2 DEF MarkInv
<1>4. /\ db'[sub].isroll => db'[sub].can
      /\ ~db'[sub].isroll => db'[sub].roll = <<>> /\ (db'[sub].pent = <<>> \/ sub \in torn')
  <2>1. CASE db'[sub] = db[sub] /\ torn \subseteq torn'
    BY <1>1, <2>1 DEF MarkInv
  <2>2. CASE /\ Deleted(db[sub], db'[sub], n)
             /\ torn' = (IF n = Statements THEN torn \ {sub} ELSE torn)
                    \cup (IF sub \in torn THEN {d} ELSE {})
                    \cup (IF n \in {1, 2} THEN {sub} ELSE {})
    <3>1. n \in {0, 1, 2, 3}
      BY DEF Statements
    <3>2. CASE n = 0
      BY <1>1, <2>2, <3>2 DEF MarkInv, Deleted, Statements
    <3>3. CASE n = 1
      BY <1>1, <2>2, <3>3 DEF MarkInv, Deleted, Statements
    <3>4. CASE n = 2
      BY <1>1, <2>2, <3>4 DEF MarkInv, Deleted, Statements
    <3>5. CASE n = 3
      BY <1>1, <2>2, <3>5 DEF MarkInv, Deleted, Statements
    <3> QED  BY <3>1, <3>2, <3>3, <3>4, <3>5
  <2> QED  BY <1>2, <2>1, <2>2
<1>5. ASSUME NEW e \in Dirs
      PROVE  /\ db'[e].isroll => db'[e].can
             /\ ~db'[e].isroll => db'[e].roll = <<>> /\ (db'[e].pent = <<>> \/ e \in torn')
             /\ pc'[e] = "copy" => db'[e].isroll /\ ~job'.dry_run
  <2>1. CASE e = d
    BY <1>1, <2>1 DEF MarkInv
  <2>2. CASE e = sub
    BY <1>1, <1>4, <2>2
  <2>3. CASE e \notin {d, sub}
    BY <1>1, <1>3, <2>3 DEF MarkInv, Same
  <2> QED  BY <2>1, <2>2, <2>3
<1> QED  BY <1>3, <1>5 DEF MarkInv

LEMMA MarkCopyFails ==
    ASSUME IInv, MarkInv, NEW d \in Dirs, NEW n \in 0 .. (Statements - 1), CopyFails(d, n)
    PROVE  MarkInv'
<1>1. /\ pc[d] = "copy" /\ UNCHANGED job
      /\ pc' = [pc EXCEPT ![d] = "done"]
      /\ db'[d].isroll = db[d].isroll /\ db'[d].can = db[d].can
      /\ torn' = torn \cup {d}
      /\ \A e \in Dirs \ {d} : Same(e)
  BY CopyFailsIs
<1>2. \A e \in Dirs : pc'[e] = "copy" => pc[e] = "copy"
  BY <1>1 DEF IInv, WalkTypes
<1>3. ASSUME NEW e \in Dirs
      PROVE  /\ db'[e].isroll => db'[e].can
             /\ ~db'[e].isroll => db'[e].roll = <<>> /\ (db'[e].pent = <<>> \/ e \in torn')
             /\ pc'[e] = "copy" => db'[e].isroll /\ ~job'.dry_run
  <2>1. CASE e = d
    BY <1>1, <1>2, <2>1 DEF MarkInv
  <2>2. CASE e # d
    BY <1>1, <1>2, <2>2 DEF MarkInv, Same
  <2> QED  BY <2>1, <2>2
<1> QED  BY <1>1, <1>3 DEF MarkInv

\* While gufi_unrollup runs nothing is being copied.
LEMMA NoCopying ==
    ASSUME IInv, ~Running("rollup")
    PROVE  \A d \in Dirs : pc[d] # "copy"
BY DEF IInv, CopyInv

LEMMA MarkUnrollup ==
    ASSUME IInv, MarkInv, NEW d \in Dirs, NEW i \in BOOLEAN, UnrollupDir(d, i)
    PROVE  MarkInv'
<1>1. /\ \A e \in Dirs \ {d} : Same(e)
      /\ \/ Emptied(d, FALSE) /\ torn' = torn \ {d}
         \/ Same(d) /\ torn' = torn
      /\ Running("unrollup") /\ UNCHANGED <<job, walk>>
  BY UnrollupDirIs DEF IInv
<1>2. \A e \in Dirs : pc'[e] # "copy"
  BY <1>1, NoCopying DEF Running, walk
<1>3. ASSUME NEW e \in Dirs
      PROVE  /\ db'[e].isroll => db'[e].can
             /\ ~db'[e].isroll => db'[e].roll = <<>> /\ (db'[e].pent = <<>> \/ e \in torn')
  BY <1>1 DEF MarkInv, Emptied, Same
<1> QED  BY <1>1, <1>2, <1>3 DEF MarkInv

LEMMA MarkNext ==
    ASSUME IInv, MarkInv, [Next]_vars
    PROVE  MarkInv'
BY StepKinds, RestIs, MarkRests, MarkInit, MarkCopy, MarkCopyFails, MarkUnrollup

-----------------------------------------------------------------------------
(* Copies                                                                  *)

\* A list of directories below d, each of them once
Part(d, s) == IsInjective(s) /\ ToSet(s) \subseteq Below[d]

\* What has been copied when some subdirectories are left: nothing of those,
\* and unless something was lost, everything of the others.
CopiedBut(d, s, rest, whole) ==
    /\ \A k \in rest : ToSet(s) \cap Under(k) = {}
    /\ whole => \A k \in Kids(d) \ rest : Under(k) \subseteq ToSet(s)

CopiedRows(d) ==
    /\ Part(d, db[d].roll) /\ Part(d, db[d].pent)
    /\ db[d].isroll /\ d \notin torn /\ pc[d] # "copy" =>
           ToSet(db[d].roll) = Below[d] /\ ToSet(db[d].pent) = Below[d]
    /\ pc[d] = "copy" =>
           /\ \A k \in ToSet(left[d]) : db[k].isroll
           /\ CopiedBut(d, db[d].roll, ToSet(left[d]), d \notin torn)
           /\ CopiedBut(d, db[d].pent, ToSet(left[d]), d \notin torn)
CopiedInv == \A d \in Dirs : CopiedRows(d)

\* What gufi_rollup remembers of the subdirectories is in the index, until
\* the directory above copies them.
MemInv ==
    Running("rollup") /\ ~job.dry_run =>
        \A d \in Dirs : pc[d] \notin {"copy", "done"} =>
            \A k \in Kids(d) : rolledup[k] => db[k].isroll

\* Nothing is left to copy.
LEMMA CopiedAll ==
    ASSUME NEW d \in Dirs, NEW s, Part(d, s), CopiedBut(d, s, {}, TRUE)
    PROVE  ToSet(s) = Below[d]
BY BelowIsUnder DEF Part, CopiedBut

\* One more subdirectory has been copied.
LEMMA JoinedIsPart ==
    ASSUME NEW d \in Dirs, NEW c \in Kids(d), NEW s \in Seq(Dirs), NEW t \in Seq(Dirs),
           Part(d, s), Part(c, t), ToSet(s) \cap Under(c) = {}
    PROVE  Part(d, Joined(s, c, t))
<1>1. c \in Dirs /\ c \in Below[d] /\ Below[c] \subseteq Below[d] /\ c \notin Below[c]
  BY TreeIs, BelowIs, BelowBelow, NoCycle
<1>2. /\ ToSet(Joined(s, c, t)) = ToSet(s) \cup ({c} \cup ToSet(t))
      /\ IsInjective(Joined(s, c, t))
  BY <1>1, JoinedSet DEF Part, Under
<1> QED  BY <1>1, <1>2 DEF Part

LEMMA JoinedIsCopied ==
    ASSUME NEW d \in Dirs, NEW c \in Kids(d), NEW s \in Seq(Dirs), NEW t \in Seq(Dirs),
           NEW rest \in SUBSET Kids(d), c \in rest, Part(c, t),
           NEW whole \in BOOLEAN, NEW still \in BOOLEAN, CopiedBut(d, s, rest, whole),
           still => whole /\ ToSet(t) = Below[c]
    PROVE  CopiedBut(d, Joined(s, c, t), rest \ {c}, still)
<1>1. c \in Dirs
  BY TreeIs
<1>2. ToSet(Joined(s, c, t)) = ToSet(s) \cup ({c} \cup ToSet(t))
  BY <1>1, JoinedSet
<1>3. ToSet(t) \cup {c} \subseteq Under(c)
  BY DEF Part, Under
<1>4. ASSUME NEW k \in rest \ {c} PROVE ToSet(Joined(s, c, t)) \cap Under(k) = {}
  <2>1. Under(c) \cap Under(k) = {}
    BY KidsApart
  <2>2. ToSet(s) \cap Under(k) = {}
    BY DEF CopiedBut
  <2> QED  BY <1>2, <1>3, <2>1, <2>2
<1>5. ASSUME still, NEW k \in Kids(d) \ (rest \ {c}) PROVE Under(k) \subseteq ToSet(Joined(s, c, t))
  <2>1. CASE k = c
    BY <1>2, <1>5, <2>1 DEF Under
  <2>2. CASE k # c
    BY <1>2, <1>5, <2>2 DEF CopiedBut
  <2> QED  BY <2>1, <2>2
<1> QED  BY <1>4, <1>5 DEF CopiedBut

\* Nobody's copies change.
LEMMA CopiedKeeps ==
    ASSUME IInv, CopiedInv, NEW e \in Dirs, Same(e), e \in torn => e \in torn',
           pc'[e] = "copy" => /\ pc[e] = "copy" /\ left'[e] = left[e]
                              /\ \A k \in ToSet(left[e]) : db'[k].isroll,
           pc[e] = "copy" /\ pc'[e] # "copy" => left[e] = <<>> \/ e \in torn'
    PROVE  CopiedRows(e)'
<1>0. CopiedRows(e) /\ db'[e].roll = db[e].roll /\ db'[e].pent = db[e].pent
      /\ db'[e].isroll = db[e].isroll
  BY DEF CopiedInv, Same
<1>1. Part(e, db'[e].roll) /\ Part(e, db'[e].pent)
  BY <1>0 DEF CopiedRows
<1>2. ASSUME db'[e].isroll, e \notin torn', pc'[e] # "copy"
      PROVE  ToSet(db'[e].roll) = Below[e] /\ ToSet(db'[e].pent) = Below[e]
  <2>1. CASE pc[e] # "copy"
    BY <1>0, <1>2, <2>1 DEF CopiedRows
  <2>2. CASE pc[e] = "copy"
    <3>1. e \notin torn /\ ToSet(left[e]) = {}
      BY <1>2, <2>2, EmptyList
    <3>2. CopiedBut(e, db[e].roll, {}, TRUE) /\ CopiedBut(e, db[e].pent, {}, TRUE)
      BY <1>0, <2>2, <3>1 DEF CopiedRows, CopiedBut
    <3> QED  BY <1>0, <1>1, <3>2, CopiedAll
  <2> QED  BY <2>1, <2>2
<1>3. ASSUME pc'[e] = "copy"
      PROVE  /\ \A k \in ToSet(left'[e]) : db'[k].isroll
             /\ CopiedBut(e, db'[e].roll, ToSet(left'[e]), e \notin torn')
             /\ CopiedBut(e, db'[e].pent, ToSet(left'[e]), e \notin torn')
  BY <1>0, <1>3 DEF CopiedRows, CopiedBut
<1> QED  BY <1>1, <1>2, <1>3 DEF CopiedRows

\* An empty directory has copied nothing.
LEMMA NothingCopied ==
    ASSUME NEW d \in Dirs
    PROVE  Part(d, <<>>) /\ \A whole : CopiedBut(d, <<>>, Kids(d), whole)
BY EmptyList DEF Part, CopiedBut

\* A directory that is copying copies from its own subdirectories.
LEMMA LeftIs ==
    ASSUME IInv, NEW d \in Dirs, pc[d] = "copy"
    PROVE  ToSet(left[d]) \subseteq Kids(d) /\ IsInjective(left[d]) /\ left[d] \in Seq(Dirs)
BY DEF IInv, CopyInv, WalkTypes, ToSet

LEMMA CopiedRests ==
    ASSUME IInv, CopiedInv, Rests
    PROVE  CopiedInv'
<1> SUFFICES ASSUME NEW e \in Dirs PROVE CopiedRows(e)'
  BY DEF CopiedInv
<1>1. /\ \A d \in Dirs : Same(d)
      /\ e \in torn => e \in torn'
      /\ pc'[e] = "copy" => pc[e] = "copy" /\ left'[e] = left[e]
      /\ pc[e] = "copy" /\ pc'[e] # "copy" => left[e] = <<>> \/ e \in torn'
  BY DEF Rests
<1>2. pc[e] = "copy" => \A k \in ToSet(left[e]) : db'[k].isroll
  <2> SUFFICES ASSUME pc[e] = "copy", NEW k \in ToSet(left[e]) PROVE db'[k].isroll
    OBVIOUS
  <2>1. k \in Dirs /\ db[k].isroll
    BY LeftIs, TreeIs DEF CopiedInv, CopiedRows
  <2> QED  BY <1>1, <2>1 DEF Same
<1> QED  BY <1>1, <1>2, CopiedKeeps

LEMMA CopiedInit ==
    ASSUME IInv, MarkInv, CopiedInv, MemInv, NEW d \in Dirs, AscendInit(d) \/ InitFails(d)
    PROVE  CopiedInv'
<1>1. RowsInv /\ WalkTypes
  BY DEF IInv
<1>2. PICK mark \in BOOLEAN : /\ Emptied(d, mark)
                              /\ mark = IF AscendInit(d) THEN TRUE ELSE db[d].isroll
  BY <1>1, InitIs
<1>3. /\ \A e \in Dirs \ {d} : Same(e)
      /\ Running("rollup") /\ pc[d] = "todo" /\ ~job.dry_run /\ CanRollup(d)
  BY <1>1, InitIs
<1>4. /\ torn' = torn \ {d} \/ torn' = torn \cup {d}
      /\ d \notin torn' => AscendInit(d) \/ ~db[d].isroll
      /\ \A e \in Dirs \ {d} : pc'[e] = pc[e] /\ left'[e] = left[e]
      /\ \/ pc'[d] = "copy" /\ left'[d] = Subdirs[d] /\ AscendInit(d)
         \/ pc'[d] = "done"
  BY <1>1, InitWalk
<1>5. CopiedRows(d)'
  <2>1. db'[d].roll = <<>> /\ db'[d].pent = <<>> /\ db'[d].isroll = mark
    BY <1>2 DEF Emptied
  <2>2. Part(d, db'[d].roll) /\ Part(d, db'[d].pent)
    BY <2>1, NothingCopied
  <2>3. ASSUME db'[d].isroll, d \notin torn', pc'[d] # "copy" PROVE FALSE
    <3>1. AscendInit(d)
      BY <1>2, <1>4, <2>1, <2>3
    <3>2. pc' = [pc EXCEPT ![d] = "copy"]
      BY <3>1 DEF AscendInit
    <3> QED  BY <1>1, <2>3, <3>2 DEF WalkTypes
  <2>4. ASSUME pc'[d] = "copy"
        PROVE  /\ \A k \in ToSet(left'[d]) : db'[k].isroll
               /\ CopiedBut(d, db'[d].roll, ToSet(left'[d]), d \notin torn')
               /\ CopiedBut(d, db'[d].pent, ToSet(left'[d]), d \notin torn')
    <3>1. left'[d] = Subdirs[d] /\ ToSet(left'[d]) = Kids(d)
      BY <1>4, <2>4 DEF Kids
    <3>2. ASSUME NEW k \in Kids(d) PROVE db'[k].isroll
      <4>1. k \in Dirs \ {d}
        BY AboveKid
      <4>2. rolledup[k] /\ db[k].isroll
        BY <1>3 DEF CanRollup, MemInv
      <4> QED  BY <1>3, <4>1, <4>2 DEF Same
    <3> QED  BY <2>1, <3>1, <3>2, NothingCopied
  <2> QED  BY <2>2, <2>3, <2>4 DEF CopiedRows
<1>6. ASSUME NEW e \in Dirs, e # d PROVE CopiedRows(e)'
  <2>1. pc[e] = "copy" => \A k \in ToSet(left[e]) : db'[k].isroll
    <3> SUFFICES ASSUME pc[e] = "copy", NEW k \in ToSet(left[e]) PROVE db'[k].isroll
      OBVIOUS
    <3>1. k \in Dirs /\ db[k].isroll
      BY LeftIs, TreeIs DEF CopiedInv, CopiedRows
    <3>2. CASE k = d
      BY <1>2, <3>1, <3>2 DEF Emptied
    <3>3. CASE k # d
      BY <1>3, <3>1, <3>3 DEF Same
    <3> QED  BY <3>2, <3>3
  <2> QED  BY <1>3, <1>4, <1>6, <2>1, CopiedKeeps
<1> QED  BY <1>5, <1>6 DEF CopiedInv

\* The directory that copies, and the one that is copied
LEMMA CopiedOne ==
    ASSUME IInv, MarkInv, CopiedInv, NEW d \in Dirs, NEW n \in 0 .. Statements, CopyChild(d, n),
           NEW sub \in Dirs, sub = Head(left[d])
    PROVE  CopiedRows(d)' /\ CopiedRows(sub)'
<1>1. /\ pc[d] = "copy" /\ left[d] # <<>> /\ UNCHANGED <<job, pc>>
      /\ sub \in Dirs /\ sub \in Kids(d) /\ sub # d /\ pc[sub] \in {"done", "out"}
      /\ db'[d].isroll = db[d].isroll
      /\ db'[d].roll = Joined(db[d].roll, sub, db[sub].roll)
      /\ db'[d].pent = Joined(db[d].pent, sub, db[sub].pent)
      /\ \A e \in Dirs \ {d, sub} : Same(e)
  BY CopyChildIs
<1>2. \/ db'[sub] = db[sub] /\ torn' = torn \cup (IF sub \in torn THEN {d} ELSE {})
      \/ /\ Deleted(db[sub], db'[sub], n)
         /\ torn' = (IF n = Statements THEN torn \ {sub} ELSE torn)
                    \cup (IF sub \in torn THEN {d} ELSE {})
                    \cup (IF n \in {1, 2} THEN {sub} ELSE {})
  BY CopyChildIs
<1>3. left' = [left EXCEPT ![d] = Tail(left[d])]
  BY CopyChildIs
<1>4. /\ ToSet(left[d]) \subseteq Kids(d) /\ IsInjective(left[d]) /\ left[d] \in Seq(Dirs)
  BY <1>1, LeftIs
<1>5. sub \in ToSet(left[d]) /\ ToSet(Tail(left[d])) = ToSet(left[d]) \ {sub}
  BY <1>1, <1>4, HeadTailSet
<1>6. left'[d] = Tail(left[d])
  BY <1>3 DEF IInv, WalkTypes
<1>7. CopiedRows(d) /\ CopiedRows(sub) /\ db[sub].isroll
  <2>1. CopiedRows(d) /\ CopiedRows(sub)
    BY <1>1 DEF CopiedInv
  <2> QED  BY <1>1, <1>5, <2>1 DEF CopiedRows
<1>8. /\ db[d].roll \in Seq(Dirs) /\ db[d].pent \in Seq(Dirs)
      /\ db[sub].roll \in Seq(Dirs) /\ db[sub].pent \in Seq(Dirs)
  BY <1>1 DEF IInv, RowsInv
<1>9. d \notin torn' => d \notin torn /\ sub \notin torn
  BY <1>1, <1>2
<1>10. sub \notin torn => ToSet(db[sub].roll) = Below[sub] /\ ToSet(db[sub].pent) = Below[sub]
  BY <1>1, <1>7 DEF CopiedRows
<1>11. CopiedRows(d)'
  <2>1. Part(d, db'[d].roll) /\ Part(d, db'[d].pent)
    <3>1. ToSet(db[d].roll) \cap Under(sub) = {} /\ ToSet(db[d].pent) \cap Under(sub) = {}
      BY <1>1, <1>5, <1>7 DEF CopiedRows, CopiedBut
    <3>2. Part(d, db[d].roll) /\ Part(d, db[d].pent) /\ Part(sub, db[sub].roll)
          /\ Part(sub, db[sub].pent)
      BY <1>7 DEF CopiedRows
    <3> QED  BY <1>1, <1>8, <3>1, <3>2, JoinedIsPart
  <2>2. \A k \in ToSet(left'[d]) : db'[k].isroll
    <3> SUFFICES ASSUME NEW k \in ToSet(left'[d]) PROVE db'[k].isroll
      OBVIOUS
    <3>1. k \in ToSet(left[d]) /\ k # sub
      BY <1>5, <1>6
    <3>2. k \in Dirs /\ k # d
      BY <1>4, <3>1, AboveKid
    <3>3. db[k].isroll
      BY <1>1, <1>7, <3>1 DEF CopiedRows
    <3> QED  BY <1>1, <3>1, <3>2, <3>3 DEF Same
  <2>3. /\ CopiedBut(d, db'[d].roll, ToSet(left'[d]), d \notin torn')
        /\ CopiedBut(d, db'[d].pent, ToSet(left'[d]), d \notin torn')
    <3> DEFINE rest == ToSet(left[d])
               whole == d \notin torn
               still == d \notin torn'
    <3>1. CopiedBut(d, db[d].roll, rest, whole) /\ CopiedBut(d, db[d].pent, rest, whole)
      BY <1>1, <1>7 DEF CopiedRows
    <3>2. Part(sub, db[sub].roll) /\ Part(sub, db[sub].pent)
      BY <1>7 DEF CopiedRows
    <3>3. /\ still => whole /\ ToSet(db[sub].roll) = Below[sub]
          /\ still => whole /\ ToSet(db[sub].pent) = Below[sub]
      BY <1>9, <1>10
    <3>4. rest \in SUBSET Kids(d) /\ sub \in rest /\ whole \in BOOLEAN /\ still \in BOOLEAN
      BY <1>4, <1>5
    <3> HIDE DEF rest, whole, still
    <3>5. ASSUME NEW s \in Seq(Dirs), NEW t \in Seq(Dirs), Part(sub, t),
                 CopiedBut(d, s, rest, whole), still => whole /\ ToSet(t) = Below[sub]
          PROVE  CopiedBut(d, Joined(s, sub, t), rest \ {sub}, still)
      BY <1>1, <3>4, <3>5, JoinedIsCopied
    <3>6. CopiedBut(d, Joined(db[d].roll, sub, db[sub].roll), rest \ {sub}, still)
      BY <1>8, <3>1, <3>2, <3>3, <3>5
    <3>7. CopiedBut(d, Joined(db[d].pent, sub, db[sub].pent), rest \ {sub}, still)
      BY <1>8, <3>1, <3>2, <3>3, <3>5
    <3> QED  BY <1>1, <1>5, <1>6, <3>6, <3>7 DEF rest, still
  <2>4. pc'[d] = "copy"
    BY <1>1
  <2> QED  BY <2>1, <2>2, <2>3, <2>4 DEF CopiedRows
<1>12. CopiedRows(sub)'
  <2>1. pc'[sub] # "copy"
    BY <1>1
  <2>2. CASE db'[sub] = db[sub] /\ torn' = torn \cup (IF sub \in torn THEN {d} ELSE {})
    BY <1>1, <1>7, <2>1, <2>2 DEF CopiedRows
  <2>3. CASE /\ Deleted(db[sub], db'[sub], n)
             /\ torn' = (IF n = Statements THEN torn \ {sub} ELSE torn)
                    \cup (IF sub \in torn THEN {d} ELSE {})
                    \cup (IF n \in {1, 2} THEN {sub} ELSE {})
    <3>1. Part(sub, <<>>)
      BY <1>1, NothingCopied
    <3>2. Part(sub, db'[sub].roll) /\ Part(sub, db'[sub].pent)
      BY <1>7, <2>3, <3>1 DEF CopiedRows, Deleted
    <3>3. n \in {0, 1, 2, 3}
      BY DEF Statements
    <3>4. CASE n = 0
      <4>1. /\ db'[sub].roll = db[sub].roll /\ db'[sub].pent = db[sub].pent
            /\ db'[sub].isroll = db[sub].isroll
        BY <2>3, <3>4 DEF Deleted
      <4>2. sub \notin torn' => sub \notin torn
        BY <2>3, <3>4 DEF Statements
      <4> QED  BY <1>1, <1>7, <2>1, <3>2, <4>1, <4>2 DEF CopiedRows
    <3>5. CASE n \in {1, 2}
      <4>1. sub \in torn'
        BY <2>3, <3>5
      <4> QED  BY <2>1, <3>2, <4>1 DEF CopiedRows
    <3>6. CASE n = 3
      <4>1. ~db'[sub].isroll
        BY <2>3, <3>6 DEF Deleted
      <4> QED  BY <2>1, <3>2, <4>1 DEF CopiedRows
    <3> QED  BY <3>3, <3>4, <3>5, <3>6
  <2> QED  BY <1>2, <2>2, <2>3
<1> QED  BY <1>11, <1>12

LEMMA CopiedCopy ==
    ASSUME IInv, MarkInv, CopiedInv, NEW d \in Dirs, NEW n \in 0 .. Statements, CopyChild(d, n)
    PROVE  CopiedInv'
<1> DEFINE head == Head(left[d])
<1>0. PICK sub \in Dirs : sub = head
  BY CopyChildIs
<1>1. /\ pc[d] = "copy" /\ UNCHANGED <<job, pc>>
      /\ sub \in Kids(d)
      /\ db'[d].isroll = db[d].isroll
      /\ left' = [left EXCEPT ![d] = Tail(left[d])]
      /\ \A e \in Dirs \ {d, sub} : Same(e)
  BY <1>0, CopyChildIs
<1>2. torn \ {sub} \subseteq torn'
  BY <1>0, CopyChildIs
<1>3. CopiedRows(d)' /\ CopiedRows(sub)'
  BY <1>0, CopiedOne
<1> HIDE DEF head
<1>4. ASSUME NEW e \in Dirs, e # d, e # sub PROVE CopiedRows(e)'
  <2>1. pc[e] = "copy" => \A k \in ToSet(left[e]) : db'[k].isroll
    <3> SUFFICES ASSUME pc[e] = "copy", NEW k \in ToSet(left[e]) PROVE db'[k].isroll
      OBVIOUS
    <3>1. k \in Kids(e) /\ k \in Dirs /\ db[k].isroll
      BY LeftIs, TreeIs DEF CopiedInv, CopiedRows
    <3>2. k # sub
      BY <1>1, <1>4, <3>1, AboveKid
    <3> QED  BY <1>1, <3>1, <3>2 DEF Same
  <2>2. left'[e] = left[e] /\ pc'[e] = pc[e]
    BY <1>1, <1>4 DEF IInv, WalkTypes
  <2>3. Same(e) /\ (e \in torn => e \in torn')
    BY <1>1, <1>2, <1>4
  <2> QED  BY <2>1, <2>2, <2>3, CopiedKeeps
<1> QED  BY <1>3, <1>4 DEF CopiedInv

LEMMA CopiedCopyFails ==
    ASSUME IInv, MarkInv, CopiedInv, NEW d \in Dirs, NEW n \in 0 .. (Statements - 1),
           CopyFails(d, n)
    PROVE  CopiedInv'
<1> DEFINE sub == Head(left[d])
<1>1. /\ pc[d] = "copy" /\ left[d] # <<>>
      /\ pc' = [pc EXCEPT ![d] = "done"]
      /\ sub \in Dirs /\ sub \in Kids(d)
      /\ db'[d].isroll = db[d].isroll
      /\ db'[d].roll \in {db[d].roll, Joined(db[d].roll, sub, db[sub].roll)}
      /\ db'[d].pent \in {db[d].pent, Joined(db[d].pent, sub, db[sub].pent)}
      /\ torn' = torn \cup {d} /\ left' = [left EXCEPT ![d] = <<>>]
      /\ \A e \in Dirs \ {d} : Same(e)
  BY CopyFailsIs
<1>2. sub \in ToSet(left[d])
  BY <1>1, LeftIs, HeadTailSet
<1>3. CopiedRows(d) /\ CopiedRows(sub)
  BY <1>1 DEF CopiedInv
<1>4. /\ db[d].roll \in Seq(Dirs) /\ db[d].pent \in Seq(Dirs)
      /\ db[sub].roll \in Seq(Dirs) /\ db[sub].pent \in Seq(Dirs)
  BY <1>1 DEF IInv, RowsInv
<1>5. /\ \A e \in Dirs \ {d} : pc'[e] = pc[e] /\ left'[e] = left[e]
      /\ pc'[d] = "done"
  BY <1>1 DEF IInv, WalkTypes
<1> HIDE DEF sub
<1>6. CopiedRows(d)'
  <2>1. ToSet(db[d].roll) \cap Under(sub) = {} /\ ToSet(db[d].pent) \cap Under(sub) = {}
    BY <1>1, <1>2, <1>3 DEF CopiedRows, CopiedBut
  <2>2. Part(d, db[d].roll) /\ Part(d, db[d].pent) /\ Part(sub, db[sub].roll)
        /\ Part(sub, db[sub].pent)
    BY <1>3 DEF CopiedRows
  <2>3. Part(d, Joined(db[d].roll, sub, db[sub].roll)) /\ Part(d, Joined(db[d].pent, sub, db[sub].pent))
    BY <1>1, <1>4, <2>1, <2>2, JoinedIsPart
  <2>4. Part(d, db'[d].roll) /\ Part(d, db'[d].pent)
    BY <1>1, <2>2, <2>3
  <2> QED  BY <1>1, <1>5, <2>4 DEF CopiedRows
<1>7. ASSUME NEW e \in Dirs, e # d PROVE CopiedRows(e)'
  <2>1. pc[e] = "copy" => \A k \in ToSet(left[e]) : db'[k].isroll
    <3> SUFFICES ASSUME pc[e] = "copy", NEW k \in ToSet(left[e]) PROVE db'[k].isroll
      OBVIOUS
    <3>1. k \in Dirs /\ db[k].isroll
      BY LeftIs, TreeIs DEF CopiedInv, CopiedRows
    <3> QED  BY <1>1, <3>1 DEF Same
  <2> QED  BY <1>1, <1>5, <1>7, <2>1, CopiedKeeps
<1> QED  BY <1>6, <1>7 DEF CopiedInv

LEMMA CopiedUnrollup ==
    ASSUME IInv, CopiedInv, NEW d \in Dirs, NEW i \in BOOLEAN, UnrollupDir(d, i)
    PROVE  CopiedInv'
<1>1. /\ \A e \in Dirs \ {d} : Same(e)
      /\ \/ Emptied(d, FALSE) /\ torn' = torn \ {d}
         \/ Same(d) /\ torn' = torn
      /\ Running("unrollup") /\ UNCHANGED <<job, walk>>
  BY UnrollupDirIs DEF IInv
<1>2. \A e \in Dirs : pc[e] # "copy" /\ pc'[e] # "copy"
  BY <1>1, NoCopying DEF Running, walk
<1>3. ASSUME NEW e \in Dirs, Same(e), e \in torn => e \in torn' PROVE CopiedRows(e)'
  BY <1>2, <1>3, CopiedKeeps
<1>4. ASSUME Emptied(d, FALSE) PROVE CopiedRows(d)'
  <2>1. db'[d].roll = <<>> /\ db'[d].pent = <<>> /\ db'[d].isroll = FALSE
    BY <1>4 DEF Emptied
  <2>2. Part(d, db'[d].roll) /\ Part(d, db'[d].pent)
    BY <2>1, NothingCopied
  <2> QED  BY <1>2, <2>1, <2>2 DEF CopiedRows
<1> QED  BY <1>1, <1>3, <1>4 DEF CopiedInv

LEMMA CopiedNext ==
    ASSUME IInv, MarkInv, CopiedInv, MemInv, [Next]_vars
    PROVE  CopiedInv'
BY StepKinds, RestIs, CopiedRests, CopiedInit, CopiedCopy, CopiedCopyFails, CopiedUnrollup

\* What a directory that is done has remembered.
LEMMA SettleMem ==
    ASSUME NEW d \in Dirs, Settles(d)
    PROVE  \/ rolledup' = rolledup
           \/ pc[d] = "copy" /\ rolledup' = [rolledup EXCEPT ![d] = TRUE]
           \/ job.dry_run
BY DEF Settles, AscendUnopenable, AscendSkip, AscendFails, AscendRefuse, AscendDry, FinishRollup,
       TreesummaryAscend, TreesummaryAscendFails

LEMMA MemSettles ==
    ASSUME IInv, MarkInv, MemInv, NEW d \in Dirs, Settles(d)
    PROVE  MemInv'
<1>1. /\ \A e \in Dirs : Same(e)
      /\ pc' = [pc EXCEPT ![d] = "done"] /\ UNCHANGED job
  BY SettleIs DEF IInv
<1> SUFFICES ASSUME Running("rollup"), ~job.dry_run, NEW e \in Dirs, pc'[e] \notin {"copy", "done"},
                    NEW k \in Kids(e), rolledup'[k]
             PROVE  db'[k].isroll
  BY <1>1 DEF MemInv, Running
<1>2. k \in Dirs /\ WalkTypes
  BY TreeIs DEF IInv
<1>3. e # d /\ pc[e] \notin {"copy", "done"}
  BY <1>1, <1>2 DEF WalkTypes
<1>4. rolledup[k] \/ (pc[d] = "copy" /\ k = d)
  BY <1>2, SettleMem DEF WalkTypes
<1>5. db[k].isroll
  BY <1>2, <1>3, <1>4 DEF MemInv, MarkInv
<1> QED  BY <1>1, <1>2, <1>5 DEF Same

LEMMA MemInit ==
    ASSUME IInv, MarkInv, MemInv, NEW d \in Dirs, AscendInit(d) \/ InitFails(d)
    PROVE  MemInv'
<1>1. RowsInv /\ WalkTypes
  BY DEF IInv
<1>2. PICK mark \in BOOLEAN : /\ Emptied(d, mark)
                              /\ mark = IF AscendInit(d) THEN TRUE ELSE db[d].isroll
  BY <1>1, InitIs
<1>3. /\ \A e \in Dirs \ {d} : Same(e)
      /\ UNCHANGED job
  BY <1>1, InitIs
<1>4. /\ \A e \in Dirs \ {d} : pc'[e] = pc[e] /\ rolledup'[e] = rolledup[e]
      /\ \/ pc'[d] = "copy" /\ rolledup'[d] = rolledup[d]
         \/ pc'[d] = "done" /\ rolledup'[d] = FALSE
  BY <1>1, InitWalk
<1> SUFFICES ASSUME Running("rollup"), ~job.dry_run, NEW e \in Dirs, pc'[e] \notin {"copy", "done"},
                    NEW k \in Kids(e), rolledup'[k]
             PROVE  db'[k].isroll
  BY <1>3 DEF MemInv, Running
<1>5. k \in Dirs /\ e # d /\ pc[e] \notin {"copy", "done"}
  BY <1>4, TreeIs
<1>6. rolledup[k] /\ db[k].isroll
  BY <1>4, <1>5 DEF MemInv
<1> QED  BY <1>2, <1>3, <1>5, <1>6 DEF Emptied, Same

LEMMA MemCopy ==
    ASSUME IInv, MarkInv, MemInv, NEW d \in Dirs, NEW n \in 0 .. Statements, CopyChild(d, n)
    PROVE  MemInv'
<1> DEFINE head == Head(left[d])
<1>1. PICK sub \in Dirs : sub = head
  BY CopyChildIs
<1>2. /\ pc[d] = "copy" /\ UNCHANGED <<job, pc, rolledup>>
      /\ sub \in Kids(d)
      /\ db'[d].isroll = db[d].isroll
      /\ \A e \in Dirs \ {d, sub} : Same(e)
  BY <1>1, CopyChildIs
<1> HIDE DEF head
<1> SUFFICES ASSUME Running("rollup"), ~job.dry_run, NEW e \in Dirs, pc[e] \notin {"copy", "done"},
                    NEW k \in Kids(e), rolledup[k]
             PROVE  db'[k].isroll
  BY <1>2 DEF MemInv, Running
<1>3. k \in Dirs /\ k # sub /\ db[k].isroll
  BY <1>2, AboveKid DEF MemInv
<1> QED  BY <1>2, <1>3 DEF Same

LEMMA MemCopyFails ==
    ASSUME IInv, MarkInv, MemInv, NEW d \in Dirs, NEW n \in 0 .. (Statements - 1), CopyFails(d, n)
    PROVE  MemInv'
<1>1. /\ UNCHANGED job
      /\ pc' = [pc EXCEPT ![d] = "done"]
      /\ db'[d].isroll = db[d].isroll
      /\ \A e \in Dirs \ {d} : Same(e)
  BY CopyFailsIs
<1>2. rolledup' = [rolledup EXCEPT ![d] = FALSE]
  BY DEF CopyFails, NotRolledUp
<1> SUFFICES ASSUME Running("rollup"), ~job.dry_run, NEW e \in Dirs, pc'[e] \notin {"copy", "done"},
                    NEW k \in Kids(e), rolledup'[k]
             PROVE  db'[k].isroll
  BY <1>1 DEF MemInv, Running
<1>3. k \in Dirs /\ WalkTypes
  BY TreeIs DEF IInv
<1>4. pc[e] \notin {"copy", "done"} /\ rolledup[k]
  BY <1>1, <1>2, <1>3 DEF WalkTypes
<1> QED  BY <1>1, <1>3, <1>4 DEF MemInv, Same

LEMMA MemOthers ==
    ASSUME IInv, MemInv, Others
    PROVE  MemInv'
<1>1. ASSUME NEW o \in Options, NEW h \in Dirs \cup {NoDir}, Start(o, h) PROVE MemInv'
  <2>1. /\ UNCHANGED db
        /\ rolledup' = [d \in Dirs |-> o.tool = "rollup" /\ d \in Walked(o) /\ StopsAt(o, d)]
    BY <1>1 DEF Start
  <2>2. \A d \in Dirs : rolledup'[d] => db'[d].isroll
    BY <2>1 DEF StopsAt, RollupDescendStops, GetIsrolledup
  <2> QED  BY <2>2, TreeIs DEF MemInv
<1>2. CASE \/ \E d \in Dirs, i \in BOOLEAN : UnrollupFails(d, i)
           \/ \E d \in Dirs : TreesummaryDirFails(d) \/ \E t \in Threads : TreesummaryDir(d, t)
  <2>1. ~Running("rollup") /\ UNCHANGED job
    BY <1>2 DEF UnrollupFails, TreesummaryDirFails, TreesummaryDir, Running
  <2> QED  BY <2>1 DEF MemInv, Running
<1>3. CASE ComputeTreesummary \/ End \/ Crash
  <2>1. job' = NoJob
    BY <1>3 DEF ComputeTreesummary, End, Crash
  <2> QED  BY <2>1 DEF MemInv, Running
<1>4. CASE UNCHANGED vars
  BY <1>4 DEF vars, MemInv, Running
<1> QED  BY <1>1, <1>2, <1>3, <1>4 DEF Others

LEMMA MemNext ==
    ASSUME IInv, MarkInv, MemInv, [Next]_vars
    PROVE  MemInv'
<1>1. ASSUME NEW d \in Dirs, NEW i \in BOOLEAN, UnrollupDir(d, i) PROVE MemInv'
  <2>1. ~Running("rollup") /\ UNCHANGED job
    BY <1>1 DEF UnrollupDir, Running
  <2> QED  BY <2>1 DEF MemInv, Running
<1> QED  BY <1>1, StepKinds, MemSettles, MemOthers, MemInit, MemCopy, MemCopyFails

-----------------------------------------------------------------------------
(* gufi_unrollup                                                           *)

\* What a step does to the log: nothing, or it ends the latest entry or marks
\* it as not clean, or a new entry is added.
EntryGoesOn(y, z) ==
    /\ z.job = y.job /\ z.fresh = y.fresh /\ (z.clean => y.clean)
LogChanges(z) == job # NoJob /\ EntryGoesOn(Latest, z) /\ log' = [log EXCEPT ![Len(log)] = z]

LEMMA FaultChanges ==
    ASSUME IInv, job # NoJob, Fault
    PROVE  LogChanges([Latest EXCEPT !.clean = FALSE])
<1>1. WalkTypes /\ LogInv
  BY DEF IInv
<1>2. Latest \in LogEntries
  BY <1>1, EntryOfJob
<1>3. log' = [log EXCEPT ![Len(log)].clean = FALSE]
  BY DEF Fault
<1>4. log' = [log EXCEPT ![Len(log)] = [Latest EXCEPT !.clean = FALSE]]
  BY <1>3 DEF Latest
<1> QED  BY <1>2, <1>4 DEF LogChanges, EntryGoesOn, LogEntries

LEMMA EndChanges ==
    ASSUME IInv, End
    PROVE  LogChanges([[Latest EXCEPT !.ended = TRUE] EXCEPT !.remaining = remaining])
<1> DEFINE y == [[Latest EXCEPT !.ended = TRUE] EXCEPT !.remaining = remaining]
           a == [log EXCEPT ![Len(log)].ended = TRUE]
<1>1. WalkTypes /\ LogInv /\ job # NoJob
  BY DEF IInv, End
<1>2. Latest \in LogEntries
  BY <1>1, EntryOfJob
<1>3. log \in Seq(LogEntries) /\ Len(log) \in DOMAIN log
  BY <1>1, LogIsNotEmpty
<1>4. a[Len(log)] = [Latest EXCEPT !.ended = TRUE]
  BY <1>3 DEF Latest
<1>5. [a EXCEPT ![Len(log)] = y] = [log EXCEPT ![Len(log)] = y]
  <2> HIDE DEF y
  <2> QED  BY <1>3
<1>6. log' = [a EXCEPT ![Len(log)].remaining = remaining]
  BY DEF End
<1>7. log' = [log EXCEPT ![Len(log)] = y]
  BY <1>4, <1>5, <1>6
<1>8. EntryGoesOn(Latest, y)
  BY <1>2 DEF EntryGoesOn, LogEntries
<1> QED  BY <1>1, <1>7, <1>8 DEF LogChanges

LEMMA ComputeChanges ==
    ASSUME IInv, ComputeTreesummary
    PROVE  LogChanges([Latest EXCEPT !.ended = TRUE])
<1>1. WalkTypes /\ LogInv /\ job # NoJob
  BY DEF IInv, ComputeTreesummary, Running
<1>2. Latest \in LogEntries
  BY <1>1, EntryOfJob
<1>3. log' = [log EXCEPT ![Len(log)] = [Latest EXCEPT !.ended = TRUE]]
  BY DEF ComputeTreesummary, Latest
<1> QED  BY <1>1, <1>2, <1>3 DEF LogChanges, EntryGoesOn, LogEntries

\* The latest entry afterwards.
LEMMA LatestGoesOn ==
    ASSUME IInv, NEW z, LogChanges(z)
    PROVE  Latest' = z /\ EntryGoesOn(Latest, Latest') /\ Latest.job = job
<1>1. WalkTypes /\ LogInv /\ job # NoJob /\ log' = [log EXCEPT ![Len(log)] = z]
  BY DEF IInv, LogChanges
<1>2. log \in Seq(LogEntries) /\ Len(log) \in DOMAIN log /\ Latest.job = job
  BY <1>1, LogIsNotEmpty, EntryOfJob
<1>3. Len(log') = Len(log) /\ log'[Len(log)] = z
  BY <1>1, <1>2
<1> QED  BY <1>2, <1>3 DEF Latest, LogChanges

\* A failure is logged.
LEMMA FaultIsLogged ==
    ASSUME IInv, job # NoJob, Fault
    PROVE  ~Latest'.clean /\ Latest'.job = job
<1> DEFINE z == [Latest EXCEPT !.clean = FALSE]
<1>1. LogChanges(z)
  BY FaultChanges
<1>2. Latest \in LogEntries
  BY EntryOfJob DEF IInv
<1>3. ~z.clean
  BY <1>2 DEF LogEntries
<1> HIDE DEF z
<1>4. Latest' = z /\ EntryGoesOn(Latest, Latest') /\ Latest.job = job
  BY <1>1, LatestGoesOn
<1> QED  BY <1>3, <1>4 DEF EntryGoesOn

\* What a step has to do with the log.
LEMMA StepOfLog ==
    ASSUME IInv, [Next]_vars
    PROVE  \/ \E o \in Options, h \in Dirs \cup {NoDir} : Start(o, h)
           \/ job # NoJob /\ Fault
           \/ job # NoJob /\ UNCHANGED log
           \/ End \/ ComputeTreesummary
           \/ UNCHANGED vars
<1>1. ASSUME NEW d \in Dirs,
             \/ AscendUnopenable(d) \/ AscendSkip(d) \/ AscendFails(d) \/ AscendRefuse(d)
             \/ AscendDry(d) \/ AscendInit(d) \/ InitFails(d)
             \/ TreesummaryAscend(d) \/ TreesummaryAscendFails(d) \/ TreesummaryDirFails(d)
             \/ \E t \in Threads : TreesummaryDir(d, t)
             \/ \E i \in BOOLEAN : UnrollupDir(d, i) \/ UnrollupFails(d, i)
      PROVE  job # NoJob /\ (Fault \/ NoFault)
  BY <1>1 DEF AscendUnopenable, AscendSkip, AscendFails, AscendRefuse, AscendDry, AscendInit, InitFails,
              TreesummaryAscend, TreesummaryAscendFails, TreesummaryDirFails, TreesummaryDir,
              UnrollupDir, UnrollupFails, MustDecide, Running
<1>2. ASSUME NEW d \in Dirs, \/ \E n \in 0..Statements : CopyChild(d, n)
                             \/ \E n \in 0..(Statements - 1) : CopyFails(d, n)
                             \/ FinishRollup(d)
      PROVE  job # NoJob /\ (Fault \/ NoFault)
  <2>1. pc[d] = "copy" /\ (Fault \/ NoFault)
    BY <1>2 DEF CopyChild, CopyFails, FinishRollup, NoFault
  <2> QED  BY <2>1 DEF IInv, CopyInv, Running
<1>3. CASE Crash
  BY <1>3 DEF Crash
<1> QED  BY <1>1, <1>2, <1>3 DEF Next, NoFault

LEMMA LogKinds ==
    ASSUME IInv, [Next]_vars
    PROVE  UNCHANGED log \/ (\E y : log' = Append(log, y)) \/ \E z : LogChanges(z)
BY StepOfLog, FaultChanges, EndChanges, ComputeChanges DEF Start, vars

\* The log only grows, and an entry whose run has ended stays as it is.
LEMMA LogGrows ==
    ASSUME IInv, [Next]_vars
    PROVE  /\ \A i \in DOMAIN log : /\ i \in DOMAIN log' /\ EntryGoesOn(log[i], log'[i])
                                    /\ log[i].ended => log'[i] = log[i]
           /\ Interrupted => Interrupted'
<1>0. log \in Seq(LogEntries) /\ (job # NoJob => log # <<>> /\ ~Latest.ended)
  BY DEF IInv, WalkTypes, LogInv
<1>1. Len(log) \in Nat /\ DOMAIN log = 1 .. Len(log)
  BY <1>0, LenProperties
<1>2. ASSUME NEW i \in DOMAIN log
      PROVE  /\ i \in DOMAIN log' /\ EntryGoesOn(log[i], log'[i])
             /\ log[i].ended => log'[i] = log[i]
  <2>1. CASE UNCHANGED log
    BY <2>1 DEF EntryGoesOn
  <2>2. CASE \E y : log' = Append(log, y)
    <3>1. i \in DOMAIN log' /\ log'[i] = log[i]
      BY <1>0, <1>1, <2>2
    <3> QED  BY <3>1 DEF EntryGoesOn
  <2>3. CASE \E z : LogChanges(z)
    <3>1. PICK z : LogChanges(z)
      BY <2>3
    <3>2. /\ job # NoJob /\ EntryGoesOn(Latest, z) /\ log' = [log EXCEPT ![Len(log)] = z]
      BY <3>1 DEF LogChanges
    <3>3. CASE i = Len(log)
      <4>1. i \in DOMAIN log' /\ log'[i] = z /\ log[i] = Latest
        BY <3>2, <3>3 DEF Latest
      <4> QED  BY <1>0, <3>2, <4>1
    <3>4. CASE i # Len(log)
      <4>1. i \in DOMAIN log' /\ log'[i] = log[i]
        BY <3>2, <3>4
      <4> QED  BY <4>1 DEF EntryGoesOn
    <3> QED  BY <3>3, <3>4
  <2> QED  BY <2>1, <2>2, <2>3, LogKinds
<1>3. Interrupted => Interrupted'
  BY <1>2 DEF Interrupted, EntryGoesOn
<1> QED  BY <1>2, <1>3

\* The entry of a run that has ended is complete: only the steps that end a
\* run make one.
LEMMA EndsOnlyThen ==
    ASSUME IInv, [Next]_vars, NEW i \in DOMAIN log', log'[i].ended
    PROVE  \/ i \in DOMAIN log /\ log[i].ended /\ log'[i] = log[i]
           \/ job # NoJob /\ i = Len(log') /\ (End \/ ComputeTreesummary)
<1>0. /\ log \in Seq(LogEntries) /\ Len(log) \in Nat /\ DOMAIN log = 1 .. Len(log)
      /\ job # NoJob => Len(log) \in DOMAIN log /\ ~Latest.ended
  BY LenProperties, LogIsNotEmpty DEF IInv, WalkTypes, LogInv
<1>1. \A k \in DOMAIN log : log[k].ended => log'[k] = log[k]
  BY LogGrows
<1>2. CASE \E o \in Options, h \in Dirs \cup {NoDir} : Start(o, h)
  <2>1. PICK y : log' = Append(log, y) /\ ~y.ended
    BY <1>2 DEF Start
  <2>2. i \in DOMAIN log /\ log'[i] = log[i]
    BY <1>0, <2>1
  <2> QED  BY <2>2
<1>3. CASE job # NoJob /\ Fault
  <2> DEFINE z == [Latest EXCEPT !.clean = FALSE]
  <2>1. LogChanges(z)
    BY <1>3, FaultChanges
  <2>2. z.ended = Latest.ended
    BY <1>3, EntryOfJob DEF IInv, LogEntries
  <2> HIDE DEF z
  <2>3. log' = [log EXCEPT ![Len(log)] = z] /\ ~z.ended
    BY <1>0, <1>3, <2>1, <2>2 DEF LogChanges
  <2>4. i \in DOMAIN log /\ log'[i] = log[i]
    BY <1>0, <1>3, <2>3
  <2> QED  BY <2>4
<1>4. CASE UNCHANGED log
  BY <1>1, <1>4
<1>5. CASE End \/ ComputeTreesummary
  <2>1. job # NoJob
    BY <1>5 DEF End, ComputeTreesummary, Running
  <2>2. PICK z : log' = [log EXCEPT ![Len(log)] = z]
    BY <1>5, EndChanges, ComputeChanges DEF LogChanges
  <2>3. i \in DOMAIN log /\ Len(log') = Len(log) /\ (i # Len(log) => log'[i] = log[i])
    BY <1>0, <2>1, <2>2
  <2> QED  BY <1>5, <2>1, <2>3
<1>6. CASE UNCHANGED vars
  BY <1>4, <1>6 DEF vars
<1> QED  BY <1>2, <1>3, <1>4, <1>5, <1>6, StepOfLog

\* A run of gufi_unrollup that fails has been interrupted.
LEMMA FaultInterrupts ==
    ASSUME IInv, Running("unrollup"), Fault
    PROVE  Interrupted'
<1>1. job # NoJob
  BY DEF Running
<1>2. ~Latest'.clean /\ Latest'.job = job
  BY <1>1, FaultIsLogged
<1>3. log \in Seq(LogEntries) /\ Len(log) \in DOMAIN log
  BY <1>1, LogIsNotEmpty DEF IInv
<1>4. log' = [log EXCEPT ![Len(log)].clean = FALSE]
  BY DEF Fault
<1>5. DOMAIN log' = DOMAIN log /\ Len(log') = Len(log)
  BY <1>3, <1>4
<1> QED  BY <1>2, <1>3, <1>5 DEF Interrupted, Running, Latest

\* gufi_unrollup takes a directory that inherits for one to be cleaned up.
QueueInv ==
    /\ queue \subseteq Dirs \X BOOLEAN
    /\ job = NoJob => queue = {}
    /\ Running("unrollup") => \A q \in Dirs : <<q, TRUE>> \in queue => Level(q) >= job.min_level

\* The directory will be cleaned up.
Covered(d) == Running("unrollup") /\ \E q \in Dirs : <<q, TRUE>> \in queue /\ d \in Under(q)

\* Entries are only left behind below a directory that holds them, and are
\* cleaned up with it, unless gufi_unrollup is interrupted.
LeftoverInv ==
    ~Interrupted => \A d \in Dirs : ~db[d].isroll /\ db[d].pent # <<>> =>
        (\E a \in Above(d) : db[a].isroll) \/ Covered(d)

\* Every mark is still ahead of gufi_unrollup.
Fronted(d) == \E q \in Dirs, i \in BOOLEAN : <<q, i>> \in queue /\ d \in Under(q)
FrontInv ==
    Running("unrollup") /\ Latest.clean /\ job.min_level = 0 =>
        \A d \in Dirs : db[d].isroll => Fronted(d)

UnrollInv == QueueInv /\ LeftoverInv /\ FrontInv /\ UnrollupRestores

\* What the queue covers goes on to be covered when a directory of it is
\* replaced by its subdirectories, but for the directory itself.
LEMMA UnderPassesOn ==
    ASSUME NEW d \in Dirs, NEW e \in Under(d), e # d
    PROVE  \E c \in Kids(d) : c \in Dirs /\ e \in Under(c)
<1>1. \E c \in Kids(d) : e \in Under(c)
  BY BelowIsUnder DEF Under
<1> QED  BY <1>1, TreeIs

\* Other programs do not use a queue that inherits.
LEMMA NotUnrollup ==
    ASSUME ~Running("unrollup"), ~Running("unrollup")'
    PROVE  /\ QueueInv' <=> queue' \subseteq Dirs \X BOOLEAN /\ (job' = NoJob => queue' = {})
           /\ FrontInv'
           /\ LeftoverInv' <=> (~Interrupted' => \A d \in Dirs : ~db'[d].isroll /\ db'[d].pent # <<>> =>
                                    \E a \in Above(d) : db'[a].isroll)
           /\ LeftoverInv <=> (~Interrupted => \A d \in Dirs : ~db[d].isroll /\ db[d].pent # <<>> =>
                                    \E a \in Above(d) : db[a].isroll)
BY DEF QueueInv, FrontInv, LeftoverInv, Covered, Running

\* A run of gufi_unrollup that has ended has emptied the queue.
LEMMA RestoresLater ==
    ASSUME job' # NoJob
    PROVE  UnrollupRestores'
BY DEF UnrollupRestores, Succeeded, Idle

LEMMA UnrollUnrollup ==
    ASSUME IInv, MarkInv, UnrollInv, NEW d \in Dirs, NEW i \in BOOLEAN, UnrollupDir(d, i)
    PROVE  UnrollInv'
<1>1. PICK up \in BOOLEAN :
             /\ up = (i \/ (Level(d) >= job.min_level /\ GetIsrolledup(db[d])))
             /\ queue' = (queue \ {<<d, i>>}) \cup {<<c, up>> : c \in Kids(d)}
             /\ \A e \in Dirs \ {d} : Same(e)
             /\ \/ /\ Level(d) >= job.min_level /\ up
                   /\ Emptied(d, FALSE) /\ torn' = torn \ {d}
                \/ ~(Level(d) >= job.min_level /\ up) /\ Same(d) /\ torn' = torn
             /\ Running("unrollup") /\ <<d, i>> \in queue /\ NoFault /\ UNCHANGED <<job, walk>>
  BY UnrollupDirIs DEF IInv
<1>2. /\ \A c \in Kids(d) : c \in Dirs /\ Level(c) \in Nat /\ Level(c) >= Level(d)
      /\ Level(d) \in Nat
  BY LevelType, TreeIs
<1>3. job \in Options /\ job.min_level \in Nat /\ job' = job /\ job # NoJob /\ UNCHANGED log
  <2>1. job \in Options
    BY <1>1 DEF IInv, WalkTypes, Running
  <2> QED  BY <1>1, <2>1, OptionsAssumption DEF Running, NoFault
<1>4. QueueInv'
  <2>1. queue' \subseteq Dirs \X BOOLEAN
    <3>1. queue \subseteq Dirs \X BOOLEAN
      BY DEF UnrollInv, QueueInv
    <3>2. queue' = (queue \ {<<d, i>>}) \cup {<<c, up>> : c \in Kids(d)} /\ up \in BOOLEAN
      BY <1>1
    <3> QED  BY <1>2, <3>1, <3>2
  <2>2. ASSUME NEW q \in Dirs, <<q, TRUE>> \in queue' PROVE Level(q) >= job.min_level
    <3>1. CASE <<q, TRUE>> \in queue
      BY <1>1, <3>1 DEF UnrollInv, QueueInv
    <3>2. CASE <<q, TRUE>> \notin queue
      <4>1. q \in Kids(d) /\ up
        BY <1>1, <2>2, <3>2
      <4>2. Level(d) >= job.min_level
        BY <1>1, <4>1 DEF UnrollInv, QueueInv
      <4>3. Level(q) \in Nat /\ Level(q) >= Level(d)
        BY <1>2, <4>1
      <4> QED  BY <1>2, <1>3, <4>2, <4>3
    <3> QED  BY <3>1, <3>2
  <2> QED  BY <1>3, <2>1, <2>2 DEF QueueInv
<1>5. LeftoverInv'
  <2> SUFFICES ASSUME ~Interrupted', NEW e \in Dirs, ~db'[e].isroll, db'[e].pent # <<>>,
                      \A a \in Above(e) : ~db'[a].isroll
               PROVE  Covered(e)'
    BY DEF LeftoverInv
  <2>0. ~Interrupted /\ Running("unrollup")'
    BY <1>1, <1>3 DEF Interrupted, Running
  <2>1. Same(e)
    BY <1>1 DEF Emptied
  <2>2. (\E a \in Above(e) : db[a].isroll) \/ Covered(e)
    BY <2>0, <2>1 DEF UnrollInv, LeftoverInv, Same
  <2>3. ASSUME e \in Under(d), e # d, up PROVE Covered(e)'
    <3>1. PICK c \in Kids(d) : c \in Dirs /\ e \in Under(c)
      BY <2>3, UnderPassesOn
    <3>2. <<c, TRUE>> \in queue'
      BY <1>1, <2>3
    <3> QED  BY <2>0, <3>1, <3>2 DEF Covered
  <2>4. CASE \E a \in Above(e) : db[a].isroll
    <3>1. PICK a \in Dirs : e \in Below[a] /\ db[a].isroll
      BY <2>4 DEF Above
    <3>2. ~db'[a].isroll
      BY <3>1 DEF Above
    <3>3. a = d /\ ~Same(d)
      BY <1>1, <3>1, <3>2 DEF Same
    <3>4. up /\ e # d
      BY <1>1, <2>1, <3>3
    <3> QED  BY <2>3, <3>1, <3>3, <3>4 DEF Under
  <2>5. CASE Covered(e)
    <3>1. PICK q \in Dirs : <<q, TRUE>> \in queue /\ e \in Under(q)
      BY <2>5 DEF Covered
    <3>2. CASE <<q, TRUE>> = <<d, i>>
      <4>1. q = d /\ i = TRUE /\ up
        BY <1>1, <3>2
      <4>2. Level(d) >= job.min_level
        BY <1>1, <3>1, <4>1 DEF UnrollInv, QueueInv
      <4>3. e # d
        BY <1>1, <4>1, <4>2, <2>1 DEF Emptied
      <4> QED  BY <2>3, <3>1, <4>1, <4>3
    <3>3. CASE <<q, TRUE>> # <<d, i>>
      BY <1>1, <2>0, <3>1, <3>3 DEF Covered
    <3> QED  BY <3>2, <3>3
  <2> QED  BY <2>2, <2>4, <2>5
<1>6. FrontInv'
  <2> SUFFICES ASSUME Latest.clean, job.min_level = 0, NEW e \in Dirs, db'[e].isroll
               PROVE  Fronted(e)'
    BY <1>1, <1>3 DEF FrontInv, Latest, Running
  <2>1. Same(e)
    BY <1>1 DEF Emptied
  <2>2. PICK q \in Dirs, j \in BOOLEAN : <<q, j>> \in queue /\ e \in Under(q)
    BY <1>1, <2>1 DEF UnrollInv, FrontInv, Same, Fronted
  <2>3. CASE <<q, j>> = <<d, i>>
    <3>1. q = d
      BY <2>3
    <3>2. e # d
      <4>1. SUFFICES ASSUME e = d PROVE FALSE
        OBVIOUS
      <4>2. Level(d) >= job.min_level
        BY <1>2
      <4>3. up
        BY <1>1, <2>1, <4>1, <4>2 DEF MarkInv, GetIsrolledup, Same
      <4> QED  BY <1>1, <4>1, <4>2, <4>3 DEF Emptied
    <3>3. PICK c \in Kids(d) : c \in Dirs /\ e \in Under(c)
      BY <2>2, <3>1, <3>2, UnderPassesOn
    <3>4. <<c, up>> \in queue'
      BY <1>1
    <3> QED  BY <3>3, <3>4 DEF Fronted
  <2>4. CASE <<q, j>> # <<d, i>>
    BY <1>1, <2>2, <2>4 DEF Fronted
  <2> QED  BY <2>3, <2>4
<1>7. UnrollupRestores'
  BY <1>3, RestoresLater
<1> QED  BY <1>4, <1>5, <1>6, <1>7 DEF UnrollInv

LEMMA UnrollFails ==
    ASSUME IInv, UnrollInv, NEW d \in Dirs, NEW i \in BOOLEAN, UnrollupFails(d, i)
    PROVE  UnrollInv'
<1>1. /\ Running("unrollup") /\ <<d, i>> \in queue /\ Fault
      /\ queue' = (queue \ {<<d, i>>}) \cup {<<c, i>> : c \in Kids(d)}
      /\ UNCHANGED job
  BY DEF UnrollupFails, Inherit
<1>2. /\ \A c \in Kids(d) : c \in Dirs /\ Level(c) \in Nat /\ Level(c) >= Level(d)
      /\ Level(d) \in Nat
  BY LevelType, TreeIs
<1>3. job \in Options /\ job.min_level \in Nat /\ job # NoJob
  <2>1. job \in Options
    BY <1>1 DEF IInv, WalkTypes, Running
  <2> QED  BY <1>1, <2>1, OptionsAssumption DEF Running
<1>4. QueueInv'
  <2>1. queue' \subseteq Dirs \X BOOLEAN
    BY <1>1, <1>2 DEF UnrollInv, QueueInv
  <2>2. ASSUME NEW q \in Dirs, <<q, TRUE>> \in queue' PROVE Level(q) >= job.min_level
    <3>1. CASE <<q, TRUE>> \in queue
      BY <1>1, <3>1 DEF UnrollInv, QueueInv
    <3>2. CASE <<q, TRUE>> \notin queue
      <4>1. q \in Kids(d) /\ i = TRUE
        BY <1>1, <2>2, <3>2
      <4>2. Level(d) >= job.min_level
        BY <1>1, <4>1 DEF UnrollInv, QueueInv
      <4>3. Level(q) \in Nat /\ Level(q) >= Level(d)
        BY <1>2, <4>1
      <4> QED  BY <1>2, <1>3, <4>2, <4>3
    <3> QED  BY <3>1, <3>2
  <2> QED  BY <1>1, <1>3, <2>1, <2>2 DEF QueueInv
<1>5. LeftoverInv'
  BY <1>1, FaultInterrupts DEF LeftoverInv
<1>6. FrontInv'
  <2>1. ~Latest'.clean
    BY <1>1, <1>3, FaultIsLogged
  <2> QED  BY <2>1 DEF FrontInv
<1>7. UnrollupRestores'
  BY <1>1, <1>3, RestoresLater
<1> QED  BY <1>4, <1>5, <1>6, <1>7 DEF UnrollInv

\* A step of another program that leaves marks or puts them above.
LEMMA UnrollElsewhere ==
    ASSUME IInv, UnrollInv, ~Running("unrollup"), ~Running("unrollup")', 
           Interrupted => Interrupted',
           queue' \subseteq Dirs \X BOOLEAN, job' = NoJob => queue' = {},
           Succeeded("unrollup")' => Idle /\ UNCHANGED <<job, db, log, torn>>,
           \A e \in Dirs : ~db'[e].isroll /\ db'[e].pent # <<>> =>
               \/ ~db[e].isroll /\ db'[e].pent = db[e].pent
               \/ \E a \in Above(e) : db'[a].isroll,
           \A e, x \in Dirs : e \in Below[x] /\ db[x].isroll =>
               \E a \in Above(e) : db'[a].isroll
    PROVE  UnrollInv'
<1>1. QueueInv' /\ FrontInv'
  BY NotUnrollup
<1>2. LeftoverInv'
  <2> SUFFICES ASSUME ~Interrupted', NEW e \in Dirs, ~db'[e].isroll, db'[e].pent # <<>>,
                      \A a \in Above(e) : ~db'[a].isroll
               PROVE  FALSE
    BY NotUnrollup
  <2>1. ~db[e].isroll /\ db[e].pent # <<>>
    OBVIOUS
  <2>2. PICK a \in Above(e) : db[a].isroll
    BY <2>1, NotUnrollup DEF UnrollInv
  <2> QED  BY <2>2 DEF Above
<1>3. UnrollupRestores'
  <2> SUFFICES ASSUME Succeeded("unrollup")' PROVE UnrollupRestores'
    BY DEF UnrollupRestores
  <2>1. UNCHANGED <<job, db, log, torn>> /\ UnrollupRestores
    BY DEF UnrollInv
  <2> QED  BY <2>1 DEF UnrollupRestores, Succeeded, Idle, Latest, Interrupted
<1> QED  BY <1>1, <1>2, <1>3 DEF UnrollInv

\* Another program leaves the copies and the marks where they are.
LEMMA UnrollSame ==
    ASSUME IInv, UnrollInv, ~Running("unrollup"), ~Running("unrollup")', [Next]_vars,
           queue' \subseteq Dirs \X BOOLEAN, job' = NoJob => queue' = {},
           Succeeded("unrollup")' => Idle /\ UNCHANGED <<job, db, log, torn>>,
           \A e \in Dirs : Same(e)
    PROVE  UnrollInv'
<1>1. Interrupted => Interrupted'
  BY LogGrows
<1>2. \A e, x \in Dirs : e \in Below[x] /\ db[x].isroll => \E a \in Above(e) : db'[a].isroll
  BY DEF Above, Same
<1> QED  BY <1>1, <1>2, UnrollElsewhere DEF Same

\* A program goes on: there is nothing to say about its end.
LEMMA GoesOn ==
    ASSUME job # NoJob, UNCHANGED job
    PROVE  (job' = NoJob => queue' = {}) /\ (Succeeded("unrollup")' => FALSE)
BY DEF Succeeded, Idle

LEMMA UnrollSettles ==
    ASSUME IInv, UnrollInv, [Next]_vars, NEW d \in Dirs, Settles(d)
    PROVE  UnrollInv'
<1>1. /\ \A e \in Dirs : Same(e) /\ UNCHANGED <<job, queue>>
  BY SettleIs DEF IInv
<1>2. Running("rollup") \/ Running("treesummary_all")
  <2>1. FinishRollup(d) => Running("rollup")
    BY DEF FinishRollup, IInv, CopyInv
  <2> QED  BY <2>1 DEF Settles, AscendUnopenable, AscendSkip, AscendFails, AscendRefuse, AscendDry,
                       TreesummaryAscend, TreesummaryAscendFails, MustDecide
<1>3. job # NoJob /\ ~Running("unrollup") /\ ~Running("unrollup")'
  BY <1>1, <1>2 DEF Running
<1>4. queue' \subseteq Dirs \X BOOLEAN
  BY <1>1 DEF UnrollInv, QueueInv
<1> QED  BY <1>1, <1>3, <1>4, GoesOn, UnrollSame

\* While a roll-up goes on
LEMMA UnrollRollup ==
    ASSUME IInv, UnrollInv, [Next]_vars, Running("rollup"), UNCHANGED <<job, queue>>,
           \A e \in Dirs : ~db'[e].isroll /\ db'[e].pent # <<>> =>
               \/ ~db[e].isroll /\ db'[e].pent = db[e].pent
               \/ \E a \in Above(e) : db'[a].isroll,
           \A e, x \in Dirs : e \in Below[x] /\ db[x].isroll =>
               \E a \in Above(e) : db'[a].isroll
    PROVE  UnrollInv'
<1>1. job # NoJob /\ ~Running("unrollup") /\ ~Running("unrollup")'
  BY DEF Running
<1>2. queue' \subseteq Dirs \X BOOLEAN
  BY DEF UnrollInv, QueueInv
<1>3. Interrupted => Interrupted'
  BY LogGrows
<1> QED  BY <1>1, <1>2, <1>3, GoesOn, UnrollElsewhere

LEMMA UnrollInit ==
    ASSUME IInv, UnrollInv, [Next]_vars, NEW d \in Dirs, AscendInit(d) \/ InitFails(d)
    PROVE  UnrollInv'
<1>1. RowsInv
  BY DEF IInv
<1>2. PICK mark \in BOOLEAN : /\ Emptied(d, mark)
                              /\ mark = IF AscendInit(d) THEN TRUE ELSE db[d].isroll
  BY <1>1, InitIs
<1>3. /\ \A e \in Dirs \ {d} : Same(e)
      /\ Running("rollup") /\ UNCHANGED <<job, queue>>
  BY <1>1, InitIs
<1>4. \A x \in Dirs : db[x].isroll => db'[x].isroll
  BY <1>2, <1>3 DEF Emptied, Same
<1>5. \A e, x \in Dirs : e \in Below[x] /\ db[x].isroll => \E a \in Above(e) : db'[a].isroll
  BY <1>4 DEF Above
<1>6. \A e \in Dirs : ~db'[e].isroll /\ db'[e].pent # <<>> =>
          ~db[e].isroll /\ db'[e].pent = db[e].pent
  BY <1>2, <1>3 DEF Emptied, Same
<1> QED  BY <1>3, <1>5, <1>6, UnrollRollup

LEMMA UnrollCopy ==
    ASSUME IInv, MarkInv, UnrollInv, [Next]_vars, NEW d \in Dirs, NEW n \in 0 .. Statements,
           CopyChild(d, n)
    PROVE  UnrollInv'
<1> DEFINE head == Head(left[d])
<1>1. PICK sub \in Dirs : sub = head
  BY CopyChildIs
<1>2. /\ pc[d] = "copy" /\ UNCHANGED <<job, queue>>
      /\ sub \in Kids(d)
      /\ db'[d].isroll = db[d].isroll
      /\ \A e \in Dirs \ {d, sub} : Same(e)
  BY <1>1, CopyChildIs
<1> HIDE DEF head
<1>3. Running("rollup") /\ db'[d].isroll
  BY <1>2 DEF MarkInv, IInv, CopyInv
<1>4. d \in Above(sub)
  BY <1>2, BelowIs DEF Above
<1>5. ASSUME NEW e \in Dirs, NEW x \in Dirs, e \in Below[x], db[x].isroll
      PROVE  \E a \in Above(e) : db'[a].isroll
  <2>1. CASE x = sub
    <3>1. e \in Below[d]
      BY <1>4, <1>5, <2>1, BelowBelow DEF Above
    <3> QED  BY <1>3, <3>1 DEF Above
  <2>2. CASE x # sub
    BY <1>2, <1>3, <1>5, <2>2 DEF Above, Same
  <2> QED  BY <2>1, <2>2
<1>6. ASSUME NEW e \in Dirs, ~db'[e].isroll, db'[e].pent # <<>>
      PROVE  \/ ~db[e].isroll /\ db'[e].pent = db[e].pent
             \/ \E a \in Above(e) : db'[a].isroll
  BY <1>2, <1>3, <1>4, <1>6 DEF Same
<1> QED  BY <1>2, <1>3, <1>5, <1>6, UnrollRollup

LEMMA UnrollCopyFails ==
    ASSUME IInv, MarkInv, UnrollInv, [Next]_vars, NEW d \in Dirs, NEW n \in 0 .. (Statements - 1),
           CopyFails(d, n)
    PROVE  UnrollInv'
<1>1. /\ pc[d] = "copy" /\ UNCHANGED <<job, queue>>
      /\ db'[d].isroll = db[d].isroll
      /\ \A e \in Dirs \ {d} : Same(e)
  BY CopyFailsIs
<1>2. Running("rollup") /\ db'[d].isroll
  BY <1>1 DEF MarkInv, IInv, CopyInv
<1>3. \A e, x \in Dirs : e \in Below[x] /\ db[x].isroll => \E a \in Above(e) : db'[a].isroll
  BY <1>1 DEF Above, Same
<1>4. \A e \in Dirs : ~db'[e].isroll /\ db'[e].pent # <<>> =>
          ~db[e].isroll /\ db'[e].pent = db[e].pent
  BY <1>1, <1>2 DEF Same
<1> QED  BY <1>1, <1>2, <1>3, <1>4, UnrollRollup

\* A program starts.
LEMMA UnrollStart ==
    ASSUME IInv, UnrollInv, [Next]_vars, NEW o \in Options, NEW h \in Dirs \cup {NoDir}, Start(o, h)
    PROVE  UnrollInv'
<1>1. /\ job = NoJob /\ job' = o /\ UNCHANGED <<db, torn>> /\ queue' = PoolRoots(o)
  BY DEF Start
<1>2. \A e \in Dirs : Same(e)
  BY <1>1 DEF Same
<1>3. o # NoJob /\ Root \in Dirs
  BY OptionsAssumption, TreeAssumption
<1>4. queue' \subseteq Dirs \X BOOLEAN
  <2>1. PICK i \in BOOLEAN : queue' = {} \/ queue' = {<<Root, i>>}
    BY <1>1 DEF PoolRoots
  <2> QED  BY <1>3, <2>1
<1>5. ~Running("unrollup")
  BY <1>1 DEF Running
<1>6. CASE o.tool # "unrollup"
  <2>1. ~Running("unrollup")'
    BY <1>1, <1>6 DEF Running
  <2>2. Succeeded("unrollup")' => FALSE
    BY <1>1, <1>3 DEF Succeeded, Idle
  <2> QED  BY <1>1, <1>2, <1>3, <1>4, <1>5, <2>1, <2>2, UnrollSame
<1>7. CASE o.tool = "unrollup"
  <2>1. queue' = {<<Root, FALSE>>}
    BY <1>1, <1>7 DEF PoolRoots, BottomUpTools
  <2>2. QueueInv'
    BY <1>1, <1>3, <1>4, <2>1 DEF QueueInv
  <2>3. FrontInv'
    <3>1. \A d \in Dirs : d \in Under(Root)
      BY NoCycle
    <3> QED  BY <1>3, <2>1, <3>1 DEF FrontInv, Fronted
  <2>4. LeftoverInv'
    <3>1. Interrupted => Interrupted'
      BY LogGrows
    <3> QED  BY <1>1, <1>5, <3>1 DEF UnrollInv, LeftoverInv, Covered
  <2>5. UnrollupRestores'
    BY <1>1, <1>3, RestoresLater
  <2> QED  BY <2>2, <2>3, <2>4, <2>5 DEF UnrollInv
<1> QED  BY <1>6, <1>7

\* gufi_unrollup ends.
LEMMA UnrollOver ==
    ASSUME IInv, MarkInv, UnrollInv, [Next]_vars, Running("unrollup"), End \/ Crash
    PROVE  UnrollInv'
<1>1. job' = NoJob /\ queue' = {} /\ UNCHANGED db
  BY DEF End, Crash, Gone
<1>2. QueueInv' /\ FrontInv' /\ ~Running("unrollup")'
  BY <1>1 DEF QueueInv, FrontInv, Running
<1>3. CASE Crash
  <2>1. Interrupted' /\ job # NoJob
    BY <1>3, FaultInterrupts DEF Crash
  <2>2. ~Latest'.clean
    BY <1>3, <2>1, FaultIsLogged DEF Crash
  <2>3. LeftoverInv' /\ UnrollupRestores'
    BY <2>1, <2>2 DEF LeftoverInv, UnrollupRestores, Succeeded
  <2> QED  BY <1>2, <2>3 DEF UnrollInv
<1>4. CASE End
  <2>1. queue = {} /\ UNCHANGED torn /\ (Interrupted => Interrupted')
    BY <1>4, LogGrows DEF End
  <2>2. \A e \in Dirs : ~Covered(e)
    BY <2>1 DEF Covered
  <2>3. LeftoverInv'
    BY <1>1, <2>1, <2>2 DEF UnrollInv, LeftoverInv
  <2>4. UnrollupRestores'
    <3> SUFFICES ASSUME Succeeded("unrollup")', Latest'.job.min_level = 0, NEW d \in Dirs
                 PROVE  /\ db[d].roll = <<>> /\ ~db[d].isroll
                        /\ db[d].pent = <<>> \/ (Interrupted' /\ d \in torn)
      BY <1>1, <2>1 DEF UnrollupRestores
    <3>1. EntryGoesOn(Latest, Latest') /\ Latest.job = job
      BY <1>4, EndChanges, LatestGoesOn
    <3>2. Latest.clean /\ job.min_level = 0
      BY <3>1 DEF Succeeded, EntryGoesOn
    <3>3. \A e \in Dirs : ~db[e].isroll
      BY <2>1, <3>2 DEF UnrollInv, FrontInv, Fronted
    <3>4. db[d].roll = <<>> /\ (db[d].pent = <<>> \/ d \in torn)
      BY <3>3 DEF MarkInv
    <3>5. ~Interrupted => db[d].pent = <<>>
      BY <2>2, <3>3 DEF UnrollInv, LeftoverInv, Above
    <3> QED  BY <2>1, <3>3, <3>4, <3>5
  <2> QED  BY <1>2, <2>3, <2>4 DEF UnrollInv
<1> QED  BY <1>3, <1>4

LEMMA UnrollOthers ==
    ASSUME IInv, MarkInv, UnrollInv, [Next]_vars, Others
    PROVE  UnrollInv'
<1>0. \A e \in Dirs : Same(e)
  BY RestIs DEF Rests
<1>1. ASSUME NEW o \in Options, NEW h \in Dirs \cup {NoDir}, Start(o, h) PROVE UnrollInv'
  BY <1>1, UnrollStart
<1>2. ASSUME NEW d \in Dirs, NEW i \in BOOLEAN, UnrollupFails(d, i) PROVE UnrollInv'
  BY <1>2, UnrollFails
<1>3. CASE \E d \in Dirs : TreesummaryDirFails(d) \/ \E t \in Threads : TreesummaryDir(d, t)
  <2>1. /\ Running("treesummary") /\ UNCHANGED job
        /\ \E d \in Dirs : \/ queue' = queue \ {<<d, FALSE>>}
                           \/ queue' = (queue \ {<<d, FALSE>>}) \cup {<<c, FALSE>> : c \in Kids(d)}
    BY <1>3 DEF TreesummaryDirFails, TreesummaryDir, Inherit
  <2>2. queue' \subseteq Dirs \X BOOLEAN
    <3>1. PICK d \in Dirs, i \in BOOLEAN :
              \/ queue' = queue \ {<<d, i>>}
              \/ queue' = (queue \ {<<d, i>>}) \cup {<<c, i>> : c \in Kids(d)}
      BY <2>1
    <3>2. Kids(d) \subseteq Dirs /\ queue \subseteq Dirs \X BOOLEAN
      BY TreeIs DEF UnrollInv, QueueInv
    <3> QED  BY <3>1, <3>2
  <2>3. job # NoJob /\ ~Running("unrollup") /\ ~Running("unrollup")'
    BY <2>1 DEF Running
  <2> QED  BY <1>0, <2>1, <2>2, <2>3, GoesOn, UnrollSame
<1>4. CASE ComputeTreesummary
  <2>1. job' = NoJob /\ queue' = {} /\ Running("treesummary")
    BY <1>4 DEF ComputeTreesummary, Gone
  <2>2. ~Running("unrollup") /\ ~Running("unrollup")'
    BY <2>1 DEF Running
  <2>3. ~Succeeded("unrollup")'
    <3>1. Latest'.job = job
      BY <1>4, ComputeChanges, LatestGoesOn DEF EntryGoesOn
    <3> QED  BY <2>1, <3>1 DEF Succeeded, Running
  <2> QED  BY <1>0, <2>1, <2>2, <2>3, UnrollSame
<1>5. CASE (End \/ Crash) /\ Running("unrollup")
  BY <1>5, UnrollOver
<1>6. CASE (End \/ Crash) /\ ~Running("unrollup")
  <2>1. job' = NoJob /\ queue' = {} /\ job # NoJob /\ job.tool # "unrollup"
    BY <1>6 DEF End, Crash, Gone, Running
  <2>2. ~Running("unrollup")'
    BY <2>1 DEF Running
  <2>3. ~Succeeded("unrollup")'
    <3>1. Latest'.job = job
      BY <1>6, <2>1, EndChanges, FaultChanges, LatestGoesOn DEF Crash, EntryGoesOn
    <3> QED  BY <2>1, <3>1 DEF Succeeded
  <2> QED  BY <1>0, <1>6, <2>1, <2>2, <2>3, UnrollSame
<1>7. CASE UNCHANGED vars
  <2>1. UNCHANGED <<db, job, queue, torn, log>>
    BY <1>7 DEF vars
  <2> QED  BY <2>1 DEF UnrollInv, QueueInv, LeftoverInv, FrontInv, UnrollupRestores, Covered, Fronted,
                       Running, Latest, Succeeded, Idle, Interrupted
<1> QED  BY <1>1, <1>2, <1>3, <1>4, <1>5, <1>6, <1>7 DEF Others

LEMMA UnrollNext ==
    ASSUME IInv, MarkInv, UnrollInv, [Next]_vars
    PROVE  UnrollInv'
BY StepKinds, UnrollSettles, UnrollOthers, UnrollInit, UnrollCopy, UnrollCopyFails, UnrollUnrollup

-----------------------------------------------------------------------------
(* What a query sees                                                       *)

\* A sum with one term that is not zero, and one with a term that is not.
LEMMA SumAlone ==
    ASSUME NEW V, IsFiniteSet(V), NEW f, NEW h \in V, f[h] \in Nat, \A x \in V \ {h} : f[x] = 0
    PROVE  SumFunctionOnSet(f, V) = f[h]
<1> DEFINE g == [x \in V |-> f[x]]
           z == [x \in V |-> 0]
<1>1. g \in [V -> Int] /\ z \in [V -> Int] /\ z \in [V -> {0}] /\ \A x \in V \ {h} : g[x] = z[x]
  OBVIOUS
<1>2. g[h] = f[h] /\ z[h] = 0 /\ DOMAIN g = V /\ \A x \in V : g[x] = f[x]
  OBVIOUS
<1> HIDE DEF g, z
<1>3. SumFunction(z) = 0
  BY <1>1, SumZero
<1>4. SumFunction(g) = SumFunction(z) + g[h] - z[h]
  BY <1>1, SumUpdate
<1>5. SumFunction(g) = SumOf(g, V)[V]
  BY <1>2, SumIs
<1>6. SumOf(g, V)[V] = SumOf(f, V)[V]
  BY <1>2, SumRestrict
<1>7. SumFunctionOnSet(f, V) = SumOf(f, V)[V]
  BY SumUnfolds
<1> QED  BY <1>2, <1>3, <1>4, <1>5, <1>6, <1>7

LEMMA SumSome ==
    ASSUME NEW V, IsFiniteSet(V), NEW f, \A x \in V : f[x] \in Nat, NEW a \in V, f[a] >= 1
    PROVE  SumFunctionOnSet(f, V) >= 1 /\ SumFunctionOnSet(f, V) \in Int
<1> DEFINE g == [x \in V |-> f[x]]
<1>1. g \in [V -> Nat] /\ g \in [V -> Int]
  OBVIOUS
<1>2. g[a] = f[a] /\ DOMAIN g = V /\ \A x \in V : g[x] = f[x]
  OBVIOUS
<1> HIDE DEF g
<1>3. SumFunction(g) >= g[a] /\ SumFunction(g) \in Int
  BY <1>1, SumBound, SumType
<1>4. SumFunction(g) = SumOf(g, V)[V]
  BY <1>2, SumIs
<1>5. SumOf(g, V)[V] = SumOf(f, V)[V]
  BY <1>2, SumRestrict
<1>6. SumFunctionOnSet(f, V) = SumOf(f, V)[V]
  BY SumUnfolds
<1> QED  BY <1>2, <1>3, <1>4, <1>5, <1>6

\* A directory sees itself and what it has copied, each once.
LEMMA OccursIs ==
    ASSUME NEW d \in Dirs, NEW s \in Seq(Dirs), Part(d, s), NEW e \in Dirs
    PROVE  Occurs(e, <<d>> \o s) = IF e = d \/ e \in ToSet(s) THEN 1 ELSE 0
<1>1. Occurs(e, <<d>> \o s) = TimesIn(<<d>> \o s, e)
  BY DEF Occurs, TimesIn
<1>2. <<d>> \in Seq(Dirs)
  OBVIOUS
<1>3. TimesIn(<<d>> \o s, e) = TimesIn(<<d>>, e) + TimesIn(s, e)
  BY <1>2, TimesConcat
<1>4. TimesIn(<<d>>, e) = IF d = e THEN 1 ELSE 0
  BY TimesOne
<1>5. TimesIn(s, e) \in Nat /\ (TimesIn(s, e) = 0 <=> e \notin Range(s)) /\ Range(s) = ToSet(s)
  BY TimesType DEF Range, ToSet
<1>6. TimesIn(s, e) <= 1
  BY TimesInjective DEF Part, IsInjective
<1>7. e = d => e \notin ToSet(s)
  BY NoCycle DEF Part
<1> QED  BY <1>1, <1>3, <1>4, <1>5, <1>6, <1>7

\* The directory in which a query finds another one: itself, when the query
\* gets there, or the one where it stops.
Finds(h, e) == h \in Visited(db) /\ (h = e \/ (e \in Below[h] /\ db[h].isroll))

LEMMA SomebodyFinds ==
    ASSUME MarkInv, NEW e \in Dirs
    PROVE  \E h \in Dirs : Finds(h, e)
<1> DEFINE S == {x \in Dirs : \E h \in Dirs : Finds(h, x)}
<1>0. Root \in Dirs /\ \A d \in Dirs : db[d].isroll => GetIsrolledup(db[d])
  BY TreeAssumption DEF MarkInv, GetIsrolledup
<1>1. Root \in S
  <2>1. Above(Root) = {}
    <3> SUFFICES ASSUME NEW x \in Dirs, Root \in Below[x] PROVE FALSE
      BY DEF Above
    <3>1. PICK p \in Under(x) : Root \in Kids(p)
      BY ParentIs
    <3>2. p \in Dirs
      BY <3>1, TreeIs DEF Under
    <3> QED  BY <3>1, <3>2, TreeAssumption
  <2>2. Finds(Root, Root)
    BY <1>0, <2>1 DEF Finds, Visited
  <2> QED  BY <1>0, <2>2
<1>2. ASSUME NEW x \in S, NEW k \in Kids(x) PROVE k \in S
  <2>1. PICK h \in Dirs : Finds(h, x)
    OBVIOUS
  <2>2. x \in Dirs /\ k \in Dirs /\ k \in Below[x] /\ Above(k) = Above(x) \cup {x}
    BY AboveKid, BelowIs
  <2>3. CASE x # h
    <3>1. k \in Below[h] /\ db[h].isroll /\ h \in Visited(db)
      BY <2>1, <2>2, <2>3, BelowIs DEF Finds
    <3> QED  BY <2>2, <3>1 DEF Finds
  <2>4. CASE x = h /\ db[x].isroll
    BY <2>1, <2>2, <2>4 DEF Finds
  <2>5. CASE x = h /\ ~db[x].isroll
    <3>1. k \in Visited(db)
      BY <2>1, <2>2, <2>5 DEF Finds, Visited, GetIsrolledup
    <3> QED  BY <2>2, <3>1 DEF Finds
  <2> QED  BY <2>3, <2>4, <2>5
<1>3. Below[Root] \subseteq S
  <2>1. S \in SUBSET Dirs /\ Kids(Root) \subseteq S /\ \A x \in S : Kids(x) \subseteq S
    BY <1>1, <1>2
  <2> HIDE DEF S
  <2> QED  BY <1>0, <2>1, BelowIs
<1>4. e \in Under(Root)
  BY NoCycle
<1> QED  BY <1>1, <1>3, <1>4 DEF Under

\* The others that the query visits above it are not rolled up.
LEMMA OthersAreNot ==
    ASSUME MarkInv, NEW e \in Dirs, NEW h \in Dirs, Finds(h, e), NEW d \in Visited(db), d # h
    PROVE  d \in Dirs /\ d # e /\ (e \in Below[d] => ~db[d].isroll)
<1>0. d \in Dirs /\ h \in Visited(db) /\ \A x \in Dirs : db[x].isroll => GetIsrolledup(db[x])
  BY DEF Visited, Finds, MarkInv, GetIsrolledup
<1>1. \A x \in Visited(db), y \in Dirs : x \in Below[y] => ~db[y].isroll
  BY <1>0 DEF Visited, Above
<1>2. CASE h = e
  BY <1>0, <1>1, <1>2
<1>3. CASE h # e
  <2>1. e \in Below[h] /\ db[h].isroll
    BY <1>3 DEF Finds
  <2>2. d # e /\ d \notin Below[h]
    BY <1>0, <1>1, <2>1
  <2>3. ASSUME e \in Below[d] PROVE h \in Below[d]
    BY <1>0, <2>1, <2>2, <2>3, AboveIsChain
  <2> QED  BY <1>0, <1>1, <2>2, <2>3
<1> QED  BY <1>2, <1>3

\* How often a query finds a directory that one directory answers for: once,
\* if that one has it, and at least once, if some other has it, too.
LEMMA SeenIs ==
    ASSUME MarkInv, NEW rows, \A d \in Dirs : rows[d] \in Seq(Dirs) /\ Part(d, rows[d]),
           NEW e \in Dirs, NEW h \in Dirs, Finds(h, e)
    PROVE  /\ (\A d \in Visited(db) \ {h} : e \notin ToSet(rows[d])) =>
                  Seen(db, e, rows) = IF h = e \/ e \in ToSet(rows[h]) THEN 1 ELSE 0
           /\ (\E d \in Visited(db) : e \in ToSet(rows[d])) =>
                  Seen(db, e, rows) = 1 \/ Seen(db, e, rows) > 1
<1> DEFINE V == Visited(db)
           f == [d \in Dirs |-> Occurs(e, <<d>> \o rows[d])]
<1>1. V \subseteq Dirs /\ IsFiniteSet(V) /\ h \in V
  BY TreeAssumption, FS_Subset DEF Visited, Finds
<1>2. Seen(db, e, rows) = SumFunctionOnSet(f, V)
  BY DEF Seen
<1>3. \A d \in Dirs : f[d] = IF e = d \/ e \in ToSet(rows[d]) THEN 1 ELSE 0
  BY OccursIs
<1>4. \A d \in V \ {h} : d # e
  BY OthersAreNot
<1> HIDE DEF f, V
<1>5. ASSUME \A d \in V \ {h} : e \notin ToSet(rows[d])
      PROVE  Seen(db, e, rows) = IF h = e \/ e \in ToSet(rows[h]) THEN 1 ELSE 0
  <2>1. \A x \in V \ {h} : f[x] = 0
    BY <1>1, <1>3, <1>4, <1>5
  <2>2. f[h] \in Nat
    BY <1>1, <1>3
  <2>3. SumFunctionOnSet(f, V) = f[h]
    BY <1>1, <2>1, <2>2, SumAlone
  <2> QED  BY <1>2, <1>3, <2>3
<1>6. ASSUME NEW d \in V, e \in ToSet(rows[d])
      PROVE  Seen(db, e, rows) = 1 \/ Seen(db, e, rows) > 1
  <2>1. f[d] >= 1 /\ \A x \in V : f[x] \in Nat
    BY <1>1, <1>3, <1>6
  <2>2. SumFunctionOnSet(f, V) >= 1 /\ SumFunctionOnSet(f, V) \in Int
    BY <1>1, <2>1, SumSome
  <2> QED  BY <1>2, <2>2
<1> QED  BY <1>5, <1>6 DEF V

CopiesInv == MarkInv /\ CopiedInv /\ MemInv /\ UnrollInv

\* Between two runs a query finds everything once.
LEMMA RowsAreComplete ==
    ASSUME IInv, CopiesInv
    PROVE  RowsComplete
<1> SUFFICES ASSUME Idle, NEW e \in Dirs
             PROVE  LET over == Above(e) \cap Visited(db) \cap torn
                        lost == \E d \in over : GetIsrolledup(db[d])
                        kept == Interrupted /\ \E d \in over : ~GetIsrolledup(db[d])
                        fine(n) == n = 1 \/ (n = 0 /\ lost)
                    IN  /\ fine(SummariesSeen(db, e))
                        /\ fine(EntriesSeen(db, e)) \/ (EntriesSeen(db, e) > 1 /\ kept)
  BY DEF RowsComplete
<1> DEFINE over == Above(e) \cap Visited(db) \cap torn
           lost == \E d \in over : GetIsrolledup(db[d])
           kept == Interrupted /\ \E d \in over : ~GetIsrolledup(db[d])
           V == Visited(db)
<1>0. MarkInv /\ CopiedInv /\ LeftoverInv
  BY DEF CopiesInv, UnrollInv
<1>1. PICK h \in Dirs : Finds(h, e)
  BY <1>0, SomebodyFinds
<1>2. \A d \in V \ {h} : d \in Dirs /\ d # e /\ (e \in Below[d] => ~db[d].isroll)
  BY <1>0, <1>1, OthersAreNot
<1>3. /\ \A d \in Dirs : Part(d, db[d].roll) /\ Part(d, db[d].pent)
      /\ \A d \in Dirs : db[d].roll \in Seq(Dirs) /\ db[d].pent \in Seq(Dirs)
      /\ \A d \in Dirs : pc[d] = "out"
  BY <1>0 DEF CopiedInv, CopiedRows, IInv, RowsInv, LogInv, Idle
<1>4. \A d \in V \ {h} : e \notin ToSet(db[d].roll)
  <2> SUFFICES ASSUME NEW d \in V \ {h}, e \in ToSet(db[d].roll) PROVE FALSE
    OBVIOUS
  <2>1. d \in Dirs /\ e \in Below[d] /\ ~db[d].isroll
    BY <1>2, <1>3 DEF Part
  <2> QED  BY <1>0, <2>1, EmptyList DEF MarkInv
<1>5. \A d \in V \ {h} : e \in ToSet(db[d].pent) => kept
  <2> SUFFICES ASSUME NEW d \in V \ {h}, e \in ToSet(db[d].pent) PROVE kept
    OBVIOUS
  <2>1. d \in Dirs /\ e \in Below[d] /\ ~db[d].isroll
    BY <1>2, <1>3 DEF Part
  <2>2. db[d].pent # <<>> /\ d \in torn
    BY <1>0, <2>1, EmptyList DEF MarkInv
  <2>3. ~Covered(d)
    BY DEF Covered, Running, Idle
  <2>4. \A a \in Above(d) : ~db[a].isroll
    BY <1>0 DEF Visited, MarkInv, GetIsrolledup, Above
  <2>5. Interrupted
    BY <1>0, <2>1, <2>2, <2>3, <2>4 DEF LeftoverInv
  <2> QED  BY <2>1, <2>2, <2>5 DEF Above, GetIsrolledup
<1>6. ASSUME NEW s, s = db[h].roll \/ s = db[h].pent, h # e, e \notin ToSet(s)
      PROVE  lost
  <2>1. e \in Below[h] /\ db[h].isroll /\ h \in V
    BY <1>1, <1>6 DEF Finds
  <2>2. h \in torn
    BY <1>0, <1>3, <1>6, <2>1 DEF CopiedInv, CopiedRows
  <2> QED  BY <1>0, <2>1, <2>2 DEF MarkInv, GetIsrolledup, Above
<1>7. SummariesSeen(db, e) = 1 \/ (SummariesSeen(db, e) = 0 /\ lost)
  <2> DEFINE rows == [d \in Dirs |-> db[d].roll]
  <2>1. /\ \A d \in Dirs : rows[d] = db[d].roll /\ rows[d] \in Seq(Dirs) /\ Part(d, rows[d])
        /\ SummariesSeen(db, e) = Seen(db, e, rows)
    BY <1>3 DEF SummariesSeen
  <2> HIDE DEF rows
  <2>2. \A d \in V \ {h} : e \notin ToSet(rows[d])
    BY <1>2, <1>4, <2>1
  <2>3. Seen(db, e, rows) = IF h = e \/ e \in ToSet(rows[h]) THEN 1 ELSE 0
    BY <1>0, <1>1, <2>1, <2>2, SeenIs
  <2>4. rows[h] = db[h].roll
    BY <2>1
  <2> QED  BY <1>6, <2>1, <2>3, <2>4
<1>8. \/ EntriesSeen(db, e) = 1 \/ (EntriesSeen(db, e) = 0 /\ lost)
      \/ (EntriesSeen(db, e) > 1 /\ kept)
  <2> DEFINE rows == [d \in Dirs |-> db[d].pent]
  <2>1. /\ \A d \in Dirs : rows[d] = db[d].pent /\ rows[d] \in Seq(Dirs) /\ Part(d, rows[d])
        /\ EntriesSeen(db, e) = Seen(db, e, rows)
    BY <1>3 DEF EntriesSeen
  <2> HIDE DEF rows
  <2>2. CASE \A d \in V \ {h} : e \notin ToSet(rows[d])
    <3>1. Seen(db, e, rows) = IF h = e \/ e \in ToSet(rows[h]) THEN 1 ELSE 0
      BY <1>0, <1>1, <2>1, <2>2, SeenIs
    <3>2. rows[h] = db[h].pent
      BY <2>1
    <3> QED  BY <1>6, <2>1, <3>1, <3>2
  <2>3. CASE ~\A d \in V \ {h} : e \notin ToSet(rows[d])
    <3>1. PICK d \in V \ {h} : e \in ToSet(rows[d])
      BY <2>3
    <3>2. Seen(db, e, rows) = 1 \/ Seen(db, e, rows) > 1
      BY <1>0, <1>1, <2>1, <3>1, SeenIs
    <3>3. kept
      BY <1>2, <1>5, <2>1, <3>1
    <3> QED  BY <2>1, <3>2, <3>3
  <2> QED  BY <2>2, <2>3
<1> HIDE DEF over
<1> QED  BY <1>7, <1>8 DEF over

-----------------------------------------------------------------------------
(* What gufi_rollup announces                                              *)

\* Without a limit, these directories are rolled up from a level on, and a
\* query then visits those.
Qualifies(d, m) ==
    \A e \in Under(d) : /\ Level(e) >= m
                        /\ \A c \in Kids(e) : CheckPairPermissions(db[e].perm, db[c].perm)
VisitedAfter(m) == {d \in Dirs : \A e \in Above(d) : ~Qualifies(e, m)}

\* gufi_rollup runs over an index that was not rolled up, without a failure so far.
Fresh == Running("rollup") /\ Latest.clean /\ Latest.fresh

\* The directories that are counted: those that are done and did not roll up,
\* with their subdirectories that did, and the root.
Stays(d) == pc[d] = "done" /\ (~rolledup[d] \/ d = Root)
Stops(k) == rolledup[k] /\ \E p \in Dirs : k \in Kids(p) /\ pc[p] = "done" /\ ~rolledup[p]
Counted == {d \in Dirs : Stays(d) \/ Stops(d)}

\* Where a directory is in its walk, and what is known of it there.
CountInv(d) ==
    /\ pc[d] \in {"todo", "copy", "done"}
    /\ pc[d] \in {"copy", "done"} => \A k \in Kids(d) : pc[k] = "done"
    /\ pc[d] = "copy" => \A k \in Kids(d) : rolledup[k]
    /\ rolledup[d] => pc[d] = "done" /\ \A k \in Kids(d) : rolledup[k]
    /\ db[d].isroll => ~job.dry_run /\ (rolledup[d] \/ pc[d] = "copy")
    /\ rolledup[d] => \/ job.dry_run \/ db[d].isroll
                      \/ \E p \in Dirs : d \in Kids(p) /\ (pc[p] = "copy" \/ rolledup[p])
    /\ job.limit = 0 =>
           /\ pc[d] = "done" => (rolledup[d] <=> Qualifies(d, job.min_level))
           /\ pc[d] = "copy" => Qualifies(d, job.min_level)
CountsInv == Fresh => (\A d \in Dirs : CountInv(d)) /\ remaining = Cardinality(Counted)

\* Without a limit, what is announced depends on the level only.
LogCounts ==
    \A i \in DOMAIN log, m \in Nat :
        /\ log[i].job.tool = "rollup" /\ log[i].job.limit = 0 /\ log[i].job.min_level = m
        /\ log[i].ended /\ log[i].clean /\ log[i].fresh
        => log[i].remaining = Cardinality(VisitedAfter(m))

\* What was announced is what a query visits.
Announced ==
    Succeeded("rollup") /\ Latest.fresh /\ ~Latest.job.dry_run =>
        Latest.remaining = Cardinality(Visited(db))

\* A directory qualifies when it is deep enough and may take in its
\* subdirectories, which qualify.
LEMMA QualifiesIs ==
    ASSUME NEW d \in Dirs, NEW m
    PROVE  /\ Qualifies(d, m) <=>
                  /\ Level(d) >= m
                  /\ \A c \in Kids(d) : Qualifies(c, m) /\ CheckPairPermissions(db[d].perm, db[c].perm)
           /\ Qualifies(d, m) => \A e \in Below[d] : Qualifies(e, m)
<1>1. ASSUME NEW e \in Below[d] PROVE Under(e) \subseteq Under(d)
  BY BelowBelow DEF Under
<1>2. Qualifies(d, m) => \A e \in Below[d] : Qualifies(e, m)
  BY <1>1 DEF Qualifies
<1>3. Kids(d) \subseteq Below[d] /\ d \in Under(d)
  BY BelowIs DEF Under
<1>4. ASSUME Level(d) >= m,
             \A c \in Kids(d) : Qualifies(c, m) /\ CheckPairPermissions(db[d].perm, db[c].perm)
      PROVE  Qualifies(d, m)
  <2> SUFFICES ASSUME NEW e \in Under(d)
               PROVE  /\ Level(e) >= m
                      /\ \A c \in Kids(e) : CheckPairPermissions(db[e].perm, db[c].perm)
    BY DEF Qualifies
  <2>1. CASE e = d
    BY <1>4, <2>1
  <2>2. CASE e # d
    <3>1. PICK c \in Kids(d) : e \in Under(c)
      BY <2>2, UnderPassesOn
    <3>2. Qualifies(c, m)
      BY <1>4
    <3> QED  BY <3>1, <3>2 DEF Qualifies
  <2> QED  BY <2>1, <2>2
<1> QED  BY <1>2, <1>3, <1>4 DEF Qualifies

\* When everybody is done, those that are counted are those that have nothing
\* above them that rolled up.
LEMMA CountedAtEnd ==
    ASSUME IInv, \A d \in Dirs : pc[d] = "done" /\ CountInv(d)
    PROVE  Counted = {d \in Dirs : \A e \in Above(d) : ~rolledup[e]}
<1>1. ASSUME NEW d \in Dirs, rolledup[d] PROVE \A e \in Below[d] : rolledup[e]
  <2> DEFINE S == {x \in Dirs : rolledup[x]}
  <2>1. S \in SUBSET Dirs /\ Kids(d) \subseteq S /\ \A x \in S : Kids(x) \subseteq S
    BY <1>1, TreeIs DEF CountInv
  <2> HIDE DEF S
  <2>2. Below[d] \subseteq S
    BY <2>1, BelowIs
  <2> QED  BY <2>2 DEF S
<1>2. ASSUME NEW d \in Dirs, \A e \in Above(d) : ~rolledup[e] PROVE Stays(d) \/ Stops(d)
  <2>1. CASE d = Root
    BY <2>1 DEF Stays
  <2>2. CASE d # Root
    <3>1. PICK p \in Dirs : d \in Kids(p)
      BY <2>2, ParentOf
    <3>2. ~rolledup[p]
      BY <1>2, <3>1, ParentOf
    <3> QED  BY <3>1, <3>2 DEF Stays, Stops
  <2> QED  BY <2>1, <2>2
<1>3. ASSUME NEW d \in Dirs, NEW e \in Above(d), rolledup[e] PROVE ~Stays(d) /\ ~Stops(d)
  <2>1. e \in Dirs /\ d \in Below[e]
    BY DEF Above
  <2>2. rolledup[d] /\ d # Root
    BY <1>1, <1>3, <2>1, ParentOf DEF Above
  <2>3. \A p \in Dirs : d \in Kids(p) => rolledup[p]
    BY <1>1, <1>3, <2>1, ParentIs DEF Under
  <2> QED  BY <2>2, <2>3 DEF Stays, Stops
<1> QED  BY <1>2, <1>3 DEF Counted

\* So a query visits as many directories,
LEMMA VisitedAtEnd ==
    ASSUME IInv, MarkInv, \A d \in Dirs : pc[d] = "done" /\ CountInv(d), ~job.dry_run
    PROVE  Counted = Visited(db)
<1>1. Counted = {d \in Dirs : \A e \in Above(d) : ~rolledup[e]}
  BY CountedAtEnd
<1>2. \A d \in Dirs : GetIsrolledup(db[d]) <=> db[d].isroll
  BY DEF MarkInv, GetIsrolledup
<1>3. \A d \in Dirs : db[d].isroll => rolledup[d]
  BY DEF CountInv
<1> DEFINE S == {x \in Dirs : rolledup[x] => db[x].isroll \/ \E a \in Above(x) : db[a].isroll}
<1>4. Root \in S
  <2>1. Root \in Dirs /\ \A p \in Dirs : Root \notin Kids(p)
    BY TreeAssumption
  <2> QED  BY <2>1 DEF CountInv
<1>5. ASSUME NEW x \in S, NEW k \in Kids(x) PROVE k \in S
  <2>1. k \in Dirs /\ x \in Dirs /\ Above(k) = Above(x) \cup {x} /\ \A p \in Dirs : k \in Kids(p) => p = x
    BY AboveKid
  <2>2. rolledup[k] => db[k].isroll \/ rolledup[x]
    BY <2>1 DEF CountInv
  <2> QED  BY <2>1, <2>2
<1>6. \A d \in Dirs : d \in S
  <2>1. Root \in Dirs /\ S \in SUBSET Dirs /\ Kids(Root) \subseteq S /\ \A x \in S : Kids(x) \subseteq S
    BY <1>4, <1>5, TreeAssumption
  <2> HIDE DEF S
  <2>2. Below[Root] \subseteq S
    BY <2>1, BelowIs
  <2> QED  BY <1>4, <2>2, NoCycle DEF Under
<1>7. ASSUME NEW d \in Dirs, \A e \in Above(d) : ~db[e].isroll, NEW e \in Above(d), rolledup[e]
      PROVE  FALSE
  <2>1. e \in Dirs /\ d \in Below[e]
    BY DEF Above
  <2>2. PICK a \in Above(e) : db[a].isroll
    BY <1>6, <1>7, <2>1
  <2>3. a \in Above(d)
    BY <2>1, <2>2, BelowBelow DEF Above
  <2> QED  BY <1>7, <2>2, <2>3
<1>8. Visited(db) = {d \in Dirs : \A e \in Above(d) : ~db[e].isroll}
  BY <1>2 DEF Visited, Above
<1>9. \A d \in Dirs : Above(d) \subseteq Dirs
  BY DEF Above
<1> QED  BY <1>1, <1>3, <1>7, <1>8, <1>9

\* and without a limit it is known which.
LEMMA QualifyAtEnd ==
    ASSUME IInv, \A d \in Dirs : pc[d] = "done" /\ CountInv(d), job.limit = 0
    PROVE  Counted = VisitedAfter(job.min_level)
<1>1. Counted = {d \in Dirs : \A e \in Above(d) : ~rolledup[e]}
  BY CountedAtEnd
<1>2. \A d \in Dirs : Above(d) \subseteq Dirs /\ (rolledup[d] <=> Qualifies(d, job.min_level))
  BY DEF Above, CountInv
<1> QED  BY <1>1, <1>2 DEF VisitedAfter

\* Permissions do not change, and so neither does what qualifies.
PermsStay == \A e \in Dirs : db'[e].perm = db[e].perm

LEMMA QualifiesStays ==
    ASSUME PermsStay
    PROVE  /\ \A d \in Dirs, m \in Nat : Qualifies(d, m)' <=> Qualifies(d, m)
           /\ \A m \in Nat : VisitedAfter(m)' = VisitedAfter(m)
<1>1. ASSUME NEW d \in Dirs, NEW m \in Nat PROVE Qualifies(d, m)' <=> Qualifies(d, m)
  <2>1. Under(d) \subseteq Dirs /\ \A e \in Dirs : Kids(e) \subseteq Dirs
    BY TreeIs DEF Under
  <2>2. \A e \in Under(d) : \A c \in Kids(e) :
            CheckPairPermissions(db'[e].perm, db'[c].perm) <=> CheckPairPermissions(db[e].perm, db[c].perm)
    BY <2>1 DEF PermsStay
  <2> QED  BY <2>2 DEF Qualifies
<1>2. ASSUME NEW m \in Nat PROVE VisitedAfter(m)' = VisitedAfter(m)
  <2>1. \A d \in Dirs : Above(d) \subseteq Dirs
    BY DEF Above
  <2> QED  BY <1>1, <2>1 DEF VisitedAfter
<1> QED  BY <1>1, <1>2

LEMMA PermsStayNext ==
    ASSUME IInv, [Next]_vars
    PROVE  PermsStay
<1>1. ASSUME Rests PROVE PermsStay
  BY <1>1 DEF Rests, Same, PermsStay
<1>2. ASSUME NEW d \in Dirs, AscendInit(d) \/ InitFails(d) PROVE PermsStay
  BY <1>2, InitIs DEF Emptied, Same, PermsStay, IInv
<1>3. ASSUME NEW d \in Dirs, NEW n \in 0 .. Statements, CopyChild(d, n) PROVE PermsStay
  BY <1>3, CopyChildIs DEF Same, PermsStay
<1>4. ASSUME NEW d \in Dirs, NEW n \in 0 .. (Statements - 1), CopyFails(d, n) PROVE PermsStay
  BY <1>4, CopyFailsIs DEF Same, PermsStay
<1>5. ASSUME NEW d \in Dirs, NEW i \in BOOLEAN, UnrollupDir(d, i) PROVE PermsStay
  BY <1>5, UnrollupDirIs DEF Emptied, Same, PermsStay, IInv
<1> QED  BY <1>1, <1>2, <1>3, <1>4, <1>5, StepKinds, RestIs

\* Nobody has been where a directory is about to ascend.
LEMMA AboutToAscend ==
    ASSUME IInv, MarkInv, \A e \in Dirs : CountInv(e), NEW d \in Dirs, MustDecide(d)
    PROVE  /\ pc[d] = "todo" /\ ~rolledup[d] /\ ~db[d].isroll /\ db[d].roll = <<>>
           /\ \A c \in Kids(d) : c \in Dirs /\ c # d /\ pc[c] = "done"
           /\ job \in Options /\ job.min_level \in Nat /\ job.limit \in Nat
<1>1. /\ pc[d] = "todo" /\ Running("rollup")
      /\ \A c \in Kids(d) : c \in Dirs /\ c # d /\ pc[c] \in {"done", "out"}
  BY AboveKid DEF MustDecide, CanAscend
<1>2. ~rolledup[d] /\ ~db[d].isroll /\ \A c \in Kids(d) : pc[c] = "done"
  BY <1>1 DEF CountInv
<1>3. job \in Options /\ job.min_level \in Nat /\ job.limit \in Nat
  <2>1. job \in Options
    BY <1>1 DEF IInv, WalkTypes, Running
  <2> QED  BY <2>1, OptionsAssumption
<1> QED  BY <1>1, <1>2, <1>3 DEF MarkInv

\* should_rollup decides so.
LEMMA DecidesSo ==
    ASSUME IInv, MarkInv, \A e \in Dirs : CountInv(e), NEW d \in Dirs, MustDecide(d)
    PROVE  /\ ShouldRollup(d) => \A c \in Kids(d) : rolledup[c]
           /\ job.limit = 0 => (ShouldRollup(d) <=> Qualifies(d, job.min_level))
<1>1. /\ db[d].roll = <<>>
      /\ \A c \in Kids(d) : c \in Dirs /\ pc[c] = "done"
  BY AboutToAscend
<1>2. GetPermissions(d, db) = db[d].perm
  <2>1. <<d>> \o db[d].roll = <<d>>
    BY <1>1, ConcatEmptySeq
  <2> QED  BY <2>1 DEF GetPermissions, Last
<1>3. CanRollup(d) <=> \A c \in Kids(d) : rolledup[c] /\ CheckPairPermissions(db[d].perm, db[c].perm)
  BY <1>2 DEF CanRollup
<1>4. ShouldRollup(d) => \A c \in Kids(d) : rolledup[c]
  BY <1>3 DEF ShouldRollup
<1>5. ASSUME job.limit = 0 PROVE ShouldRollup(d) <=> Qualifies(d, job.min_level)
  <2>1. ShouldRollup(d) <=> Level(d) >= job.min_level /\ CanRollup(d)
    BY <1>5 DEF ShouldRollup
  <2>2. \A c \in Kids(d) : rolledup[c] <=> Qualifies(c, job.min_level)
    BY <1>1, <1>5 DEF CountInv
  <2>3. Qualifies(d, job.min_level) <=>
            /\ Level(d) >= job.min_level
            /\ \A c \in Kids(d) : Qualifies(c, job.min_level)
                                  /\ CheckPairPermissions(db[d].perm, db[c].perm)
    BY QualifiesIs
  <2> QED  BY <1>3, <2>1, <2>2, <2>3
<1> QED  BY <1>4, <1>5

\* A directory does not roll up: it is counted with its subdirectories that did.
LEMMA CountRefuse ==
    ASSUME IInv, MarkInv, Fresh, CountsInv, NEW d \in Dirs, AscendRefuse(d), PermsStay
    PROVE  (\A e \in Dirs : CountInv(e)') /\ remaining' = Cardinality(Counted)'
<1>1. /\ MustDecide(d) /\ ~ShouldRollup(d) /\ UNCHANGED <<job, rolledup>>
      /\ remaining' = remaining + RemainingHere(d) /\ pc' = [pc EXCEPT ![d] = "done"]
  BY DEF AscendRefuse, Done
<1>2. (\A e \in Dirs : CountInv(e)) /\ remaining = Cardinality(Counted) /\ WalkTypes
  BY DEF CountsInv, IInv
<1>3. /\ pc[d] = "todo" /\ ~rolledup[d] /\ ~db[d].isroll
      /\ \A c \in Kids(d) : c \in Dirs /\ c # d /\ pc[c] = "done"
      /\ job.min_level \in Nat
  BY <1>1, <1>2, AboutToAscend
<1>4. job.limit = 0 => ~Qualifies(d, job.min_level)
  BY <1>1, <1>2, DecidesSo
<1>5. \A e \in Dirs : Same(e)
  BY SettleIs DEF Settles, IInv
<1>6. pc'[d] = "done" /\ \A e \in Dirs \ {d} : pc'[e] = pc[e]
  BY <1>1, <1>2 DEF WalkTypes
<1>7. \A e \in Dirs : Qualifies(e, job.min_level)' <=> Qualifies(e, job.min_level)
  BY <1>1, <1>3, QualifiesStays
<1>8. ASSUME NEW e \in Dirs PROVE CountInv(e)'
  <2>0. Kids(e) \subseteq Dirs /\ CountInv(e)
    BY <1>2, TreeIs
  <2>1. CASE e = d
    BY <1>1, <1>3, <1>4, <1>5, <1>6, <1>7, <2>1 DEF CountInv, Same
  <2>2. CASE e # d
    BY <1>1, <1>3, <1>5, <1>6, <1>7, <2>0, <2>2 DEF CountInv, Same
  <2> QED  BY <2>1, <2>2
<1> DEFINE T == {c \in Kids(d) : rolledup[c]}
<1>9. Counted' = Counted \cup (T \cup {d})
  <2>1. \A e \in Dirs : Stays(e)' <=> Stays(e) \/ e = d
    BY <1>1, <1>3, <1>6 DEF Stays
  <2>2. \A e \in Dirs : Stops(e)' <=> Stops(e) \/ e \in T
    BY <1>1, <1>3, <1>6 DEF Stops
  <2>3. T \subseteq Dirs
    BY <1>3
  <2> QED  BY <2>1, <2>2, <2>3 DEF Counted
<1>10. Counted \cap (T \cup {d}) = {} /\ d \notin T
  <2>1. d \notin Counted
    BY <1>3 DEF Counted, Stays, Stops
  <2>2. \A c \in T : c \notin Counted
    <3> SUFFICES ASSUME NEW c \in Kids(d), rolledup[c] PROVE c \notin Counted
      OBVIOUS
    <3>1. c # Root /\ \A p \in Dirs : c \in Kids(p) => p = d
      BY AboveKid, TreeAssumption
    <3> QED  BY <1>3, <3>1 DEF Counted, Stays, Stops
  <2> QED  BY <1>3, <2>1, <2>2
<1>11. IsFiniteSet(Counted) /\ IsFiniteSet(T)
  BY <1>3, TreeAssumption, FS_Subset DEF Counted
<1>12. RemainingHere(d) = Cardinality(T) + 1
  <2>1. Cardinality(T) \in Nat
    BY <1>11, FS_CardinalityType
  <2> QED  BY <2>1 DEF RemainingHere
<1> HIDE DEF T
<1>13. Cardinality(T \cup {d}) = Cardinality(T) + 1 /\ IsFiniteSet(T \cup {d})
  BY <1>10, <1>11, FS_AddElement
<1>14. Cardinality(Counted \cup (T \cup {d})) = Cardinality(Counted) + Cardinality(T \cup {d})
  <2>1. Cardinality(Counted \cup (T \cup {d}))
            = Cardinality(Counted) + Cardinality(T \cup {d}) - Cardinality(Counted \cap (T \cup {d}))
    BY <1>11, <1>13, FS_Union
  <2>2. Cardinality(Counted \cap (T \cup {d})) = 0
    BY <1>10, FS_EmptySet
  <2>3. Cardinality(Counted) \in Nat /\ Cardinality(T \cup {d}) \in Nat
    BY <1>11, <1>13, FS_CardinalityType
  <2> QED  BY <2>1, <2>2, <2>3
<1> QED  BY <1>1, <1>2, <1>8, <1>9, <1>12, <1>13, <1>14

\* A directory has rolled up: the one above counts it, if that one does not.
LEMMA CountRolledUp ==
    ASSUME IInv, Fresh, CountsInv, NEW d \in Dirs, UNCHANGED job, \A e \in Dirs : Same(e),
           pc[d] \in {"todo", "copy"}, \A c \in Kids(d) : pc[c] = "done" /\ rolledup[c],
           pc' = [pc EXCEPT ![d] = "done"], rolledup' = [rolledup EXCEPT ![d] = TRUE],
           RemainingRoot(d), job.dry_run \/ db[d].isroll, job.min_level \in Nat,
           job.limit = 0 => Qualifies(d, job.min_level)
    PROVE  (\A e \in Dirs : CountInv(e)') /\ remaining' = Cardinality(Counted)'
<1>1. (\A e \in Dirs : CountInv(e)) /\ remaining = Cardinality(Counted) /\ WalkTypes
  BY DEF CountsInv, IInv
<1>2. /\ pc'[d] = "done" /\ rolledup'[d] = TRUE
      /\ \A e \in Dirs \ {d} : pc'[e] = pc[e] /\ rolledup'[e] = rolledup[e]
  BY <1>1 DEF WalkTypes
<1>3. ~rolledup[d] /\ \A c \in Kids(d) : c \in Dirs /\ c # d
  BY <1>1, AboveKid DEF CountInv
<1>4. PermsStay
  BY DEF PermsStay, Same
<1>5. \A e \in Dirs : Qualifies(e, job.min_level)' <=> Qualifies(e, job.min_level)
  BY <1>4, QualifiesStays
<1>6. ASSUME NEW e \in Dirs PROVE CountInv(e)'
  <2>0. Kids(e) \subseteq Dirs /\ CountInv(e)
    BY <1>1, TreeIs
  <2>1. CASE e = d
    BY <1>2, <1>3, <1>5, <2>0, <2>1 DEF CountInv, Same
  <2>2. CASE e # d
    BY <1>2, <1>3, <1>5, <2>0, <2>2 DEF CountInv, Same
  <2> QED  BY <2>1, <2>2
<1>7. \A p \in Dirs : d \in Kids(p) => pc[p] # "done"
  BY <1>1 DEF CountInv
<1>8. \A e \in Dirs : Stays(e)' <=> Stays(e) \/ (e = d /\ d = Root)
  BY <1>2 DEF Stays
<1>9. \A e \in Dirs : Stops(e)' <=> Stops(e)
  <2> SUFFICES ASSUME NEW e \in Dirs PROVE Stops(e)' <=> Stops(e)
    OBVIOUS
  <2>1. CASE e = d
    <3>1. ~Stops(e)
      BY <1>3, <2>1 DEF Stops
    <3>2. \A p \in Dirs : d \in Kids(p) => p # d /\ pc'[p] # "done"
      BY <1>2, <1>3, <1>7
    <3> QED  BY <2>1, <3>1, <3>2 DEF Stops
  <2>2. CASE e # d
    BY <1>2, <2>2 DEF Stops
  <2> QED  BY <2>1, <2>2
<1>10. Counted' = IF d = Root THEN Counted \cup {d} ELSE Counted
  BY <1>8, <1>9 DEF Counted
<1>11. d \notin Counted /\ IsFiniteSet(Counted)
  <2>1. d \notin Counted
    BY <1>3 DEF Counted, Stays, Stops
  <2>2. IsFiniteSet(Counted)
    BY TreeAssumption, FS_Subset DEF Counted
  <2> QED  BY <2>1, <2>2
<1>12. Cardinality(Counted \cup {d}) = Cardinality(Counted) + 1
  BY <1>11, FS_AddElement
<1>13. remaining' = IF d = Root THEN remaining + 1 ELSE remaining
  BY DEF RemainingRoot
<1> QED  BY <1>1, <1>6, <1>10, <1>12, <1>13

LEMMA CountDry ==
    ASSUME IInv, MarkInv, Fresh, CountsInv, NEW d \in Dirs, AscendDry(d)
    PROVE  CountsInv'
<1>1. /\ MustDecide(d) /\ ShouldRollup(d) /\ UNCHANGED job /\ job.dry_run /\ RemainingRoot(d)
      /\ pc' = [pc EXCEPT ![d] = "done"] /\ rolledup' = [rolledup EXCEPT ![d] = TRUE]
  BY DEF AscendDry, Done
<1>2. \A e \in Dirs : CountInv(e)
  BY DEF CountsInv
<1>3. /\ pc[d] = "todo" /\ \A c \in Kids(d) : pc[c] = "done"
      /\ job.min_level \in Nat
  BY <1>1, <1>2, AboutToAscend
<1>4. /\ \A c \in Kids(d) : rolledup[c]
      /\ job.limit = 0 => Qualifies(d, job.min_level)
  BY <1>1, <1>2, DecidesSo
<1>5. \A e \in Dirs : Same(e)
  BY SettleIs DEF Settles, IInv
<1> QED  BY <1>1, <1>3, <1>4, <1>5, CountRolledUp DEF CountsInv

LEMMA CountFinish ==
    ASSUME IInv, MarkInv, Fresh, CountsInv, NEW d \in Dirs, FinishRollup(d)
    PROVE  CountsInv'
<1>1. /\ pc[d] = "copy" /\ UNCHANGED job /\ RemainingRoot(d)
      /\ pc' = [pc EXCEPT ![d] = "done"] /\ rolledup' = [rolledup EXCEPT ![d] = TRUE]
  BY DEF FinishRollup, Done
<1>2. /\ db[d].isroll
      /\ \A c \in Kids(d) : pc[c] = "done" /\ rolledup[c]
      /\ job.limit = 0 => Qualifies(d, job.min_level)
  BY <1>1 DEF CountsInv, CountInv, MarkInv
<1>3. job.min_level \in Nat
  BY OptionsAssumption DEF Fresh, Running, IInv, WalkTypes
<1>4. \A e \in Dirs : Same(e)
  BY SettleIs DEF Settles, IInv
<1> QED  BY <1>1, <1>2, <1>3, <1>4, CountRolledUp DEF CountsInv

\* Nobody is done with a step.
LEMMA CountStays ==
    ASSUME IInv, Fresh, CountsInv, UNCHANGED <<rolledup, remaining>>,
           \A e \in Dirs : pc'[e] = "done" <=> pc[e] = "done", \A e \in Dirs : CountInv(e)'
    PROVE  CountsInv'
<1>1. \A e \in Dirs : (Stays(e)' <=> Stays(e)) /\ (Stops(e)' <=> Stops(e))
  BY DEF Stays, Stops
<1>2. Counted' = Counted
  BY <1>1 DEF Counted
<1> QED  BY <1>2 DEF CountsInv

LEMMA CountInit ==
    ASSUME IInv, MarkInv, Fresh, CountsInv, NEW d \in Dirs, AscendInit(d), PermsStay
    PROVE  CountsInv'
<1>1. /\ MustDecide(d) /\ ShouldRollup(d) /\ ~job.dry_run /\ UNCHANGED <<job, rolledup, remaining>>
      /\ pc' = [pc EXCEPT ![d] = "copy"]
  BY DEF AscendInit
<1>2. (\A e \in Dirs : CountInv(e)) /\ WalkTypes /\ RowsInv
  BY DEF CountsInv, IInv
<1>3. /\ pc[d] = "todo" /\ ~rolledup[d]
      /\ \A c \in Kids(d) : c \in Dirs /\ c # d /\ pc[c] = "done"
      /\ job.min_level \in Nat
  BY <1>1, <1>2, AboutToAscend
<1>4. /\ \A c \in Kids(d) : rolledup[c]
      /\ job.limit = 0 => Qualifies(d, job.min_level)
  BY <1>1, <1>2, DecidesSo
<1>5. \A e \in Dirs \ {d} : Same(e)
  BY <1>2, InitIs
<1>6. pc'[d] = "copy" /\ \A e \in Dirs \ {d} : pc'[e] = pc[e]
  BY <1>1, <1>2 DEF WalkTypes
<1>7. \A e \in Dirs : Qualifies(e, job.min_level)' <=> Qualifies(e, job.min_level)
  BY <1>1, <1>3, QualifiesStays
<1>8. ASSUME NEW e \in Dirs PROVE CountInv(e)'
  <2>0. Kids(e) \subseteq Dirs /\ CountInv(e)
    BY <1>2, TreeIs
  <2>1. CASE e = d
    BY <1>1, <1>3, <1>4, <1>6, <1>7, <2>1 DEF CountInv
  <2>2. CASE e # d
    BY <1>1, <1>3, <1>5, <1>6, <1>7, <2>0, <2>2 DEF CountInv, Same
  <2> QED  BY <2>1, <2>2
<1> QED  BY <1>1, <1>3, <1>6, <1>8, CountStays

LEMMA CountCopy ==
    ASSUME IInv, MarkInv, Fresh, CountsInv, NEW d \in Dirs, NEW n \in 0 .. Statements,
           CopyChild(d, n), NoFault, PermsStay
    PROVE  CountsInv'
<1> DEFINE head == Head(left[d])
<1>1. PICK sub \in Dirs : sub = head
  BY CopyChildIs
<1>2. /\ pc[d] = "copy" /\ UNCHANGED <<job, pc, rolledup, remaining>>
      /\ sub \in Kids(d) /\ sub # d
      /\ db'[d].isroll = db[d].isroll
      /\ \A e \in Dirs \ {d, sub} : Same(e)
      /\ db'[sub] = db[sub] \/ Deleted(db[sub], db'[sub], n)
  BY <1>1, CopyChildIs
<1> HIDE DEF head
<1>3. (\A e \in Dirs : CountInv(e)) /\ ~job.dry_run
  BY <1>2 DEF CountsInv, MarkInv
<1>4. job.min_level \in Nat
  BY OptionsAssumption DEF Fresh, Running, IInv, WalkTypes
<1>5. \A e \in Dirs : Qualifies(e, job.min_level)' <=> Qualifies(e, job.min_level)
  BY <1>2, <1>4, QualifiesStays
<1>6. db'[sub].isroll => db[sub].isroll
  BY <1>2 DEF Deleted
<1>7. ASSUME NEW e \in Dirs PROVE CountInv(e)'
  <2>0. Kids(e) \subseteq Dirs /\ CountInv(e)
    BY <1>3, TreeIs
  <2>1. CASE e = d
    BY <1>2, <1>3, <1>5, <2>0, <2>1 DEF CountInv
  <2>2. CASE e = sub
    BY <1>2, <1>3, <1>5, <1>6, <2>0, <2>2 DEF CountInv
  <2>3. CASE e \notin {d, sub}
    BY <1>2, <1>3, <1>5, <2>0, <2>3 DEF CountInv, Same
  <2> QED  BY <2>1, <2>2, <2>3
<1> QED  BY <1>2, <1>7, CountStays

\* A roll-up of an index that is not rolled up starts from the bottom.
LEMMA CountStart ==
    ASSUME IInv, NEW o \in Options, NEW h \in Dirs \cup {NoDir}, Start(o, h)
    PROVE  CountsInv'
<1> DEFINE y == [job |-> o, remaining |-> 0, ended |-> FALSE, clean |-> h = NoDir,
                 fresh |-> \A d \in Dirs : ~db[d].isroll,
                 torn |-> \E d \in torn : db[d].isroll]
<1> SUFFICES ASSUME Fresh' PROVE (\A d \in Dirs : CountInv(d)') /\ remaining' = Cardinality(Counted)'
  BY DEF CountsInv
<1>1. /\ job' = o /\ UNCHANGED db /\ remaining' = 0
      /\ rolledup' = [d \in Dirs |-> o.tool = "rollup" /\ d \in Walked(o) /\ StopsAt(o, d)]
      /\ log' = Append(log, y)
      /\ pc' = [d \in Dirs |->
                IF o.tool \notin BottomUpTools \/ d \notin Walked(o)
                   \/ (h # NoDir /\ d \in Below[h]) THEN "out"
                ELSE IF h # NoDir /\ d \in {h} \cup Above(h) THEN "hung"
                ELSE "todo"]
  BY DEF Start
<1>2. Latest' = y
  <2>1. log \in Seq(LogEntries)
    BY DEF IInv, WalkTypes
  <2> HIDE DEF y
  <2>2. Len(log') = Len(log) + 1 /\ log'[Len(log) + 1] = y
    BY <1>1, <2>1
  <2> QED  BY <2>2 DEF Latest
<1>3. o.tool = "rollup" /\ h = NoDir /\ \A d \in Dirs : ~db[d].isroll
  BY <1>1, <1>2 DEF Fresh, Running
<1>4. \A d \in Dirs : ~StopsAt(o, d)
  BY <1>3 DEF StopsAt, RollupDescendStops, GetIsrolledup
<1>5. Walked(o) = Dirs
  BY <1>4 DEF Walked, Above
<1>6. \A d \in Dirs : pc'[d] = "todo" /\ rolledup'[d] = FALSE /\ ~db'[d].isroll
  BY <1>1, <1>3, <1>4, <1>5 DEF BottomUpTools
<1>7. Counted' = {}
  BY <1>6 DEF Counted, Stays, Stops
<1>8. \A d \in Dirs : CountInv(d)'
  BY <1>6 DEF CountInv
<1> QED  BY <1>1, <1>7, <1>8, FS_EmptySet

\* A failure is not without a failure.
LEMMA CountFault ==
    ASSUME IInv, job # NoJob, Fault
    PROVE  CountsInv'
BY FaultIsLogged DEF CountsInv, Fresh

LEMMA CountNext ==
    ASSUME IInv, MarkInv, CountsInv, [Next]_vars
    PROVE  CountsInv'
<1>0. PermsStay
  BY PermsStayNext
<1>1. ASSUME NoFault, UNCHANGED job, ~Fresh PROVE CountsInv'
  BY <1>1 DEF CountsInv, Fresh, NoFault, Latest, Running
<1>2. ASSUME job' = NoJob \/ (UNCHANGED job /\ ~Running("rollup")) PROVE CountsInv'
  BY <1>2 DEF CountsInv, Fresh, Running
<1>3. ASSUME NEW d \in Dirs, \/ AscendUnopenable(d) \/ AscendFails(d) \/ InitFails(d)
                             \/ TreesummaryAscendFails(d)
                             \/ \E n \in 0..(Statements - 1) : CopyFails(d, n)
      PROVE  CountsInv'
  <2>1. job # NoJob /\ Fault
    BY <1>3 DEF AscendUnopenable, AscendFails, InitFails, TreesummaryAscendFails, CopyFails,
                MustDecide, Running, IInv, CopyInv
  <2> QED  BY <2>1, CountFault
<1>4. ASSUME NEW d \in Dirs, AscendSkip(d) PROVE CountsInv'
  <2>1. pc[d] = "todo" /\ rolledup[d] /\ NoFault /\ UNCHANGED job
    BY <1>4 DEF AscendSkip, CanAscend
  <2>2. ~Fresh
    BY <2>1 DEF CountsInv, CountInv
  <2> QED  BY <1>1, <2>1, <2>2
<1>5. ASSUME NEW d \in Dirs, AscendRefuse(d) PROVE CountsInv'
  <2>1. NoFault /\ UNCHANGED job
    BY <1>5 DEF AscendRefuse
  <2> QED  BY <1>0, <1>1, <1>5, <2>1, CountRefuse DEF CountsInv
<1>6. ASSUME NEW d \in Dirs, AscendDry(d) PROVE CountsInv'
  <2>1. NoFault /\ UNCHANGED job
    BY <1>6 DEF AscendDry
  <2> QED  BY <1>1, <1>6, <2>1, CountDry
<1>7. ASSUME NEW d \in Dirs, AscendInit(d) PROVE CountsInv'
  <2>1. NoFault /\ UNCHANGED job
    BY <1>7 DEF AscendInit
  <2> QED  BY <1>0, <1>1, <1>7, <2>1, CountInit
<1>8. ASSUME NEW d \in Dirs, FinishRollup(d) PROVE CountsInv'
  <2>1. NoFault /\ UNCHANGED job
    BY <1>8 DEF FinishRollup, NoFault
  <2> QED  BY <1>1, <1>8, <2>1, CountFinish
<1>9. ASSUME NEW d \in Dirs, NEW n \in 0 .. Statements, CopyChild(d, n) PROVE CountsInv'
  <2>1. (Fault \/ NoFault) /\ UNCHANGED job /\ pc[d] = "copy"
    BY <1>9 DEF CopyChild
  <2>2. job # NoJob
    BY <2>1 DEF IInv, CopyInv, Running
  <2> QED  BY <1>0, <1>1, <1>9, <2>1, <2>2, CountCopy, CountFault
<1>10. ASSUME NEW d \in Dirs, \/ TreesummaryAscend(d) \/ TreesummaryDirFails(d)
                              \/ \E t \in Threads : TreesummaryDir(d, t)
                              \/ \E i \in BOOLEAN : UnrollupDir(d, i) \/ UnrollupFails(d, i)
       PROVE  CountsInv'
  <2>1. UNCHANGED job /\ ~Running("rollup")
    BY <1>10 DEF TreesummaryAscend, TreesummaryDirFails, TreesummaryDir, UnrollupDir, UnrollupFails,
                 Running
  <2> QED  BY <1>2, <2>1
<1>11. CASE ComputeTreesummary \/ End \/ Crash
  <2>1. job' = NoJob
    BY <1>11 DEF ComputeTreesummary, End, Crash
  <2> QED  BY <1>2, <2>1
<1>12. CASE UNCHANGED vars
  <2>1. UNCHANGED <<db, job, pc, rolledup, remaining, log>>
    BY <1>12 DEF vars
  <2>2. Counted' = Counted /\ \A d \in Dirs : CountInv(d)' <=> CountInv(d)
    BY <2>1 DEF Counted, Stays, Stops, CountInv, Qualifies
  <2> QED  BY <2>1, <2>2 DEF CountsInv, Fresh, Running, Latest
<1>13. ASSUME NEW o \in Options, NEW h \in Dirs \cup {NoDir}, Start(o, h) PROVE CountsInv'
  BY <1>13, CountStart
<1> QED  BY <1>3, <1>4, <1>5, <1>6, <1>7, <1>8, <1>9, <1>10, <1>11, <1>12, <1>13 DEF Next

-----------------------------------------------------------------------------

\* A roll-up ends: everybody is done.
LEMMA EndOfCount ==
    ASSUME IInv, MarkInv, CountsInv, Fresh, End
    PROVE  /\ \A d \in Dirs : pc[d] = "done" /\ CountInv(d)
           /\ remaining = Cardinality(Counted)
BY DEF CountsInv, CountInv, End

\* What has been logged when a roll-up ends.
LEMMA EndOfRollup ==
    ASSUME IInv, MarkInv, CountsInv, End, Latest'.job.tool = "rollup", Latest'.clean, Latest'.fresh
    PROVE  /\ Latest'.job = job /\ Latest'.remaining = Cardinality(Counted)
           /\ UNCHANGED db
           /\ \A d \in Dirs : pc[d] = "done" /\ CountInv(d)
<1> DEFINE y == [[Latest EXCEPT !.ended = TRUE] EXCEPT !.remaining = remaining]
<1>1. LogChanges(y) /\ job # NoJob
  BY EndChanges DEF End
<1>2. Latest \in LogEntries
  BY <1>1, EntryOfJob DEF IInv
<1>3. y.remaining = remaining
  BY <1>2 DEF LogEntries
<1> HIDE DEF y
<1>4. Latest' = y /\ EntryGoesOn(Latest, Latest') /\ Latest.job = job
  BY <1>1, LatestGoesOn
<1>5. Fresh /\ Latest'.job = job
  BY <1>1, <1>4 DEF Fresh, Running, EntryGoesOn
<1>6. UNCHANGED db
  BY DEF End
<1> QED  BY <1>3, <1>4, <1>5, <1>6, EndOfCount

\* What was announced stays as it is, and what is announced is what counts,
LEMMA LogCountsNext ==
    ASSUME IInv, MarkInv, CountsInv, LogCounts, [Next]_vars
    PROVE  LogCounts'
<1>0. PermsStay
  BY PermsStayNext
<1> SUFFICES ASSUME NEW i \in DOMAIN log', NEW m \in Nat,
                    log'[i].job.tool = "rollup", log'[i].job.limit = 0, log'[i].job.min_level = m,
                    log'[i].ended, log'[i].clean, log'[i].fresh
             PROVE  log'[i].remaining = Cardinality(VisitedAfter(m)')
  BY DEF LogCounts
<1>1. VisitedAfter(m)' = VisitedAfter(m)
  BY <1>0, QualifiesStays
<1>2. CASE i \in DOMAIN log /\ log[i].ended /\ log'[i] = log[i]
  <2>1. log[i].remaining = Cardinality(VisitedAfter(m))
    BY <1>2 DEF LogCounts
  <2> QED  BY <1>1, <1>2, <2>1
<1>3. CASE job # NoJob /\ i = Len(log') /\ End
  <2>1. log'[i] = Latest'
    BY <1>3 DEF Latest
  <2>2. /\ Latest'.job = job /\ Latest'.remaining = Cardinality(Counted)
        /\ \A d \in Dirs : pc[d] = "done" /\ CountInv(d)
    BY <1>3, <2>1, EndOfRollup
  <2>3. Counted = VisitedAfter(m)
    BY <2>1, <2>2, QualifyAtEnd
  <2> QED  BY <1>1, <2>1, <2>2, <2>3
<1>4. CASE job # NoJob /\ i = Len(log') /\ ComputeTreesummary
  <2>1. log'[i] = Latest'
    BY <1>4 DEF Latest
  <2>2. EntryGoesOn(Latest, Latest') /\ Latest.job = job /\ job.tool = "treesummary"
    BY <1>4, ComputeChanges, LatestGoesOn DEF ComputeTreesummary, Running
  <2> QED  BY <2>1, <2>2 DEF EntryGoesOn
<1> QED  BY <1>2, <1>3, <1>4, EndsOnlyThen

\* and what is in the index.
LEMMA AnnouncedNext ==
    ASSUME IInv, MarkInv, CountsInv, Announced, [Next]_vars
    PROVE  Announced'
<1> SUFFICES ASSUME job' = NoJob, log' # <<>>, Latest'.ended, Latest'.clean, Latest'.fresh,
                    Latest'.job.tool = "rollup", ~Latest'.job.dry_run
             PROVE  Latest'.remaining = Cardinality(Visited(db'))
  BY DEF Announced, Succeeded, Idle
<1>0. /\ log \in Seq(LogEntries) /\ Len(log) \in Nat /\ DOMAIN log = 1 .. Len(log)
      /\ job # NoJob => ~Latest.ended
  BY LenProperties DEF IInv, WalkTypes, LogInv
<1>1. ASSUME NEW o \in Options, NEW h \in Dirs \cup {NoDir}, Start(o, h) PROVE FALSE
  BY <1>1, OptionsAssumption DEF Start
<1>2. ASSUME job # NoJob, Fault PROVE FALSE
  BY <1>2, FaultIsLogged
<1>3. ASSUME job # NoJob, UNCHANGED log PROVE FALSE
  BY <1>0, <1>3 DEF Latest
<1>4. CASE ComputeTreesummary
  <2>1. EntryGoesOn(Latest, Latest') /\ Latest.job = job /\ job.tool = "treesummary"
    BY <1>4, ComputeChanges, LatestGoesOn DEF ComputeTreesummary, Running
  <2> QED  BY <2>1 DEF EntryGoesOn
<1>5. CASE End
  <2>1. /\ Latest'.job = job /\ Latest'.remaining = Cardinality(Counted) /\ UNCHANGED db
        /\ \A d \in Dirs : pc[d] = "done" /\ CountInv(d)
    BY <1>5, EndOfRollup
  <2>2. Counted = Visited(db)
    BY <2>1, VisitedAtEnd
  <2> QED  BY <2>1, <2>2
<1>6. CASE UNCHANGED vars
  <2>1. UNCHANGED <<job, log, db>> /\ Latest' = Latest
    BY <1>6 DEF vars, Latest
  <2> QED  BY <2>1 DEF Announced, Succeeded, Idle
<1> QED  BY <1>1, <1>2, <1>3, <1>4, <1>5, <1>6, StepOfLog

\* What print_stats announces is right, and a dry run predicts it.
LEMMA RemainingIsExact ==
    ASSUME IInv, LogCounts, Announced
    PROVE  RemainingExact
<1> SUFFICES ASSUME Succeeded("rollup"), Latest.fresh, ~Latest.job.dry_run
             PROVE  \A i \in DOMAIN log :
                        /\ log[i].job = [Latest.job EXCEPT !.dry_run = TRUE]
                        /\ log[i].job.limit = 0 /\ log[i].fresh /\ log[i].ended /\ log[i].clean
                        => log[i].remaining = Latest.remaining
  BY DEF RemainingExact, Announced
<1>1. log \in Seq(LogEntries) /\ log # <<>>
  BY DEF Succeeded, IInv, WalkTypes
<1>2. Len(log) \in DOMAIN log /\ Latest \in LogEntries
  <2>1. Len(log) \in Nat \ {0} /\ DOMAIN log = 1 .. Len(log)
    BY <1>1, EmptySeq, LenProperties
  <2>2. Len(log) \in DOMAIN log
    BY <2>1
  <2> QED  BY <1>1, <2>2, ElementOfSeq DEF Latest
<1> SUFFICES ASSUME NEW i \in DOMAIN log,
                    log[i].job = [Latest.job EXCEPT !.dry_run = TRUE],
                    log[i].job.limit = 0, log[i].fresh, log[i].ended, log[i].clean
             PROVE  log[i].remaining = Latest.remaining
  OBVIOUS
<1>3. /\ Latest.job.tool = "rollup" /\ Latest.ended /\ Latest.clean
      /\ Latest.job \in Options
  BY <1>2 DEF Succeeded, LogEntries
<1>4. /\ log[i].job.tool = "rollup" /\ log[i].job.min_level = Latest.job.min_level
      /\ Latest.job.limit = 0 /\ Latest.job.min_level \in Nat
  BY <1>3, OptionsAssumption
<1> DEFINE m == Latest.job.min_level
<1>5. log[i].remaining = Cardinality(VisitedAfter(m))
  BY <1>4 DEF LogCounts
<1>6. Latest.remaining = Cardinality(VisitedAfter(m))
  BY <1>2, <1>3, <1>4 DEF LogCounts, Latest
<1> QED  BY <1>5, <1>6

-----------------------------------------------------------------------------
(* The theorems                                                            *)

\* The copies agree with the tree, what gufi_unrollup leaves behind is in front
\* of it, and the directories are counted as the walk goes up.
FullInv == IInv /\ CopiesInv /\ CountsInv /\ LogCounts /\ Announced

LEMMA FullInit == Init => FullInv
<1> SUFFICES ASSUME Init PROVE FullInv
  OBVIOUS
<1>1. IInv
  BY InitRollup
<1>2. /\ job = NoJob /\ log = <<>> /\ queue = {} /\ torn = {}
      /\ \A d \in Dirs : /\ db[d].roll = <<>> /\ db[d].pent = <<>> /\ ~db[d].isroll
                         /\ pc[d] = "out" /\ ~rolledup[d] /\ left[d] = <<>>
  <2>1. PICK p \in Perms : db = [d \in Dirs |-> NewDb(p[d])]
    BY DEF Init
  <2>2. \A d \in Dirs : db[d].roll = <<>> /\ db[d].pent = <<>> /\ ~db[d].isroll
    BY <2>1 DEF NewDb
  <2>3. /\ job = NoJob /\ log = <<>> /\ queue = {} /\ torn = {}
        /\ \A d \in Dirs : pc[d] = "out" /\ ~rolledup[d] /\ left[d] = <<>>
    BY DEF Init
  <2> QED  BY <2>2, <2>3
<1>3. MarkInv /\ CopiedInv
  BY <1>2, EmptyList, TreeIs DEF MarkInv, CopiedInv, CopiedRows, Part
<1>4. MemInv /\ UnrollInv
  BY <1>2 DEF MemInv, UnrollInv, QueueInv, LeftoverInv, FrontInv, Running, UnrollupRestores, Succeeded
<1>5. CountsInv /\ LogCounts /\ Announced
  BY <1>2 DEF CountsInv, Fresh, Running, LogCounts, Announced, Succeeded
<1> QED  BY <1>1, <1>3, <1>4, <1>5 DEF FullInv, CopiesInv

LEMMA FullNext == FullInv /\ [Next]_vars => FullInv'
<1> SUFFICES ASSUME IInv, CopiesInv, CountsInv, LogCounts, Announced, [Next]_vars
             PROVE  FullInv'
  BY DEF FullInv
<1>1. MarkInv /\ CopiedInv /\ MemInv /\ UnrollInv
  BY DEF CopiesInv
<1>2. IInv'
  BY NextRollup
<1>3. MarkInv' /\ CopiedInv' /\ MemInv' /\ UnrollInv'
  BY <1>1, MarkNext, CopiedNext, MemNext, UnrollNext
<1>4. CountsInv' /\ LogCounts' /\ Announced'
  BY <1>1, CountNext, LogCountsNext, AnnouncedNext
<1> QED  BY <1>2, <1>3, <1>4 DEF FullInv, CopiesInv

\* Whatever runs with whichever options, fails or dies: the rows that
\* rollup_init, rollup_child_process and rollup_cleanup leave agree with the marks.
THEOREM CopiesAgree == Spec => []FullInv
<1>1. FullInv /\ [Next]_vars => FullInv'
  BY FullNext
<1> QED  BY <1>1, FullInit, PTL DEF Spec

\* Between two runs a query that stops at rolled-up directories finds the
\* rows of every directory once (src/src/gufi_query/process_queries.c:294), and
\* visits the "Remaining Dirs" that print_stats announced.
THEOREM QueriesComplete == Spec => []QueryComplete
<1>1. FullInv => QueryComplete
  BY RowsAreComplete, RemainingIsExact DEF FullInv, QueryComplete
<1> QED  BY <1>1, CopiesAgree, PTL

\* A run of gufi_unrollup over the whole index, without a failure, leaves no
\* copy and no mark, whatever earlier runs of either program left.
THEOREM UnrollupUndoes == Spec => []UnrollupRestores
<1>1. FullInv => UnrollupRestores
  BY DEF FullInv, CopiesInv, UnrollInv
<1> QED  BY <1>1, CopiesAgree, PTL

=============================================================================
