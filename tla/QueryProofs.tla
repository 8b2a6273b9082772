---------------------------- MODULE QueryProofs -----------------------------
(***************************************************************************)
(* Proofs about gufi_query: its variables keep their types, no row is torn *)
(* apart in the output, and every query sees its own databases.            *)
(***************************************************************************)
EXTENDS Query, FoldTheorems

-----------------------------------------------------------------------------
(* The operators the steps are made of.                                    *)

\* A directory and what is below it are directories, and they are not many.
LEMMA GroupIs ==
    ASSUME NEW d \in Dirs
    PROVE  Group(d) \subseteq Dirs /\ IsFiniteSet(Group(d))
  <1>1. Group(d) \subseteq Dirs
    BY DEF Group, Below
  <1> QED  BY <1>1, QueryAssumption, FS_Subset

\* Whole pieces have no beginnings among them.
LEMMA WholeIs ==
    ASSUME NEW rows \in Seq(Rows)
    PROVE  Whole(rows) \in Seq(Rows \X {"end"})
  BY DEF Whole

-----------------------------------------------------------------------------
(* The types.                                                              *)

\* What a thread that is not idle has in hand.
LEMMA Busy ==
    ASSUME TypeOK, NEW t \in Threads, th[t].pc # "idle"
    PROVE  th[t] \in RecordType
  BY DEF TypeOK, Idle

\* What the steps need to know about the command line.
LEMMA OptionIs ==
    ASSUME TypeOK
    PROVE  /\ opt.match \in BOOLEAN /\ opt.compress \in BOOLEAN
           /\ opt.min \in Nat /\ opt.ext \in Nat
           /\ opt.list \subseteq Dirs
           /\ opt.out \in {"STDOUT", "OUTFILE", "OUTDB"}
  BY OptionsAssumption DEF TypeOK, OptionType

\* The work items that descending makes are about directories of the index.
LEMMA ChildrenType ==
    ASSUME TypeOK, NEW d \in Dirs, NEW level \in Nat, NEW idm \in BOOLEAN,
           NEW hasdb \in BOOLEAN, NEW kept \in Swapped(Descend(d, level, idm, hasdb))
    PROVE  {kept[i] : i \in DOMAIN kept} \subseteq ItemType
  <1> DEFINE C == Descend(d, level, idm, hasdb)
  <1>1. opt.match \in BOOLEAN /\ opt.compress \in BOOLEAN /\ opt.min \in Nat
    BY OptionIs
  <1>2. Subdirs(d) \subseteq Dirs
    BY QueryAssumption DEF Subdirs
  <1> DEFINE B == idm \/ (opt.match /\ level + 1 >= opt.min)
  <1>3. ASSUME NEW c \in Dirs PROVE Item(c, level + 1, B) \in ItemType
    <2>1. B \in BOOLEAN /\ level + 1 \in Nat
      OBVIOUS
    <2> HIDE DEF B
    <2> QED  BY <2>1 DEF Item, ItemType
  <1>4. C \subseteq ItemType
    BY <1>2, <1>3 DEF Descend, Children
  <1>5. \A i \in C : Serialized(i) \in ItemType
    BY <1>1, <1>4 DEF Serialized, Compressed, ItemType
  <1> HIDE DEF C
  <1>6. PICK q \in SUBSET C : kept = [i \in C |-> IF i \in q THEN Serialized(i) ELSE i]
    <2>1. kept \in Swapped(C)
      BY DEF C
    <2>2. CASE opt.swap
      BY <2>1, <2>2 DEF Swapped
    <2>3. CASE ~opt.swap
      <3>1. kept = [i \in C |-> i]
        BY <2>1, <2>3 DEF Swapped
      <3> DEFINE none == {i \in C : FALSE}
      <3>2. kept = [i \in C |-> IF i \in none THEN Serialized(i) ELSE i]
        BY <3>1
      <3>3. none \in SUBSET C
        OBVIOUS
      <3> HIDE DEF none
      <3> QED  BY <3>2, <3>3
    <2> QED  BY <2>2, <2>3
  <1> QED  BY <1>4, <1>5, <1>6

LEMMA TypeInit == Init => TypeOK
  <1> SUFFICES ASSUME Init PROVE TypeOK
    OBVIOUS
  <1> QED  BY DEF Init, TypeOK

LEMMA TypeStart == ASSUME TypeOK, Start PROVE TypeOK'
  <1>1. opt.match \in BOOLEAN /\ opt.min \in Nat /\ opt.list \subseteq Dirs
    BY OptionIs
  <1>2. Source(opt) \subseteq ItemType
    <2> DEFINE B == opt.match /\ opt.min = 0
    <2>1. B \in BOOLEAN
      OBVIOUS
    <2>2. \A i \in Source(opt) : i = Item(Root, 0, B)
      BY DEF Source
    <2> HIDE DEF B
    <2>3. Item(Root, 0, B) \in ItemType
      BY <2>1, QueryAssumption DEF Item, ItemType
    <2> QED  BY <2>2, <2>3
  <1>3. PathList(opt) \subseteq ItemType
    <2>1. \A d \in Dirs : Item(d, opt.min, FALSE) \in ItemType
      BY <1>1 DEF Item, ItemType
    <2> QED  BY <1>1, <2>1 DEF PathList
  <1> QED  BY <1>2, <1>3 DEF TypeOK, Start

\* Where the threads write, and what an Append makes of a file.
LEMMA OutfileType == \A t \in Threads : Outfile(t) \in Threads \cup {Stdout, Out}
  BY DEF Outfile

LEMMA NextRowType ==
    ASSUME NEW r \in RecordType, Tail(r.rows) \in Seq(Rows)
    PROVE  NextRow(r) \in RecordType
  <1> DEFINE rows == Tail(r.rows)
             recs == r.recs + 1
  <1>1. recs \in Nat
    <2>1. r.recs \in Nat
      BY DEF RecordType
    <2> QED  BY <2>1
  <1>2. NextRow(r) = [r EXCEPT !.rows = rows, !.recs = recs, !.flushed = FALSE, !.part = FALSE]
    BY DEF NextRow, RecordType
  <1>3. rows \in Seq(Rows)
    OBVIOUS
  <1> HIDE DEF rows, recs
  <1> QED  BY <1>1, <1>2, <1>3 DEF RecordType

LEMMA TypePrint ==
    ASSUME TypeOK, NEW t \in Threads, Flush(t) \/ WriteColumns(t) \/ Buffer(t)
    PROVE  TypeOK'
  <1>1. th[t].pc = "print" /\ th[t].rows # <<>>
    BY DEF Flush, WriteColumns, Buffer
  <1>2. th[t] \in RecordType
    BY <1>1, Busy
  <1>3. th[t].rows \in Seq(Rows) /\ Head(th[t].rows) \in Rows /\ Tail(th[t].rows) \in Seq(Rows)
    <2>1. th[t].rows \in Seq(Rows)
      BY <1>2 DEF RecordType
    <2> QED  BY <1>1, <2>1, HeadTailProperties
  <1>4. NextRow(th[t]) \in RecordType
    BY <1>2, <1>3, NextRowType
  <1>5. Outfile(t) \in Threads \cup {Stdout, Out}
    BY OutfileType
  <1>6. CASE Flush(t)
    <2>1. Whole(buf[t]) \in Seq(Pieces)
      BY WholeIs DEF TypeOK, Pieces
    <2>2. files' \in [Threads \cup {Stdout, Out} -> Seq(Pieces)]
      BY <1>5, <1>6, <2>1 DEF Flush, TypeOK
    <2>3. th' \in [Threads -> RecordType \cup {Idle}]
      BY <1>2, <1>6 DEF Flush, TypeOK, RecordType
    <2> QED  BY <1>6, <2>2, <2>3 DEF Flush, TypeOK
  <1>7. CASE WriteColumns(t)
    <2>1. files' \in [Threads \cup {Stdout, Out} -> Seq(Pieces)]
      <3> DEFINE f == Outfile(t)
                 p == <<Head(th[t].rows), IF th[t].part THEN "end" ELSE "begin">>
      <3>1. files' = [files EXCEPT ![f] = Append(files[f], p)]
        BY <1>7 DEF WriteColumns
      <3>2. p \in Pieces
        BY <1>3 DEF Pieces
      <3> HIDE DEF f, p
      <3> QED  BY <1>5, <3>1, <3>2 DEF TypeOK, f
    <2>2. th' \in [Threads -> RecordType \cup {Idle}]
      BY <1>2, <1>4, <1>7 DEF WriteColumns, TypeOK, RecordType
    <2> QED  BY <1>7, <2>1, <2>2 DEF WriteColumns, TypeOK
  <1>8. CASE Buffer(t)
    <2>1. buf' \in [Threads -> Seq(Rows)]
      BY <1>3, <1>8 DEF Buffer, TypeOK
    <2>2. th' \in [Threads -> RecordType \cup {Idle}]
      BY <1>4, <1>8 DEF Buffer, TypeOK
    <2> QED  BY <1>8, <2>1, <2>2 DEF Buffer, TypeOK
  <1> QED  BY <1>6, <1>7, <1>8

LEMMA TypeOpen ==
    ASSUME TypeOK, NEW t \in Threads, NEW item \in pool, Open(t, item)
    PROVE  TypeOK'
  <1>1. item \in ItemType
    BY DEF TypeOK
  <1>2. PICK d \in Names(item) :
            IF Opens(d) /\ HasDb(d, item.level)
            THEN /\ pool' = pool \ {item}
                 /\ th' = [th EXCEPT ![t] = Record(d, item.level, item.idm, "tsum")]
            ELSE \E kept \in Swapped(IF Opens(d) THEN Descend(d, item.level, item.idm, FALSE) ELSE {}) :
                    /\ pool' = (pool \ {item}) \cup {kept[i] : i \in DOMAIN kept}
                    /\ UNCHANGED th
    BY DEF Open
  <1>3. Opens(d) => d \in Dirs
    BY <1>1 DEF Opens, Names, ItemType
  <1>4. CASE Opens(d) /\ HasDb(d, item.level)
    <2>1. Record(d, item.level, item.idm, "tsum") \in RecordType
      BY <1>1, <1>3, <1>4 DEF Record, RecordType, ItemType
    <2> QED  BY <1>2, <1>4, <2>1 DEF Open, TypeOK
  <1>5. CASE ~(Opens(d) /\ HasDb(d, item.level))
    <2>1. PICK kept \in Swapped(IF Opens(d) THEN Descend(d, item.level, item.idm, FALSE) ELSE {}) :
              /\ pool' = (pool \ {item}) \cup {kept[i] : i \in DOMAIN kept}
              /\ UNCHANGED th
      BY <1>2, <1>5
    <2>2. {kept[i] : i \in DOMAIN kept} \subseteq ItemType
      <3>1. CASE Opens(d)
        <4>1. item.level \in Nat /\ item.idm \in BOOLEAN /\ d \in Dirs
          BY <1>1, <1>3, <3>1 DEF ItemType
        <4> QED  BY <2>1, <3>1, <4>1, ChildrenType
      <3>2. CASE ~Opens(d)
        BY <2>1, <3>2 DEF Swapped
      <3> QED  BY <3>1, <3>2
    <2> QED  BY <2>1, <2>2 DEF Open, TypeOK
  <1> QED  BY <1>4, <1>5

\* The rows of a query, one for each directory it finds.
LEMMA RowsType ==
    ASSUME NEW S \in SUBSET Dirs, NEW q \in {"T", "S", "E", "C"}, NEW str \in Dirs \cup {None}
    PROVE  LET found == Inodes(S)
           IN  /\ [i \in DOMAIN found |-> Row(q, found[i], str)] \in Seq(Rows)
               /\ found \in Seq(Dirs)
               /\ found # <<>> => found[Len(found)] \in Dirs
  <1> DEFINE found == Inodes(S)
  <1>1. IsFiniteSet(S)
    BY QueryAssumption, FS_Subset
  <1>2. found \in Seq(S)
    BY <1>1, SetToSeqIs DEF Inodes
  <1> HIDE DEF found
  <1>3. found \in Seq(Dirs)
    BY <1>2
  <1>4. \A i \in DOMAIN found : Row(q, found[i], str) \in Rows
    BY <1>3 DEF Row, Rows
  <1>5. [i \in DOMAIN found |-> Row(q, found[i], str)] \in Seq(Rows)
    BY <1>3, <1>4
  <1>6. found # <<>> => found[Len(found)] \in Dirs
    BY <1>3
  <1> QED  BY <1>3, <1>5, <1>6 DEF found

LEMMA AttachType ==
    ASSUME NEW a \in SUBSET Attachments, NEW n \in Int,
           NEW files_ \in Seq(Nat \X (Dirs \cup {None}))
    PROVE  /\ Attach([att |-> a, n |-> n], files_).att \in SUBSET Attachments
           /\ Attach([att |-> a, n |-> n], files_).n \in Int
           /\ Detach([att |-> a, n |-> n], files_).att \in SUBSET Attachments
           /\ Detach([att |-> a, n |-> n], files_).n \in Int
  <1> DEFINE r == [att |-> a, n |-> n]
  <1>1. Len(files_) \in Nat
    OBVIOUS
  <1>2. ASSUME NEW i \in DOMAIN files_ PROVE [n |-> Name(r, i), db |-> files_[i]] \in Attachments
    <2>1. Name(r, i) \in Int /\ files_[i] \in Nat \X (Dirs \cup {None})
      BY DEF Name
    <2> QED  BY <2>1 DEF Attachments
  <1>3. Attach(r, files_).att \in SUBSET Attachments
    BY <1>2 DEF Attach, Readable
  <1>4. Attach(r, files_).n \in Int /\ Detach(r, files_).n \in Int
    BY <1>1 DEF Attach, Detach, DetachLast
  <1>5. Detach(r, files_).att \in SUBSET Attachments
    BY DEF Detach, DetachLast
  <1> QED  BY <1>3, <1>4, <1>5

LEMMA DbsType ==
    ASSUME TypeOK, NEW d \in Dirs, NEW inode \in Dirs \cup {None}
    PROVE  /\ XattrDbs(d) \in Seq(Nat \X (Dirs \cup {None}))
           /\ ExtDbs(inode) \in Seq(Nat \X (Dirs \cup {None}))
  <1> DEFINE S == Group(d) \cap ix.xattrs
  <1>1. IsFiniteSet(S) /\ S \subseteq Dirs
    BY GroupIs, FS_Subset
  <1>2. SetToSeq(S) \in Seq(Dirs) /\ Len(SetToSeq(S)) = Cardinality(S) /\ Cardinality(S) \in Nat
    <2>1. SetToSeq(S) \in Seq(S)
      BY <1>1, SetToSeqIs
    <2> QED  BY <1>1, <2>1, SetToSeqIs
  <1>3. XattrDbs(d) = [i \in 1 .. Cardinality(S) |-> <<0, SetToSeq(S)[i]>>]
    BY DEF XattrDbs
  <1> HIDE DEF S
  <1>4. XattrDbs(d) \in Seq(Nat \X (Dirs \cup {None}))
    BY <1>2, <1>3
  <1>5. opt.ext \in Nat
    BY OptionIs
  <1>6. ExtDbs(inode) \in Seq(Nat \X (Dirs \cup {None}))
    BY <1>5 DEF ExtDbs
  <1> QED  BY <1>4, <1>6

LEMMA TypeQuerydb ==
    ASSUME TypeOK, NEW t \in Threads, NEW r \in RecordType, NEW rows \in Seq(Rows),
           NEW ret \in {"gate", "ent", "drop"}, Querydb(t, r, rows, ret)
    PROVE  /\ th' \in [Threads -> RecordType \cup {Idle}]
           /\ dbs' \in [Threads \cup {Agg} -> Seq(Rows)]
  <1> DEFINE shown == IF opt.insert THEN <<>> ELSE rows
             r2 == [r EXCEPT !.pc = "print", !.ret = ret, !.recs = 0, !.rows = shown]
  <1>1. shown \in Seq(Rows)
    OBVIOUS
  <1>2. r2 \in RecordType
    <2> HIDE DEF shown
    <2> QED  BY <1>1 DEF RecordType
  <1>3. th' = [th EXCEPT ![t] = r2]
    BY DEF Querydb
  <1> HIDE DEF r2
  <1>4. th' \in [Threads -> RecordType \cup {Idle}]
    BY <1>2, <1>3 DEF TypeOK
  <1>5. dbs' \in [Threads \cup {Agg} -> Seq(Rows)]
    BY DEF Querydb, TypeOK
  <1> QED  BY <1>4, <1>5

LEMMA TypeRunT == ASSUME TypeOK, NEW t \in Threads, RunT(t) PROVE TypeOK'
  <1> DEFINE d == th[t].d
             rows == IF d \in ix.tyes THEN <<Row("T", d, None)>> ELSE <<>>
  <1>1. th[t] \in RecordType
    BY Busy DEF RunT
  <1>2. d \in Dirs
    BY <1>1 DEF RecordType
  <1>3. rows \in Seq(Rows)
    <2>1. Row("T", d, None) \in Rows
      BY <1>2 DEF Row, Rows
    <2> QED  BY <2>1
  <1>4. [th[t] EXCEPT !.pc = "setup"] \in RecordType
    BY <1>1 DEF RecordType
  <1>5. \/ th' = [th EXCEPT ![t] = Idle] /\ UNCHANGED dbs
        \/ Querydb(t, th[t], rows, "gate")
        \/ th' = [th EXCEPT ![t] = [th[t] EXCEPT !.pc = "setup"]] /\ UNCHANGED dbs
    BY DEF RunT
  <1> HIDE DEF rows
  <1>6. /\ th' \in [Threads -> RecordType \cup {Idle}]
        /\ dbs' \in [Threads \cup {Agg} -> Seq(Rows)]
    <2>1. CASE Querydb(t, th[t], rows, "gate")
      BY <1>1, <1>3, <2>1, TypeQuerydb
    <2>2. CASE ~Querydb(t, th[t], rows, "gate")
      BY <1>4, <1>5, <2>2 DEF TypeOK
    <2> QED  BY <2>1, <2>2
  <1> QED  BY <1>6 DEF RunT, TypeOK

LEMMA TypePrinted == ASSUME TypeOK, NEW t \in Threads, Printed(t) PROVE TypeOK'
  <1>1. th[t] \in RecordType
    BY Busy DEF Printed
  <1>2. PICK l \in {"setup", "ent", "drop"} :
            \/ th' = [th EXCEPT ![t] = Idle]
            \/ th' = [th EXCEPT ![t] = [th[t] EXCEPT !.pc = l]]
    BY DEF Printed
  <1>3. [th[t] EXCEPT !.pc = l] \in RecordType
    BY <1>1 DEF RecordType
  <1>4. th' \in [Threads -> RecordType \cup {Idle}]
    BY <1>2, <1>3 DEF TypeOK
  <1> QED  BY <1>4 DEF Printed, TypeOK

LEMMA TypeSetup == ASSUME TypeOK, NEW t \in Threads, Setup(t) PROVE TypeOK'
  <1> DEFINE d == th[t].d
             dirs == IF opt.ext > 0 /\ Group(d) # {} THEN Inodes(Group(d)) ELSE <<None>>
             after == AttachedAfter(t, 0, IF opt.xattrs THEN XattrDbs(d) ELSE <<>>)
             r2 == [th[t] EXCEPT !.pc = "views", !.count = after.n, !.inodes = dirs]
  <1>1. th[t] \in RecordType
    BY Busy DEF Setup
  <1>2. d \in Dirs
    BY <1>1 DEF RecordType
  <1>3. dirs \in Seq(Dirs \cup {None})
    <2>1. Group(d) \subseteq Dirs /\ IsFiniteSet(Group(d))
      BY <1>2, GroupIs
    <2>2. Inodes(Group(d)) \in Seq(Group(d))
      BY <2>1, SetToSeqIs DEF Inodes
    <2> DEFINE G == Group(d)
               all == Inodes(Group(d))
    <2>3. all \in Seq(G) /\ G \subseteq Dirs
      BY <2>1, <2>2
    <2> HIDE DEF G, all
    <2>4. all \in Seq(Dirs \cup {None}) /\ <<None>> \in Seq(Dirs \cup {None})
      BY <2>3
    <2> QED  BY <2>4 DEF all
  <1>4. after.att \in SUBSET Attachments /\ after.n \in Int
    <2> DEFINE fs == IF opt.xattrs THEN XattrDbs(d) ELSE <<>>
    <2>1. fs \in Seq(Nat \X (Dirs \cup {None}))
      BY <1>2, DbsType
    <2> HIDE DEF fs
    <2>2. attached[t] \in SUBSET Attachments
      BY DEF TypeOK
    <2>3. after = Attach([att |-> attached[t], n |-> 0], fs)
      BY DEF AttachedAfter, fs
    <2> HIDE DEF after
    <2>4. 0 \in Int
      OBVIOUS
    <2> QED  BY <2>1, <2>2, <2>3, <2>4, AttachType, Zenon
  <1>5. attached' = [attached EXCEPT ![t] = after.att] /\ th' = [th EXCEPT ![t] = r2]
    BY DEF Setup
  <1> HIDE DEF after, dirs
  <1>6. r2 \in RecordType
    BY <1>1, <1>3, <1>4 DEF RecordType
  <1> HIDE DEF r2
  <1>7. th' \in [Threads -> RecordType \cup {Idle}]
    BY <1>5, <1>6 DEF TypeOK
  <1>8. attached' \in [Threads -> SUBSET Attachments]
    BY <1>4, <1>5 DEF TypeOK
  <1> QED  BY <1>7, <1>8 DEF Setup, TypeOK

\* A thread has a directory to show from the moment it has listed them.
InodesInv ==
    \A t \in Threads :
        \/ th[t].pc \in {"views", "ent", "drop"}
        \/ th[t].pc = "print" /\ th[t].ret # "gate"
        => th[t].inodes # <<>>

LEMMA ShownType ==
    ASSUME TypeOK, InodesInv, NEW t \in Threads, th[t].pc \in {"views", "ent", "drop"}
    PROVE  /\ th[t] \in RecordType /\ th[t].d \in Dirs
           /\ th[t].inodes \in Seq(Dirs \cup {None})
           /\ Head(th[t].inodes) \in Dirs \cup {None}
           /\ Tail(th[t].inodes) \in Seq(Dirs \cup {None})
           /\ Shown(th[t].d, Head(th[t].inodes)) \subseteq Dirs
  <1>1. th[t] \in RecordType
    BY Busy
  <1>2. th[t].d \in Dirs /\ th[t].inodes \in Seq(Dirs \cup {None})
    BY <1>1 DEF RecordType
  <1>3. th[t].inodes # <<>>
    BY DEF InodesInv
  <1>4. Head(th[t].inodes) \in Dirs \cup {None} /\ Tail(th[t].inodes) \in Seq(Dirs \cup {None})
    BY <1>2, <1>3, HeadTailProperties
  <1>5. Group(th[t].d) \subseteq Dirs
    BY <1>2, GroupIs
  <1>6. Shown(th[t].d, Head(th[t].inodes)) \subseteq Dirs
    BY <1>4, <1>5 DEF Shown
  <1> QED  BY <1>1, <1>2, <1>4, <1>6

LEMMA TypeRunE == ASSUME TypeOK, InodesInv, NEW t \in Threads, RunE(t) PROVE TypeOK'
  <1> DEFINE shown == Shown(th[t].d, Head(th[t].inodes))
             found == Inodes(shown)
             str == IF opt.setstr THEN strs[t] ELSE None
             rows == [i \in DOMAIN found |-> Row("E", found[i], str)]
  <1>1. th[t].pc \in {"views", "ent", "drop"}
    BY DEF RunE
  <1>2. th[t] \in RecordType /\ shown \subseteq Dirs
    BY <1>1, ShownType
  <1>3. str \in Dirs \cup {None}
    BY DEF TypeOK
  <1>4. \/ th' = [th EXCEPT ![t] = [th[t] EXCEPT !.pc = "drop"]] /\ UNCHANGED dbs
        \/ Querydb(t, th[t], rows, "drop")
    BY DEF RunE
  <1> HIDE DEF shown, str
  <1>5. rows \in Seq(Rows)
    BY <1>2, <1>3, RowsType
  <1>6. [th[t] EXCEPT !.pc = "drop"] \in RecordType
    BY <1>2 DEF RecordType
  <1> HIDE DEF rows
  <1>7. /\ th' \in [Threads -> RecordType \cup {Idle}]
        /\ dbs' \in [Threads \cup {Agg} -> Seq(Rows)]
    <2>1. CASE Querydb(t, th[t], rows, "drop")
      BY <1>2, <1>5, <2>1, TypeQuerydb
    <2>2. CASE ~Querydb(t, th[t], rows, "drop")
      BY <1>4, <1>6, <2>2 DEF TypeOK
    <2> QED  BY <2>1, <2>2
  <1> QED  BY <1>7 DEF RunE, TypeOK

LEMMA TypeDrop == ASSUME TypeOK, InodesInv, NEW t \in Threads, Drop(t) PROVE TypeOK'
  <1> DEFINE left == Tail(th[t].inodes)
             us == ExtDbs(Head(th[t].inodes))
             xs == IF opt.xattrs THEN XattrDbs(th[t].d) ELSE <<>>
             now == [att |-> attached[t], n |-> th[t].count]
             after == Detach(now, us)
             last == Detach(after, xs)
             r2 == [th[t] EXCEPT !.pc = "views", !.count = after.n, !.inodes = left]
  <1>1. th[t].pc \in {"views", "ent", "drop"}
    BY DEF Drop
  <1>2. th[t] \in RecordType /\ th[t].d \in Dirs /\ Head(th[t].inodes) \in Dirs \cup {None}
    BY <1>1, ShownType
  <1>3. left \in Seq(Dirs \cup {None})
    BY <1>1, ShownType
  <1>4. us \in Seq(Nat \X (Dirs \cup {None})) /\ xs \in Seq(Nat \X (Dirs \cup {None}))
    BY <1>2, DbsType
  <1>5. attached[t] \in SUBSET Attachments /\ th[t].count \in Int
    BY <1>2 DEF TypeOK, RecordType
  <1>6. \/ attached' = [attached EXCEPT ![t] = after.att] /\ th' = [th EXCEPT ![t] = r2]
        \/ attached' = [attached EXCEPT ![t] = last.att] /\ th' = [th EXCEPT ![t] = Idle]
    BY DEF Drop, DetachedAfter
  <1> HIDE DEF us, xs, left
  <1>7. after.att \in SUBSET Attachments /\ after.n \in Int
    BY <1>4, <1>5, AttachType, Zenon
  <1>8. after = [att |-> after.att, n |-> after.n]
    BY DEF Detach, DetachLast
  <1> HIDE DEF after
  <1>9. last.att \in SUBSET Attachments
    BY <1>4, <1>7, <1>8, AttachType, Zenon
  <1> HIDE DEF last
  <1>10. r2 \in RecordType
    BY <1>2, <1>3, <1>7 DEF RecordType
  <1> HIDE DEF r2
  <1>11. th' \in [Threads -> RecordType \cup {Idle}]
    BY <1>6, <1>10 DEF TypeOK
  <1>12. attached' \in [Threads -> SUBSET Attachments]
    BY <1>6, <1>7, <1>9 DEF TypeOK
  <1> QED  BY <1>11, <1>12 DEF Drop, TypeOK

LEMMA CopiesType ==
    ASSUME TypeOK, NEW d \in Dirs, NEW level \in Nat
    PROVE  Copies(d, level, TRUE) \in Seq(Rows)
  <1>1. Row("C", d, None) \in Rows
    BY DEF Row, Rows
  <1> QED  BY <1>1 DEF Copies

LEMMA TypeRunS == ASSUME TypeOK, InodesInv, NEW t \in Threads, RunS(t) PROVE TypeOK'
  <1> DEFINE r == th[t]
             inode == Head(r.inodes)
             now == [att |-> attached[t], n |-> r.count]
             us == ExtDbs(inode)
             after == Attach(now, us)
             shown == Shown(r.d, inode) \ ix.sno
             found == Inodes(shown)
             rows == [i \in DOMAIN found |-> Row("S", found[i], None)]
             r2 == [r EXCEPT !.count = after.n, !.desc = FALSE]
             copies == IF r.desc THEN Copies(r.d, r.level, TRUE) ELSE <<>>
             none == [r2 EXCEPT !.pc = IF opt.S THEN "drop" ELSE "ent"]
             out == IF opt.insert THEN <<>> ELSE rows
             in == IF opt.insert THEN rows ELSE <<>>
             some == [r2 EXCEPT !.pc = "print", !.ret = "ent", !.recs = 0, !.rows = out]
             desc == IF r.desc THEN Descend(r.d, r.level, r.idm, TRUE) ELSE {}
  <1>1. th[t].pc \in {"views", "ent", "drop"}
    BY DEF RunS
  <1>2. /\ r \in RecordType /\ r.d \in Dirs /\ inode \in Dirs \cup {None}
        /\ r.level \in Nat /\ r.idm \in BOOLEAN /\ r.desc \in BOOLEAN /\ r.count \in Int
    <2>1. r \in RecordType /\ r.d \in Dirs /\ inode \in Dirs \cup {None}
      BY <1>1, ShownType
    <2> QED  BY <2>1 DEF RecordType
  <1>3. shown \in SUBSET Dirs
    BY <1>1, ShownType
  <1>4. us \in Seq(Nat \X (Dirs \cup {None})) /\ attached[t] \in SUBSET Attachments
    BY <1>2, DbsType DEF TypeOK
  <1>5. copies \in Seq(Rows)
    <2>1. Copies(r.d, r.level, TRUE) \in Seq(Rows)
      BY <1>2, CopiesType
    <2>2. <<>> \in Seq(Rows)
      OBVIOUS
    <2> QED  BY <2>1, <2>2, Zenon
  <1>6. /\ attached' = [attached EXCEPT ![t] = after.att]
        /\ \E kept \in Swapped(desc) : pool' = pool \cup {kept[i] : i \in DOMAIN kept}
        /\ \/ /\ th' = [th EXCEPT ![t] = none]
              /\ dbs' = [dbs EXCEPT ![t] = @ \o copies]
              /\ UNCHANGED strs
           \/ /\ th' = [th EXCEPT ![t] = some]
              /\ dbs' = [dbs EXCEPT ![t] = @ \o copies \o in]
              /\ strs' = [strs EXCEPT ![t] = SetStr(t, found)]
    BY DEF RunS, AttachedAfter
  <1>7. after.att \in SUBSET Attachments /\ after.n \in Int
    <2> HIDE DEF us
    <2> QED  BY <1>2, <1>4, AttachType, Zenon
  <1>8. pool' \subseteq ItemType
    <2>1. PICK kept \in Swapped(desc) : pool' = pool \cup {kept[i] : i \in DOMAIN kept}
      BY <1>6
    <2>2. {kept[i] : i \in DOMAIN kept} \subseteq ItemType
      <3>1. CASE r.desc
        <4>1. PICK d \in Dirs, level \in Nat, idm \in BOOLEAN, hasdb \in BOOLEAN :
                  d = r.d /\ level = r.level /\ idm = r.idm /\ hasdb = TRUE
          BY <1>2
        <4>2. kept \in Swapped(Descend(d, level, idm, hasdb))
          BY <2>1, <3>1, <4>1
        <4> QED  BY <4>2, ChildrenType
      <3>2. CASE ~r.desc
        BY <2>1, <3>2 DEF Swapped
      <3> QED  BY <3>1, <3>2
    <2> QED  BY <2>1, <2>2 DEF TypeOK
  <1> HIDE DEF after, shown, copies, desc
  <1>9. rows \in Seq(Rows) /\ (found # <<>> => found[Len(found)] \in Dirs)
    BY <1>3, RowsType
  <1> HIDE DEF rows, found
  <1>10. in \in Seq(Rows) /\ out \in Seq(Rows)
    BY <1>9
  <1>11. SetStr(t, found) \in Dirs \cup {None}
    BY <1>9 DEF SetStr, TypeOK
  <1> HIDE DEF in, out
  <1>12. r2 \in RecordType
    BY <1>2, <1>7 DEF RecordType
  <1> HIDE DEF r2
  <1>13. none \in RecordType /\ some \in RecordType
    BY <1>10, <1>12 DEF RecordType
  <1> HIDE DEF none, some
  <1>14. th' \in [Threads -> RecordType \cup {Idle}]
    BY <1>6, <1>13 DEF TypeOK
  <1>15. attached' \in [Threads -> SUBSET Attachments]
    BY <1>6, <1>7 DEF TypeOK
  <1>16. strs' \in [Threads -> Dirs \cup {None}]
    <2> DEFINE str == SetStr(t, found)
    <2>1. strs' = strs \/ strs' = [strs EXCEPT ![t] = str]
      BY <1>6
    <2> HIDE DEF str
    <2> QED  BY <1>11, <2>1 DEF TypeOK, str
  <1>17. dbs' \in [Threads \cup {Agg} -> Seq(Rows)]
    <2>1. dbs[t] \o copies \in Seq(Rows)
      BY <1>5 DEF TypeOK
    <2>2. (dbs[t] \o copies) \o in \in Seq(Rows)
      BY <1>10, <2>1
    <2>3. dbs' = [dbs EXCEPT ![t] = dbs[t] \o copies]
              \/ dbs' = [dbs EXCEPT ![t] = (dbs[t] \o copies) \o in]
      BY <1>6
    <2> QED  BY <2>1, <2>2, <2>3 DEF TypeOK
  <1> QED  BY <1>8, <1>14, <1>15, <1>16, <1>17 DEF RunS, TypeOK

\* What is left at the end of the run is whole rows, for every file.
LEMMA DbsTogether ==
    ASSUME TypeOK
    PROVE  FlattenSeq([t \in Threads |-> dbs[t]]) \in Seq(Rows)
  <1>1. Cardinality(Threads) \in Nat /\ Threads = 1 .. Cardinality(Threads)
    BY ThreadsAssumption, FS_CardinalityType
  <1>2. [t \in Threads |-> dbs[t]] \in Seq(Seq(Rows))
    <2> DEFINE n == Cardinality(Threads)
               f == [t \in Threads |-> dbs[t]]
    <2>1. f \in [1 .. n -> Seq(Rows)] /\ n \in Nat
      BY <1>1 DEF TypeOK
    <2> HIDE DEF n, f
    <2>2. f \in Seq(Seq(Rows))
      BY <2>1
    <2> QED  BY <2>2 DEF f
  <1> QED  BY <1>2, FlattenType

\* The threads that write to f.
Writers(f) == SetToSeq({t \in Threads : Outfile(t) = f})

LEMMA BuffersTogether ==
    ASSUME TypeOK, NEW f
    PROVE  FlattenSeq([i \in DOMAIN Writers(f) |-> Whole(buf[Writers(f)[i]])])
               \in Seq(Rows \X {"end"})
  <1> DEFINE S == {t \in Threads : Outfile(t) = f}
             mine == SetToSeq(S)
  <1>1. IsFiniteSet(S)
    BY ThreadsAssumption, FS_Subset
  <1>2. mine \in Seq(S)
    BY <1>1, SetToSeqIs
  <1>3. S \subseteq Threads
    OBVIOUS
  <1>4. mine = Writers(f)
    BY DEF Writers
  <1> HIDE DEF S, mine
  <1>5. \A i \in DOMAIN mine : Whole(buf[mine[i]]) \in Seq(Rows \X {"end"})
    BY <1>2, <1>3, WholeIs DEF TypeOK
  <1>6. [i \in DOMAIN mine |-> Whole(buf[mine[i]])] \in Seq(Seq(Rows \X {"end"}))
    BY <1>2, <1>5
  <1> QED  BY <1>4, <1>6, FlattenType

LEMMA TypeAggregate == ASSUME TypeOK, Aggregate PROVE TypeOK'
  <1> DEFINE all == FlattenSeq([t \in Threads |-> dbs[t]])
  <1>1. all \in Seq(Rows)
    BY DbsTogether
  <1> HIDE DEF all
  <1>2. Whole(all) \in Seq(Pieces)
    BY <1>1, WholeIs DEF Pieces
  <1>3. AggFile \in {Stdout, Out}
    BY DEF AggFile
  <1>4. \/ /\ dbs' = [dbs EXCEPT ![Agg] = all]
           /\ files' = [files EXCEPT ![AggFile] = @ \o Whole(all)] \/ UNCHANGED files
        \/ UNCHANGED <<dbs, files>>
    BY DEF Aggregate, all
  <1>5. files' \in [Threads \cup {Stdout, Out} -> Seq(Pieces)]
    <2> DEFINE g == AggFile
    <2>1. g \in Threads \cup {Stdout, Out}
      BY <1>3
    <2> HIDE DEF g
    <2>2. files[g] \o Whole(all) \in Seq(Pieces)
      BY <1>2, <2>1 DEF TypeOK
    <2>3. files' = [files EXCEPT ![g] = files[g] \o Whole(all)] \/ files' = files
      BY <1>4 DEF g
    <2> QED  BY <2>1, <2>2, <2>3 DEF TypeOK
  <1>6. dbs' \in [Threads \cup {Agg} -> Seq(Rows)]
    BY <1>1, <1>4 DEF TypeOK
  <1> QED  BY <1>5, <1>6 DEF Aggregate, TypeOK

LEMMA TypeFinalFlush == ASSUME TypeOK, FinalFlush PROVE TypeOK'
  <1> DEFINE Left(f) == FlattenSeq([i \in DOMAIN Writers(f) |-> Whole(buf[Writers(f)[i]])])
  <1>1. \A f : Left(f) \in Seq(Pieces)
    BY BuffersTogether DEF Pieces
  <1>2. files' = [f \in DOMAIN files |-> files[f] \o Left(f)]
    BY DEF FinalFlush, Writers
  <1> HIDE DEF Left
  <1>3. files' \in [Threads \cup {Stdout, Out} -> Seq(Pieces)]
    BY <1>1, <1>2 DEF TypeOK
  <1>4. buf' \in [Threads -> Seq(Rows)]
    BY DEF FinalFlush
  <1> QED  BY <1>3, <1>4 DEF FinalFlush, TypeOK

-----------------------------------------------------------------------------
(* Rows in the output.                                                     *)

\* A file in which no row is torn, and one that ends within a row.
NotTorn(s) ==
    \A i \in DOMAIN s : s[i][2] = "begin" /\ i < Len(s) => s[i + 1] = <<s[i][1], "end">>
Unfinished(s) == s # <<>> /\ s[Len(s)][2] = "begin"

LEMMA AddPiece ==
    ASSUME NEW s \in Seq(Pieces), NEW p \in Pieces, NotTorn(s),
           Unfinished(s) => p = <<s[Len(s)][1], "end">>
    PROVE  /\ NotTorn(Append(s, p))
           /\ Append(s, p) # <<>> /\ Append(s, p)[Len(Append(s, p))] = p
  <1> DEFINE a == Append(s, p)
  <1>1. Len(s) \in Nat /\ Len(a) = Len(s) + 1 /\ a \in Seq(Pieces)
    OBVIOUS
  <1>2. \A i \in 1 .. Len(s) : a[i] = s[i]
    OBVIOUS
  <1>3. a[Len(s) + 1] = p
    OBVIOUS
  <1>4. DOMAIN a = 1 .. Len(s) + 1 /\ DOMAIN s = 1 .. Len(s)
    OBVIOUS
  <1>5. s = <<>> <=> Len(s) = 0
    OBVIOUS
  <1> HIDE DEF a
  <1>6. a # <<>>
    BY <1>1, EmptySeq
  <1>7. NotTorn(a)
    <2> SUFFICES ASSUME NEW i \in 1 .. Len(s) + 1, a[i][2] = "begin", i < Len(s) + 1
                 PROVE  a[i + 1] = <<a[i][1], "end">>
      BY <1>1, <1>4 DEF NotTorn
    <2>1. i \in 1 .. Len(s) /\ a[i] = s[i]
      BY <1>1, <1>2
    <2>2. CASE i < Len(s)
      <3>1. i + 1 \in 1 .. Len(s)
        BY <1>1, <2>2
      <3>2. a[i + 1] = s[i + 1]
        BY <1>2, <3>1
      <3> QED  BY <1>4, <2>1, <2>2, <3>2 DEF NotTorn
    <2>3. CASE i = Len(s)
      BY <1>3, <1>5, <2>1, <2>3 DEF Unfinished
    <2> QED  BY <1>1, <2>1, <2>2, <2>3
  <1> QED  BY <1>1, <1>3, <1>6, <1>7 DEF a

LEMMA AddWhole ==
    ASSUME NEW s \in Seq(Pieces), NotTorn(s), ~Unfinished(s),
           NEW w \in Seq(Rows \X {"end"})
    PROVE  NotTorn(s \o w) /\ ~Unfinished(s \o w)
  <1> DEFINE a == s \o w
  <1>1. /\ Len(s) \in Nat /\ Len(w) \in Nat /\ Len(a) = Len(s) + Len(w)
        /\ DOMAIN a = 1 .. Len(s) + Len(w) /\ DOMAIN s = 1 .. Len(s)
    <2>1. w \in Seq(Pieces)
      BY DEF Pieces
    <2> QED  BY <2>1
  <1>2. \A i \in 1 .. Len(s) : a[i] = s[i]
    BY DEF Pieces
  <1>3. \A i \in Len(s) + 1 .. Len(s) + Len(w) : a[i][2] = "end"
    <2> SUFFICES ASSUME NEW i \in Len(s) + 1 .. Len(s) + Len(w) PROVE a[i][2] = "end"
      OBVIOUS
    <2>1. i - Len(s) \in 1 .. Len(w) /\ a[i] = w[i - Len(s)]
      BY <1>1 DEF Pieces
    <2>2. w[i - Len(s)] \in Rows \X {"end"}
      BY <2>1
    <2> QED  BY <2>1, <2>2
  <1>4. /\ s = <<>> <=> Len(s) = 0
        /\ a = <<>> <=> Len(s) + Len(w) = 0
    <2>1. w \in Seq(Pieces)
      BY DEF Pieces
    <2>2. a \in Seq(Pieces)
      BY <2>1
    <2> QED  BY <1>1, <2>2, EmptySeq
  <1> HIDE DEF a
  <1>5. ~Unfinished(a)
    <2> SUFFICES ASSUME a # <<>> PROVE a[Len(a)][2] # "begin"
      BY DEF Unfinished
    <2>1. CASE Len(w) = 0
      BY <1>1, <1>2, <1>4, <2>1 DEF Unfinished
    <2>2. CASE Len(w) # 0
      BY <1>1, <1>3, <2>2
    <2> QED  BY <2>1, <2>2
  <1>6. NotTorn(a)
    <2> SUFFICES ASSUME NEW i \in 1 .. Len(a), a[i][2] = "begin", i < Len(a)
                 PROVE  a[i + 1] = <<a[i][1], "end">>
      BY <1>1 DEF NotTorn
    <2>1. i \in 1 .. Len(s)
      BY <1>1, <1>3
    <2>2. i # Len(s)
      BY <1>2, <1>4, <2>1 DEF Unfinished
    <2>3. i + 1 \in 1 .. Len(s) /\ i < Len(s)
      <3>1. PICK n \in Nat : n = Len(s)
        BY <1>1
      <3> QED  BY <2>1, <2>2, <3>1
    <2> QED  BY <1>1, <1>2, <2>1, <2>3 DEF NotTorn
  <1> QED  BY <1>5, <1>6 DEF a

\* Threads have something in hand only while the index is walked, which
\* starts with a command line that has been validated; a query that INSERTs
\* prints nothing.
WalkInv ==
    /\ phase # "walk" => \A t \in Threads : th[t].pc = "idle"
    /\ phase = "walk" => Validate(opt)
    /\ \A t \in Threads : th[t].pc # "idle" /\ opt.insert => th[t].rows = <<>>

\* t has written some of the columns of a row.
InRow(t) == th[t].pc # "idle" /\ th[t].part

\* Who is within a row stands at the end of its file and, at stdout, has the
\* mutex; and nobody has left a file within a row.
PartInv ==
    /\ \A t \in Threads : InRow(t) =>
          /\ th[t].pc = "print" /\ th[t].rows # <<>>
          /\ th[t].flushed /\ Capacity < RowLen(Head(th[t].rows))
          /\ HasMutex => stdout_mutex = t
          /\ files[Outfile(t)] # <<>>
          /\ files[Outfile(t)][Len(files[Outfile(t)])] = <<Head(th[t].rows), "begin">>
    /\ \A f \in Threads \cup {Stdout, Out} : Unfinished(files[f]) =>
          \E t \in Threads : Outfile(t) = f /\ InRow(t)
    /\ \A f \in Threads \cup {Stdout, Out} : NotTorn(files[f])

\* A thread that may write to its file is the only one within a row of it.
LEMMA Alone ==
    ASSUME TypeOK, WalkInv, PartInv, NEW s \in Threads, NEW t \in Threads,
           InRow(s), th[t].pc # "idle", th[t].rows # <<>>, MayWrite(t),
           Outfile(s) = Outfile(t)
    PROVE  s = t
  <1>1. ~opt.insert /\ Validate(opt)
    BY DEF WalkInv
  <1>2. opt \in Options
    BY DEF TypeOK
  <1>3. opt.out = "STDOUT" \/ (opt.out = "OUTFILE" /\ ~opt.agg)
    BY <1>1, <1>2, OptionIs, OutputAssumption
  <1>4. CASE opt.out = "STDOUT"
    <2>1. stdout_mutex = s
      BY <1>4 DEF PartInv, HasMutex
    <2>2. stdout_mutex \in {None, t}
      BY <1>4 DEF MayWrite, HasMutex
    <2> QED  BY <2>1, <2>2, ThreadsAssumption
  <1>5. CASE opt.out = "OUTFILE" /\ ~opt.agg
    BY <1>5 DEF Outfile
  <1> QED  BY <1>3, <1>4, <1>5

LEMMA Replaced ==
    ASSUME TypeOK, NEW t \in Threads, NEW r, th' = [th EXCEPT ![t] = r]
    PROVE  th'[t] = r /\ \A s \in Threads : s # t => th'[s] = th[s]
  BY DEF TypeOK

\* What a thread is left with after a step that is not about its output.
Follows(r, old) ==
    \/ r = Idle
    \/ /\ r.pc # "idle" /\ r.part = old.part /\ r.d = old.d
       /\ opt.insert => r.rows \in {<<>>, old.rows}

LEMMA FollowsIs ==
    ASSUME NEW old \in RecordType, NEW rows, opt.insert => rows = <<>>,
           NEW n, NEW left, NEW desc, NEW ret, NEW l \in {"setup", "views", "ent", "drop"}
    PROVE  /\ Follows([old EXCEPT !.pc = l], old)
           /\ Follows([old EXCEPT !.pc = l, !.count = n, !.inodes = left], old)
           /\ Follows([old EXCEPT !.count = n, !.desc = desc, !.pc = l], old)
           /\ Follows([old EXCEPT !.pc = "print", !.ret = ret, !.recs = 0, !.rows = rows], old)
           /\ Follows([old EXCEPT !.count = n, !.desc = desc, !.pc = "print", !.ret = ret,
                                  !.recs = 0, !.rows = rows], old)
  BY DEF Follows, RecordType

\* What the steps of a directory other than its output do.
LEMMA Shape ==
    ASSUME TypeOK, NEW t \in Threads,
           RunT(t) \/ Setup(t) \/ RunS(t) \/ RunE(t) \/ Drop(t) \/ Printed(t)
    PROVE  /\ th[t] \in RecordType /\ (th[t].pc # "print" \/ th[t].rows = <<>>)
           /\ Follows(th'[t], th[t])
           /\ \A s \in Threads : s # t => th'[s] = th[s]
           /\ UNCHANGED <<opt, ix, phase, stdout_mutex, files>>
  <1>1. th[t].pc # "idle" /\ (th[t].pc # "print" \/ th[t].rows = <<>>)
    BY DEF RunT, Setup, RunS, RunE, Drop, Printed
  <1>2. th[t] \in RecordType
    BY <1>1, Busy
  <1>3. UNCHANGED <<opt, ix, phase, stdout_mutex, files>>
    BY DEF RunT, Setup, RunS, RunE, Drop, Printed
  <1> SUFFICES \E r : th' = [th EXCEPT ![t] = r] /\ Follows(r, th[t])
    BY <1>1, <1>2, <1>3, Replaced
  <1>4. Follows(Idle, th[t])
    BY DEF Follows
  <1>5. CASE RunT(t)
    <2>1. \/ th' = [th EXCEPT ![t] = Idle]
          \/ th' = [th EXCEPT ![t] = [th[t] EXCEPT !.pc = "setup"]]
          \/ \E rows : Querydb(t, th[t], rows, "gate")
      BY <1>5 DEF RunT
    <2>2. ASSUME NEW rows, Querydb(t, th[t], rows, "gate")
          PROVE  \E r : th' = [th EXCEPT ![t] = r] /\ Follows(r, th[t])
      BY <1>2, <2>2, FollowsIs DEF Querydb
    <2> QED  BY <1>2, <1>4, <2>1, <2>2, FollowsIs
  <1>6. CASE Setup(t)
    <2> DEFINE n == AttachedAfter(t, 0, IF opt.xattrs THEN XattrDbs(th[t].d) ELSE <<>>).n
               left == IF opt.ext > 0 /\ Group(th[t].d) # {} THEN Inodes(Group(th[t].d))
                       ELSE <<None>>
    <2>1. th' = [th EXCEPT ![t] = [th[t] EXCEPT !.pc = "views", !.count = n, !.inodes = left]]
      BY <1>6 DEF Setup
    <2> HIDE DEF n, left
    <2> QED  BY <1>2, <2>1, FollowsIs
  <1>7. CASE RunS(t)
    <2> DEFINE n == AttachedAfter(t, th[t].count, ExtDbs(Head(th[t].inodes))).n
               r2 == [th[t] EXCEPT !.count = n, !.desc = FALSE]
    <2>1. \/ th' = [th EXCEPT ![t] = [r2 EXCEPT !.pc = IF opt.S THEN "drop" ELSE "ent"]]
          \/ \E rows : /\ opt.insert => rows = <<>>
                       /\ th' = [th EXCEPT ![t] = [r2 EXCEPT !.pc = "print", !.ret = "ent",
                                                             !.recs = 0, !.rows = rows]]
      BY <1>7 DEF RunS
    <2> HIDE DEF n
    <2>2. PICK l, rows :
              \/ /\ l \in {"drop", "ent"}
                 /\ th' = [th EXCEPT ![t] = [th[t] EXCEPT !.count = n, !.desc = FALSE, !.pc = l]]
              \/ /\ opt.insert => rows = <<>>
                 /\ th' = [th EXCEPT ![t] = [th[t] EXCEPT !.count = n, !.desc = FALSE, !.pc = "print",
                                               !.ret = "ent", !.recs = 0, !.rows = rows]]
      BY <2>1
    <2>3. l \in {"drop", "ent"}
            => Follows([th[t] EXCEPT !.count = n, !.desc = FALSE, !.pc = l], th[t])
      BY <1>2, FollowsIs
    <2>4. (opt.insert => rows = <<>>)
            => Follows([th[t] EXCEPT !.count = n, !.desc = FALSE, !.pc = "print",
                                     !.ret = "ent", !.recs = 0, !.rows = rows], th[t])
      BY <1>2, FollowsIs
    <2> QED  BY <2>2, <2>3, <2>4
  <1>8. CASE RunE(t)
    <2>1. \/ th' = [th EXCEPT ![t] = [th[t] EXCEPT !.pc = "drop"]]
          \/ \E rows : Querydb(t, th[t], rows, "drop")
      BY <1>8 DEF RunE
    <2>2. ASSUME NEW rows, Querydb(t, th[t], rows, "drop")
          PROVE  \E r : th' = [th EXCEPT ![t] = r] /\ Follows(r, th[t])
      BY <1>2, <2>2, FollowsIs DEF Querydb
    <2> QED  BY <1>2, <2>1, <2>2, FollowsIs
  <1>9. CASE Drop(t)
    <2> DEFINE n == DetachedAfter(t, th[t].count, ExtDbs(Head(th[t].inodes))).n
               left == Tail(th[t].inodes)
    <2>1. \/ th' = [th EXCEPT ![t] = Idle]
          \/ th' = [th EXCEPT ![t] = [th[t] EXCEPT !.pc = "views", !.count = n, !.inodes = left]]
      BY <1>9 DEF Drop
    <2> HIDE DEF n, left
    <2> QED  BY <1>2, <1>4, <2>1, FollowsIs
  <1>10. CASE Printed(t)
    <2>1. \/ th' = [th EXCEPT ![t] = Idle]
          \/ \E l \in {"setup", "ent", "drop"} : th' = [th EXCEPT ![t] = [th[t] EXCEPT !.pc = l]]
      BY <1>10 DEF Printed
    <2> QED  BY <1>2, <1>4, <2>1, FollowsIs
  <1> QED  BY <1>5, <1>6, <1>7, <1>8, <1>9, <1>10

LEMMA WalkStep ==
    ASSUME TypeOK, InodesInv, WalkInv, [Next]_vars
    PROVE  WalkInv'
  <1>0. /\ th \in [Threads -> RecordType \cup {Idle}]
        /\ \A t \in Threads : th[t].pc # "idle" => th[t] \in RecordType
    BY Busy DEF TypeOK
  <1>1. ASSUME Start PROVE WalkInv'
    BY <1>1 DEF Start, WalkInv
  <1>2. ASSUME Aggregate \/ FinalFlush PROVE WalkInv'
    BY <1>2 DEF Aggregate, FinalFlush, WalkInv
  <1>3. ASSUME NEW t \in Threads, UNCHANGED <<phase, opt>>, phase = "walk",
               \A s \in Threads : s # t => th'[s] = th[s],
               opt.insert => th'[t].pc = "idle" \/ th'[t].rows = <<>>
        PROVE  WalkInv'
    BY <1>3 DEF WalkInv, Validate
  <1>4. ASSUME NEW t \in Threads, NEW item \in pool, Open(t, item) PROVE WalkInv'
    <2>1. th'[t] = th[t] \/ th'[t].rows = <<>>
      <3>1. \/ UNCHANGED th
            \/ \E d : th' = [th EXCEPT ![t] = Record(d, item.level, item.idm, "tsum")]
        BY <1>4 DEF Open
      <3>2. ASSUME NEW d, th' = [th EXCEPT ![t] = Record(d, item.level, item.idm, "tsum")]
            PROVE  th'[t].rows = <<>>
        <4>1. th'[t] = Record(d, item.level, item.idm, "tsum")
          BY <1>0, <3>2
        <4>2. Record(d, item.level, item.idm, "tsum").rows = <<>>
          BY DEF Record
        <4> QED  BY <4>1, <4>2, Zenon
      <3> QED  BY <3>1, <3>2
    <2>2. th[t].pc = "idle" /\ UNCHANGED <<phase, opt>> /\ phase = "walk"
      BY <1>4 DEF Open
    <2>3. \A s \in Threads : s # t => th'[s] = th[s]
      BY <1>0, <1>4 DEF Open
    <2> QED  BY <1>3, <2>1, <2>2, <2>3
  <1>5. ASSUME NEW t \in Threads,
               RunT(t) \/ Setup(t) \/ RunS(t) \/ RunE(t) \/ Drop(t) \/ Printed(t)
        PROVE  WalkInv'
    <2>1. th[t].pc # "idle"
      BY <1>5 DEF RunT, Setup, RunS, RunE, Drop, Printed
    <2>2. opt.insert => th[t].rows = <<>>
      BY <2>1 DEF WalkInv
    <2> QED  BY <1>3, <1>5, <2>1, <2>2, Shape DEF WalkInv, Follows, Idle
  <1>6. ASSUME NEW t \in Threads, Flush(t) \/ WriteColumns(t) \/ Buffer(t)
        PROVE  WalkInv'
    <2>1. th[t].pc # "idle" /\ th[t].rows # <<>>
      BY <1>6 DEF Flush, WriteColumns, Buffer
    <2>2. phase = "walk" /\ ~opt.insert
      BY <2>1 DEF WalkInv
    <2>3. UNCHANGED <<phase, opt>>
      BY <1>6 DEF Flush, WriteColumns, Buffer
    <2> QED  BY <2>2, <2>3 DEF WalkInv, Validate
  <1>7. ASSUME UNCHANGED vars PROVE WalkInv'
    BY <1>7 DEF vars, WalkInv, Validate
  <1> QED  BY <1>1, <1>2, <1>4, <1>5, <1>6, <1>7 DEF Next, Ended

\* A step that leaves the output alone, of a thread that is not within a row.
LEMMA QuietStep ==
    ASSUME TypeOK, PartInv, NEW t \in Threads, ~InRow(t), ~InRow(t)',
           \A s \in Threads : s # t => th'[s] = th[s],
           UNCHANGED <<opt, ix, stdout_mutex, files>>
    PROVE  PartInv'
  <1>1. \A s \in Threads : InRow(s)' => InRow(s) /\ th'[s] = th[s]
    BY DEF InRow
  <1>2. \A s \in Threads : InRow(s) => InRow(s)'
    BY DEF InRow
  <1>3. \A s \in Threads : Outfile(s)' = Outfile(s)
    BY DEF Outfile
  <1>4. \A s \in Threads : InRow(s)' =>
          /\ th'[s].pc = "print" /\ th'[s].rows # <<>>
          /\ th'[s].flushed /\ Capacity < RowLen(Head(th[s].rows))'
          /\ HasMutex' => stdout_mutex' = s
          /\ files'[Outfile(s)'] # <<>>
          /\ files'[Outfile(s)'][Len(files'[Outfile(s)'])] = <<Head(th'[s].rows), "begin">>
    BY <1>1, <1>3 DEF PartInv, HasMutex, RowLen
  <1>5. \A f \in Threads \cup {Stdout, Out} : Unfinished(files'[f]) =>
            \E s \in Threads : Outfile(s)' = f /\ InRow(s)'
    BY <1>2, <1>3 DEF PartInv
  <1>6. \A f \in Threads \cup {Stdout, Out} : NotTorn(files'[f])
    BY DEF PartInv
  <1> QED  BY <1>4, <1>5, <1>6 DEF PartInv, RowLen

\* A step that ends the file of t as it was ended before, when nobody is
\* within a row of it.
LEMMA WholeStep ==
    ASSUME TypeOK, PartInv, NEW g \in SUBSET (Threads \cup {Stdout, Out}),
           \A s \in Threads : InRow(s) => Outfile(s) \notin g,
           NEW w, \A f \in g : w[f] \in Seq(Rows \X {"end"}) /\ files'[f] = files[f] \o w[f],
           \A f \in (Threads \cup {Stdout, Out}) \ g : files'[f] = files[f],
           \A s \in Threads : (InRow(s)' <=> InRow(s)) /\ (InRow(s) => th'[s] = th[s]),
           UNCHANGED <<opt, ix, stdout_mutex>>
    PROVE  PartInv'
  <1>1. \A s \in Threads : Outfile(s)' = Outfile(s) /\ Outfile(s) \in Threads \cup {Stdout, Out}
    BY OutfileType DEF Outfile
  <1>2. ASSUME NEW f \in g PROVE NotTorn(files'[f]) /\ ~Unfinished(files'[f])
    <2>1. files[f] \in Seq(Pieces)
      BY DEF TypeOK
    <2>2. NotTorn(files[f]) /\ ~Unfinished(files[f])
      BY DEF PartInv
    <2> QED  BY <2>1, <2>2, AddWhole
  <1>3. \A s \in Threads : InRow(s)' =>
          /\ th'[s].pc = "print" /\ th'[s].rows # <<>>
          /\ th'[s].flushed /\ Capacity < RowLen(Head(th[s].rows))'
          /\ HasMutex' => stdout_mutex' = s
          /\ files'[Outfile(s)'] # <<>>
          /\ files'[Outfile(s)'][Len(files'[Outfile(s)'])] = <<Head(th'[s].rows), "begin">>
    BY <1>1 DEF PartInv, HasMutex, RowLen
  <1>4. \A f \in Threads \cup {Stdout, Out} : Unfinished(files'[f]) =>
            \E s \in Threads : Outfile(s)' = f /\ InRow(s)'
    BY <1>1, <1>2 DEF PartInv
  <1>5. \A f \in Threads \cup {Stdout, Out} : NotTorn(files'[f])
    BY <1>2 DEF PartInv
  <1> QED  BY <1>3, <1>4, <1>5 DEF PartInv, RowLen

LEMMA PartFlush ==
    ASSUME TypeOK, WalkInv, PartInv, NEW t \in Threads, Flush(t)
    PROVE  PartInv'
  <1> DEFINE f == Outfile(t)
             w == [x \in {f} |-> Whole(buf[t])]
  <1>1. /\ th[t].pc = "print" /\ th[t].rows # <<>> /\ ~th[t].flushed /\ MayWrite(t)
        /\ files' = [files EXCEPT ![f] = files[f] \o Whole(buf[t])]
        /\ th' = [th EXCEPT ![t] = [th[t] EXCEPT !.flushed = TRUE]]
        /\ UNCHANGED <<opt, ix, stdout_mutex>>
    BY DEF Flush
  <1>2. th[t] \in RecordType
    BY <1>1, Busy
  <1>3. ~InRow(t)
    BY <1>1 DEF PartInv
  <1>4. \A s \in Threads : InRow(s) => Outfile(s) # f
    BY <1>1, <1>3, Alone
  <1>5. f \in Threads \cup {Stdout, Out}
    BY OutfileType
  <1>6. /\ th'[t] = [th[t] EXCEPT !.flushed = TRUE]
        /\ \A s \in Threads : s # t => th'[s] = th[s]
    BY <1>1, Replaced
  <1>7. ~InRow(t)'
    BY <1>2, <1>3, <1>6 DEF InRow, RecordType
  <1>8. \A s \in Threads : (InRow(s)' <=> InRow(s)) /\ (InRow(s) => th'[s] = th[s])
    <2>1. \A s \in Threads : s # t => (InRow(s)' <=> InRow(s))
      BY <1>6 DEF InRow
    <2> QED  BY <1>3, <1>6, <1>7, <2>1
  <1>9. Whole(buf[t]) \in Seq(Rows \X {"end"})
    BY WholeIs DEF TypeOK
  <1> HIDE DEF f
  <1>10. files'[f] = files[f] \o w[f] /\ w[f] = Whole(buf[t])
    BY <1>1, <1>5 DEF TypeOK
  <1>11. \A x \in (Threads \cup {Stdout, Out}) \ {f} : files'[x] = files[x]
    BY <1>1 DEF TypeOK
  <1> DEFINE g == {f}
  <1>12. g \in SUBSET (Threads \cup {Stdout, Out}) /\ \A s \in Threads : InRow(s) => Outfile(s) \notin g
    BY <1>4, <1>5
  <1>13. \A x \in g : w[x] \in Seq(Rows \X {"end"}) /\ files'[x] = files[x] \o w[x]
    BY <1>9, <1>10
  <1>14. \A x \in (Threads \cup {Stdout, Out}) \ g : files'[x] = files[x]
    BY <1>11
  <1>15. UNCHANGED <<opt, ix, stdout_mutex>>
    BY <1>1
  <1> HIDE DEF g, w
  <1> QED  BY <1>8, <1>12, <1>13, <1>14, <1>15, WholeStep

LEMMA PartWrite ==
    ASSUME TypeOK, WalkInv, PartInv, NEW t \in Threads, WriteColumns(t)
    PROVE  PartInv'
  <1> DEFINE f == Outfile(t)
             row == Head(th[t].rows)
             p == <<row, IF th[t].part THEN "end" ELSE "begin">>
  <1>1. /\ th[t].pc = "print" /\ th[t].rows # <<>> /\ MayWrite(t)
        /\ NeedsFlush(buf[t], row) => th[t].flushed
        /\ Capacity < RowLen(row)
        /\ files' = [files EXCEPT ![f] = Append(files[f], p)]
        /\ th' = [th EXCEPT ![t] = IF th[t].part THEN NextRow(th[t])
                                   ELSE [th[t] EXCEPT !.part = TRUE]]
        /\ stdout_mutex' = IF HasMutex /\ ~th[t].part THEN t ELSE None
        /\ UNCHANGED <<opt, ix>>
    BY DEF WriteColumns
  <1>2. th[t] \in RecordType /\ th[t].part \in BOOLEAN /\ th[t].rows \in Seq(Rows)
    <2>1. th[t] \in RecordType
      BY <1>1, Busy
    <2> QED  BY <2>1 DEF RecordType
  <1>3. row \in Rows
    BY <1>1, <1>2, HeadTailProperties
  <1>4. th[t].flushed
    <2>1. Len(buf[t]) \in Nat
      BY LenProperties DEF TypeOK
    <2>2. RowLen(row) \in Nat
      BY QueryAssumption DEF RowLen
    <2> QED  BY <1>1, <2>1, <2>2, QueryAssumption DEF NeedsFlush, Filled
  <1>5. InRow(t) <=> th[t].part
    BY <1>1 DEF InRow
  <1>6. \A s \in Threads : InRow(s) /\ Outfile(s) = f => s = t
    BY <1>1, Alone
  <1>7. f \in Threads \cup {Stdout, Out} /\ \A s \in Threads : Outfile(s)' = Outfile(s)
    BY <1>1, OutfileType DEF Outfile
  <1>8. files[f] \in Seq(Pieces) /\ NotTorn(files[f])
    BY <1>7 DEF TypeOK, PartInv
  <1>9. p \in Pieces
    BY <1>3 DEF Pieces
  <1>10. Unfinished(files[f]) => p = <<files[f][Len(files[f])][1], "end">>
    <2> SUFFICES ASSUME Unfinished(files[f]) PROVE p = <<files[f][Len(files[f])][1], "end">>
      OBVIOUS
    <2>1. InRow(t)
      BY <1>6, <1>7 DEF PartInv
    <2>2. files[f][Len(files[f])] = <<row, "begin">>
      BY <2>1 DEF PartInv
    <2> QED  BY <1>5, <2>1, <2>2
  <1>11. /\ \A s \in Threads : s # t => th'[s] = th[s]
         /\ th'[t] = IF th[t].part THEN NextRow(th[t]) ELSE [th[t] EXCEPT !.part = TRUE]
    BY <1>1, Replaced, Zenon
  <1> HIDE DEF f, row, p
  <1>12. /\ files'[f] = Append(files[f], p)
         /\ \A x \in (Threads \cup {Stdout, Out}) \ {f} : files'[x] = files[x]
    BY <1>1, <1>7 DEF TypeOK
  <1>13. NotTorn(files'[f]) /\ files'[f] # <<>> /\ files'[f][Len(files'[f])] = p
    BY <1>8, <1>9, <1>10, <1>12, AddPiece
  <1>14. /\ th[t].part => ~InRow(t)'
         /\ ~th[t].part => /\ th'[t].pc = "print" /\ th'[t].rows = th[t].rows
                           /\ th'[t].flushed /\ InRow(t)'
    <2>1. CASE th[t].part
      BY <1>2, <1>11, <2>1 DEF NextRow, RecordType, InRow
    <2>2. CASE ~th[t].part
      <3>1. th'[t] = [th[t] EXCEPT !.part = TRUE]
        BY <1>11, <2>2
      <3>2. th[t].pc = "print"
        BY <1>1
      <3> QED  BY <1>2, <1>4, <2>2, <3>1, <3>2 DEF RecordType, InRow
    <2> QED  BY <2>1, <2>2
  <1>15. \A s \in Threads : s # t => (InRow(s)' <=> InRow(s))
    BY <1>11 DEF InRow
  <1>16. \A s \in Threads : s # t /\ InRow(s) => Outfile(s) # f /\ ~HasMutex
    BY <1>6 DEF f, Outfile, HasMutex
  <1>17. ASSUME NEW s \in Threads, InRow(s)'
         PROVE  /\ th'[s].pc = "print" /\ th'[s].rows # <<>>
                /\ th'[s].flushed /\ Capacity < RowLen(Head(th[s].rows))'
                /\ HasMutex' => stdout_mutex' = s
                /\ files'[Outfile(s)'] # <<>>
                /\ files'[Outfile(s)'][Len(files'[Outfile(s)'])] = <<Head(th'[s].rows), "begin">>
    <2>1. CASE s # t
      <3>1. InRow(s) /\ th'[s] = th[s] /\ ~HasMutex /\ Outfile(s)' = Outfile(s)
        BY <1>7, <1>11, <1>15, <1>16, <1>17, <2>1
      <3>2. files'[Outfile(s)] = files[Outfile(s)]
        BY <1>12, <1>15, <1>16, <1>17, <2>1, OutfileType
      <3> QED  BY <1>1, <3>1, <3>2 DEF PartInv, HasMutex, RowLen
    <2>2. CASE s = t
      <3>1. ~th[t].part /\ th'[t].rows = th[t].rows /\ th'[t].pc = "print" /\ th'[t].flushed
        BY <1>14, <1>17, <2>2
      <3>2. p = <<row, "begin">> /\ Outfile(t)' = f
        BY <1>7, <3>1 DEF p, f
      <3> QED  BY <1>1, <1>13, <2>2, <3>1, <3>2 DEF HasMutex, RowLen, row
    <2> QED  BY <2>1, <2>2
  <1>18. ASSUME NEW x \in Threads \cup {Stdout, Out}, Unfinished(files'[x])
         PROVE  \E s \in Threads : Outfile(s)' = x /\ InRow(s)'
    <2>1. CASE x = f
      <3>1. p[2] = "begin"
        BY <1>13, <1>18, <2>1 DEF Unfinished
      <3>2. ~th[t].part
        BY <3>1 DEF p
      <3> QED  BY <1>7, <1>14, <2>1, <3>2 DEF f
    <2>2. CASE x # f
      <3>1. PICK s \in Threads : Outfile(s) = x /\ InRow(s)
        BY <1>12, <1>18, <2>2 DEF PartInv
      <3> QED  BY <1>7, <1>15, <2>2, <3>1 DEF f
    <2> QED  BY <2>1, <2>2
  <1>19. \A x \in Threads \cup {Stdout, Out} : NotTorn(files'[x])
    BY <1>12, <1>13 DEF PartInv
  <1> QED  BY <1>17, <1>18, <1>19 DEF PartInv, RowLen

LEMMA PartBuffer ==
    ASSUME TypeOK, PartInv, NEW t \in Threads, Buffer(t)
    PROVE  PartInv'
  <1>1. /\ th[t].pc = "print" /\ th[t].rows # <<>> /\ Capacity >= RowLen(Head(th[t].rows))
        /\ th' = [th EXCEPT ![t] = NextRow(th[t])]
        /\ UNCHANGED <<opt, ix, stdout_mutex, files>>
    BY DEF Buffer
  <1>2. th[t] \in RecordType
    BY <1>1, Busy
  <1>3. ~InRow(t)
    <2>1. RowLen(Head(th[t].rows)) \in Nat
      BY QueryAssumption DEF RowLen
    <2> QED  BY <1>1, <2>1, QueryAssumption DEF PartInv
  <1>4. th'[t] = NextRow(th[t]) /\ \A s \in Threads : s # t => th'[s] = th[s]
    BY <1>1, Replaced
  <1>5. ~InRow(t)'
    BY <1>2, <1>4 DEF InRow, NextRow, RecordType
  <1> QED  BY <1>1, <1>3, <1>4, <1>5, QuietStep

LEMMA PartStep ==
    ASSUME TypeOK, WalkInv, PartInv, [Next]_vars
    PROVE  PartInv'
  <1>1. ASSUME Start PROVE PartInv'
    BY <1>1 DEF Start, PartInv, InRow, HasMutex, RowLen, Outfile
  <1>2. ASSUME NEW t \in Threads, NEW item \in pool, Open(t, item) PROVE PartInv'
    <2>1. \/ UNCHANGED th
          \/ \E d : th' = [th EXCEPT ![t] = Record(d, item.level, item.idm, "tsum")]
      BY <1>2 DEF Open
    <2>2. th[t].pc = "idle" /\ UNCHANGED <<opt, ix, stdout_mutex, files>>
      BY <1>2 DEF Open
    <2>3. th'[t] = th[t] \/ th'[t].part = FALSE
      <3>1. ASSUME NEW d, th' = [th EXCEPT ![t] = Record(d, item.level, item.idm, "tsum")]
            PROVE  th'[t].part = FALSE
        <4>1. th'[t] = Record(d, item.level, item.idm, "tsum")
          BY <3>1 DEF TypeOK
        <4>2. Record(d, item.level, item.idm, "tsum").part = FALSE
          BY DEF Record
        <4> QED  BY <4>1, <4>2, Zenon
      <3> QED  BY <2>1, <3>1
    <2>4. \A s \in Threads : s # t => th'[s] = th[s]
      BY <2>1 DEF TypeOK
    <2> QED  BY <2>2, <2>3, <2>4, QuietStep DEF InRow
  <1>3. ASSUME NEW t \in Threads,
               RunT(t) \/ Setup(t) \/ RunS(t) \/ RunE(t) \/ Drop(t) \/ Printed(t)
        PROVE  PartInv'
    <2>1. ~InRow(t)
      BY <1>3, Shape DEF PartInv
    <2>2. ~InRow(t)'
      <3>1. th[t] \in RecordType /\ Follows(th'[t], th[t])
        BY <1>3, Shape
      <3>2. ~th[t].part
        BY <2>1, <3>1 DEF InRow, RecordType
      <3> QED  BY <3>1, <3>2 DEF Follows, Idle, InRow
    <2> QED  BY <1>3, <2>1, <2>2, Shape, QuietStep
  <1>4. ASSUME NEW t \in Threads, Flush(t) \/ WriteColumns(t) \/ Buffer(t)
        PROVE  PartInv'
    BY <1>4, PartFlush, PartWrite, PartBuffer
  <1>5. ASSUME Aggregate PROVE PartInv'
    <2> DEFINE all == FlattenSeq([t \in Threads |-> dbs[t]])
    <2>1. \A s \in Threads : ~InRow(s)
      BY <1>5 DEF Aggregate, InRow
    <2>2. UNCHANGED <<opt, ix, stdout_mutex, th>>
      BY <1>5 DEF Aggregate
    <2>3. \A s \in Threads : (InRow(s)' <=> InRow(s)) /\ (InRow(s) => th'[s] = th[s])
      BY <2>2 DEF InRow
    <2>4. Whole(all) \in Seq(Rows \X {"end"}) /\ AggFile \in {Stdout, Out}
      BY DbsTogether, WholeIs DEF AggFile
    <2>5. CASE UNCHANGED files
      BY <2>1, <2>2, <2>3, <2>5 DEF PartInv
    <2>6. CASE ~UNCHANGED files
      <3> DEFINE g == {AggFile}
                 w == [f \in g |-> Whole(all)]
      <3>1. files' = [files EXCEPT ![AggFile] = files[AggFile] \o Whole(all)]
        BY <1>5, <2>6 DEF Aggregate
      <3> HIDE DEF all
      <3>2. \A f \in g : w[f] \in Seq(Rows \X {"end"}) /\ files'[f] = files[f] \o w[f]
        BY <2>4, <3>1 DEF TypeOK
      <3>3. \A f \in (Threads \cup {Stdout, Out}) \ g : files'[f] = files[f]
        BY <3>1 DEF TypeOK
      <3>4. g \in SUBSET (Threads \cup {Stdout, Out})
        BY <2>4
      <3> HIDE DEF g, w
      <3> QED  BY <2>1, <2>2, <2>3, <3>2, <3>3, <3>4, WholeStep
    <2> QED  BY <2>5, <2>6
  <1>6. ASSUME FinalFlush PROVE PartInv'
    <2> DEFINE g == Threads \cup {Stdout, Out}
               w == [f \in g |-> FlattenSeq([i \in DOMAIN Writers(f) |-> Whole(buf[Writers(f)[i]])])]
    <2>1. \A s \in Threads : ~InRow(s)
      BY <1>6 DEF FinalFlush, WalkInv, InRow
    <2>2. UNCHANGED <<opt, ix, stdout_mutex, th>>
      BY <1>6 DEF FinalFlush
    <2>3. \A s \in Threads : (InRow(s)' <=> InRow(s)) /\ (InRow(s) => th'[s] = th[s])
      BY <2>2 DEF InRow
    <2>4. \A f \in g : w[f] \in Seq(Rows \X {"end"})
      BY BuffersTogether
    <2>5. files' = [f \in DOMAIN files |-> files[f] \o
                       FlattenSeq([i \in DOMAIN Writers(f) |-> Whole(buf[Writers(f)[i]])])]
      BY <1>6 DEF FinalFlush, Writers
    <2>6. \A f \in g : files'[f] = files[f] \o w[f]
      BY <2>5 DEF TypeOK
    <2>7. g \in SUBSET (Threads \cup {Stdout, Out})
          /\ \A f \in (Threads \cup {Stdout, Out}) \ g : files'[f] = files[f]
      OBVIOUS
    <2> HIDE DEF g, w
    <2> QED  BY <2>1, <2>2, <2>3, <2>4, <2>6, <2>7, WholeStep
  <1>7. ASSUME UNCHANGED vars PROVE PartInv'
    BY <1>7 DEF vars, PartInv, InRow, HasMutex, RowLen, Outfile
  <1> QED  BY <1>1, <1>2, <1>3, <1>4, <1>5, <1>6, <1>7 DEF Next, Ended

-----------------------------------------------------------------------------
(* Attached databases.                                                     *)

\* The databases of files_ that can be attached, with names from n on.
Named(n, files_) == {[n |-> n + (i - 1), db |-> files_[i]] : i \in Readable(files_)}

LEMMA AttachIs ==
    ASSUME NEW S, NEW files_ \in Seq(S), NEW n \in Nat, NEW A, \A a \in A : a.n < n /\ a.n \in Nat
    PROVE  /\ Attach([att |-> A, n |-> n], files_).n = n + Len(files_)
           /\ Attach([att |-> A, n |-> n], files_).att = A \cup Named(n, files_)
  <1> DEFINE r == [att |-> A, n |-> n]
  <1>1. Readable(files_) \subseteq Nat \ {0}
    BY DEF Readable
  <1>2. \A i \in Readable(files_) : Name(r, i) = n + (i - 1) /\ \A a \in r.att : a.n # Name(r, i)
    BY <1>1 DEF Name
  <1>3. Attach(r, files_).att = A \cup {[n |-> Name(r, i), db |-> files_[i]] : i \in Readable(files_)}
    BY <1>2 DEF Attach
  <1>4. Attach(r, files_).n = n + Len(files_)
    BY DEF Attach
  <1> QED  BY <1>2, <1>3, <1>4 DEF Named

LEMMA DetachIs ==
    ASSUME NEW S, NEW files_ \in Seq(S), NEW n \in Nat, NEW A, \A a \in A : a.n < n /\ a.n \in Nat
    PROVE  Detach([att |-> A \cup Named(n, files_), n |-> n + Len(files_)], files_)
               = [n |-> n, att |-> A]
  <1> DEFINE r == [att |-> A \cup Named(n, files_), n |-> n + Len(files_)]
             l == Len(files_)
  <1>1. l \in Nat /\ DOMAIN files_ = 1 .. l
    OBVIOUS
  <1>2. (n + l) - l = n
    BY <1>1
  <1>3. \A a \in A : a.n \notin n .. (n + l - 1)
    OBVIOUS
  <1>4. \A a \in Named(n, files_) : a.n \in n .. (n + l - 1)
    BY <1>1 DEF Named, Readable
  <1>5. {a \in r.att : a.n \notin n .. (n + l - 1)} = A
    BY <1>3, <1>4
  <1>6. Detach(r, files_) = [n |-> (n + l) - l,
                             att |-> {a \in r.att : a.n \notin ((n + l) - l) .. ((n + l) - 1)}]
    BY DEF Detach, DetachLast
  <1>7. (n + l) - 1 = n + l - 1
    BY <1>1
  <1> HIDE DEF r, l
  <1>8. Detach(r, files_) = [n |-> n, att |-> A]
    BY <1>2, <1>5, <1>6, <1>7
  <1> QED  BY <1>8 DEF r, l

\* The databases of the directory t is at, and of the one it shows.
Xattrs(t) == IF opt.xattrs THEN XattrDbs(th[t].d) ELSE <<>>
Users(t) == ExtDbs(Head(th[t].inodes))

\* t runs -S or -E.
Querying(t) == th[t].pc \in {"ent", "drop"} \/ (th[t].pc = "print" /\ th[t].ret # "gate")

\* What is attached has the names that the thread will count down over, and
\* a name is kept free for what could not be attached.
AttachedFor(t) ==
    /\ th[t].pc \in {"idle", "tsum", "setup"} \/ (th[t].pc = "print" /\ th[t].ret = "gate")
            => attached[t] = {}
    /\ th[t].pc = "views" => /\ attached[t] = Named(0, Xattrs(t))
                             /\ th[t].count = Len(Xattrs(t))
    /\ Querying(t) => /\ attached[t] = Named(0, Xattrs(t)) \cup Named(Len(Xattrs(t)), Users(t))
                      /\ th[t].count = Len(Xattrs(t)) + Len(Users(t))

AttachInv == \A t \in Threads : AttachedFor(t)

\* What is attached has to do with these fields of a thread only.
LEMMA AttachSame ==
    ASSUME NEW t \in Threads, UNCHANGED <<opt, ix>>, attached'[t] = attached[t],
           th'[t].pc = th[t].pc, th'[t].ret = th[t].ret, th'[t].d = th[t].d,
           th'[t].inodes = th[t].inodes, th'[t].count = th[t].count,
           AttachedFor(t)
    PROVE  AttachedFor(t)'
  <1>1. Xattrs(t)' = Xattrs(t) /\ Users(t)' = Users(t)
    BY DEF Xattrs, Users, XattrDbs, ExtDbs, Group
  <1>2. \A n, fs : Named(n, fs)' = Named(n, fs)
    BY DEF Named, Readable
  <1> QED  BY <1>1, <1>2 DEF AttachedFor, Querying

\* A thread goes on running queries on the same directory.
LEMMA AttachKept ==
    ASSUME NEW t \in Threads, UNCHANGED <<opt, ix>>, attached'[t] = attached[t],
           th'[t].d = th[t].d, th'[t].inodes = th[t].inodes, th'[t].count = th[t].count,
           AttachedFor(t), Querying(t), Querying(t)'
    PROVE  AttachedFor(t)'
  <1>1. Xattrs(t)' = Xattrs(t) /\ Users(t)' = Users(t)
    BY DEF Xattrs, Users, XattrDbs, ExtDbs, Group
  <1>2. \A n, fs : Named(n, fs)' = Named(n, fs)
    BY DEF Named, Readable
  <1>3. /\ attached'[t] = Named(0, Xattrs(t)') \cup Named(Len(Xattrs(t)'), Users(t)')
        /\ th'[t].count = Len(Xattrs(t)') + Len(Users(t)')
    BY <1>1 DEF AttachedFor
  <1> QED  BY <1>2, <1>3 DEF AttachedFor, Querying

\* A thread that has no database attached, and does not show one yet.
LEMMA AttachNone ==
    ASSUME NEW t \in Threads, attached'[t] = {},
           \/ th'[t].pc \in {"idle", "tsum", "setup"}
           \/ th'[t].pc = "print" /\ th'[t].ret = "gate"
    PROVE  AttachedFor(t)'
  BY DEF AttachedFor, Querying

\* A step of one thread.
LEMMA AttachOthers ==
    ASSUME AttachInv, NEW t \in Threads, UNCHANGED <<opt, ix>>, AttachedFor(t)',
           \A s \in Threads : s # t => th'[s] = th[s] /\ attached'[s] = attached[s]
    PROVE  AttachInv'
  BY AttachSame DEF AttachInv

\* The databases of a thread that shows a directory, and their names.
LEMMA DbsOf ==
    ASSUME TypeOK, InodesInv, NEW t \in Threads, th[t].pc \in {"views", "ent", "drop"}
    PROVE  /\ Xattrs(t) \in Seq(Nat \X (Dirs \cup {None}))
           /\ Users(t) \in Seq(Nat \X (Dirs \cup {None}))
           /\ \A a \in Named(0, Xattrs(t)) : a.n < Len(Xattrs(t)) /\ a.n \in Nat
  <1>1. th[t].d \in Dirs /\ Head(th[t].inodes) \in Dirs \cup {None}
    BY ShownType
  <1>2. <<>> \in Seq(Nat \X (Dirs \cup {None}))
    OBVIOUS
  <1>3. Xattrs(t) \in Seq(Nat \X (Dirs \cup {None}))
    BY <1>1, <1>2, DbsType, Zenon DEF Xattrs
  <1>4. Users(t) \in Seq(Nat \X (Dirs \cup {None}))
    BY <1>1, DbsType, Zenon DEF Users
  <1>5. \A a \in Named(0, Xattrs(t)) : a.n < Len(Xattrs(t)) /\ a.n \in Nat
    BY <1>3 DEF Named, Readable
  <1> QED  BY <1>3, <1>4, <1>5

LEMMA AttachSetup ==
    ASSUME TypeOK, AttachInv, NEW t \in Threads, Setup(t)
    PROVE  AttachedFor(t)'
  <1> DEFINE X == Xattrs(t)
             after == Attach([att |-> {}, n |-> 0], X)
  <1>1. th[t] \in RecordType /\ th[t].pc = "setup"
    BY Busy DEF Setup
  <1>2. attached[t] = {}
    BY <1>1 DEF AttachInv, AttachedFor
  <1>3. X \in Seq(Nat \X (Dirs \cup {None}))
    <2>1. XattrDbs(th[t].d) \in Seq(Nat \X (Dirs \cup {None}))
      BY <1>1, DbsType DEF RecordType
    <2> QED  BY <2>1 DEF Xattrs
  <1>4. after.att = {} \cup Named(0, X) /\ after.n = 0 + Len(X)
    <2>1. \A a \in {} : a.n < 0 /\ a.n \in Nat
      OBVIOUS
    <2> HIDE DEF X
    <2> QED  BY <1>3, <2>1, AttachIs
  <1>5. PICK left : /\ attached' = [attached EXCEPT ![t] = after.att]
                    /\ th' = [th EXCEPT ![t] = [th[t] EXCEPT !.pc = "views", !.count = after.n,
                                                             !.inodes = left]]
    BY <1>2 DEF Setup, AttachedAfter, Xattrs
  <1> HIDE DEF after
  <1>6. th'[t] = [th[t] EXCEPT !.pc = "views", !.count = after.n, !.inodes = left]
    BY <1>5, Replaced
  <1>7. th'[t].pc = "views" /\ th'[t].d = th[t].d /\ th'[t].count = after.n
    BY <1>1, <1>6 DEF RecordType
  <1>8. attached'[t] = Named(0, X)
    BY <1>4, <1>5 DEF TypeOK
  <1>9. th'[t].count = Len(X)
    BY <1>3, <1>4, <1>7
  <1>10. UNCHANGED <<opt, ix>>
    BY DEF Setup
  <1>11. Xattrs(t)' = X
    BY <1>7, <1>10 DEF Xattrs, XattrDbs, Group
  <1>12. \A n, fs : Named(n, fs)' = Named(n, fs)
    BY <1>10 DEF Named, Readable
  <1>13. attached'[t] = Named(0, Xattrs(t)') /\ th'[t].count = Len(Xattrs(t)')
    BY <1>8, <1>9, <1>11
  <1> QED  BY <1>7, <1>12, <1>13 DEF AttachedFor, Querying

LEMMA AttachRunS ==
    ASSUME TypeOK, InodesInv, AttachInv, NEW t \in Threads, RunS(t)
    PROVE  AttachedFor(t)'
  <1> DEFINE X == Xattrs(t)
             U == Users(t)
             after == Attach([att |-> Named(0, X), n |-> Len(X)], U)
  <1>1. th[t].pc = "views"
    BY DEF RunS
  <1>2. th[t] \in RecordType
    BY <1>1, Busy
  <1>3. attached[t] = Named(0, X) /\ th[t].count = Len(X)
    BY <1>1 DEF AttachInv, AttachedFor
  <1>4. /\ X \in Seq(Nat \X (Dirs \cup {None})) /\ U \in Seq(Nat \X (Dirs \cup {None}))
        /\ \A a \in Named(0, X) : a.n < Len(X) /\ a.n \in Nat
    BY <1>1, DbsOf
  <1>5. after.att = Named(0, X) \cup Named(Len(X), U) /\ after.n = Len(X) + Len(U)
    <2> HIDE DEF X, U
    <2>1. Len(X) \in Nat
      BY <1>4
    <2> DEFINE A == Named(0, X)
               n == Len(X)
    <2>2. n \in Nat /\ \A a \in A : a.n < n /\ a.n \in Nat
      BY <1>4, <2>1
    <2> HIDE DEF A, n
    <2>3. Attach([att |-> A, n |-> n], U).att = A \cup Named(n, U)
          /\ Attach([att |-> A, n |-> n], U).n = n + Len(U)
      BY <1>4, <2>2, AttachIs
    <2> QED  BY <2>3 DEF A, n
  <1>6. after = AttachedAfter(t, th[t].count, ExtDbs(Head(th[t].inodes)))
    BY <1>3 DEF AttachedAfter, Users
  <1> HIDE DEF after
  <1>7. attached' = [attached EXCEPT ![t] = after.att]
    BY <1>6 DEF RunS
  <1>8. PICK l, rows, ret :
            \/ /\ l \in {"drop", "ent"}
               /\ th' = [th EXCEPT ![t] = [th[t] EXCEPT !.count = after.n, !.desc = FALSE,
                                                        !.pc = l]]
            \/ th' = [th EXCEPT ![t] = [th[t] EXCEPT !.count = after.n, !.desc = FALSE,
                             !.pc = "print", !.ret = "ent", !.recs = 0, !.rows = rows]]
    <2> DEFINE r2 == [th[t] EXCEPT !.count = after.n, !.desc = FALSE]
    <2>1. \/ th' = [th EXCEPT ![t] = [r2 EXCEPT !.pc = IF opt.S THEN "drop" ELSE "ent"]]
          \/ \E rows : th' = [th EXCEPT ![t] = [r2 EXCEPT !.pc = "print", !.ret = "ent",
                                                          !.recs = 0, !.rows = rows]]
      BY <1>6 DEF RunS
    <2> QED  BY <2>1
  <1>9. /\ th'[t].d = th[t].d /\ th'[t].inodes = th[t].inodes /\ th'[t].count = after.n
        /\ th'[t].pc \in {"ent", "drop"} \/ (th'[t].pc = "print" /\ th'[t].ret # "gate")
    <2>1. \/ /\ l \in {"drop", "ent"}
             /\ th'[t] = [th[t] EXCEPT !.count = after.n, !.desc = FALSE, !.pc = l]
          \/ th'[t] = [th[t] EXCEPT !.count = after.n, !.desc = FALSE,
                             !.pc = "print", !.ret = "ent", !.recs = 0, !.rows = rows]
      BY <1>8, Replaced
    <2> QED  BY <1>2, <2>1 DEF RecordType
  <1>10. attached'[t] = Named(0, X) \cup Named(Len(X), U)
    BY <1>5, <1>7 DEF TypeOK
  <1>11. UNCHANGED <<opt, ix>>
    BY DEF RunS
  <1>12. Xattrs(t)' = X /\ Users(t)' = U
    BY <1>9, <1>11 DEF Xattrs, Users, XattrDbs, ExtDbs, Group
  <1>13. \A n, fs : Named(n, fs)' = Named(n, fs)
    BY <1>11 DEF Named, Readable
  <1>14. th'[t].count = Len(X) + Len(U)
    BY <1>5, <1>9
  <1> HIDE DEF X, U
  <1>15. /\ attached'[t] = Named(0, Xattrs(t)') \cup Named(Len(Xattrs(t)'), Users(t)')
         /\ th'[t].count = Len(Xattrs(t)') + Len(Users(t)')
    BY <1>10, <1>12, <1>14
  <1> QED  BY <1>9, <1>13, <1>15 DEF AttachedFor, Querying

LEMMA AttachDrop ==
    ASSUME TypeOK, InodesInv, AttachInv, NEW t \in Threads, Drop(t)
    PROVE  AttachedFor(t)'
  <1> DEFINE X == Xattrs(t)
             U == Users(t)
             after == DetachedAfter(t, th[t].count, U)
  <1>1. th[t].pc = "drop"
    BY DEF Drop
  <1>2. th[t] \in RecordType
    BY <1>1, Busy
  <1>3. /\ attached[t] = Named(0, X) \cup Named(Len(X), U)
        /\ th[t].count = Len(X) + Len(U)
    BY <1>1 DEF AttachInv, AttachedFor, Querying
  <1>4. /\ X \in Seq(Nat \X (Dirs \cup {None})) /\ U \in Seq(Nat \X (Dirs \cup {None}))
        /\ \A a \in Named(0, X) : a.n < Len(X) /\ a.n \in Nat
    BY <1>1, DbsOf
  <1>5. \/ \E left : /\ attached' = [attached EXCEPT ![t] = after.att]
                     /\ th' = [th EXCEPT ![t] = [th[t] EXCEPT !.pc = "views", !.count = after.n,
                                                              !.inodes = left]]
        \/ /\ attached' = [attached EXCEPT ![t] = Detach(after, X).att]
           /\ th' = [th EXCEPT ![t] = Idle]
    BY DEF Drop, Xattrs, Users
  <1> HIDE DEF X, U
  <1>7. after = [n |-> Len(X), att |-> Named(0, X)]
    <2> DEFINE A == Named(0, X)
               n == Len(X)
    <2>1. n \in Nat /\ \A a \in A : a.n < n /\ a.n \in Nat
      BY <1>4
    <2>2. after = Detach([att |-> A \cup Named(n, U), n |-> n + Len(U)], U)
      BY <1>3 DEF DetachedAfter
    <2> HIDE DEF A, n, after
    <2>3. after = [n |-> n, att |-> A]
      BY <1>4, <2>1, <2>2, DetachIs
    <2> QED  BY <2>3 DEF A, n
  <1>8. Detach(after, X) = [n |-> 0, att |-> {}]
    <2>1. after = [att |-> {} \cup Named(0, X), n |-> 0 + Len(X)]
      BY <1>4, <1>7
    <2>2. \A a \in {} : a.n < 0 /\ a.n \in Nat
      OBVIOUS
    <2> HIDE DEF after
    <2> QED  BY <1>4, <2>1, <2>2, DetachIs
  <1> HIDE DEF after
  <1>9. ASSUME NEW left, attached' = [attached EXCEPT ![t] = after.att],
               th' = [th EXCEPT ![t] = [th[t] EXCEPT !.pc = "views", !.count = after.n,
                                                     !.inodes = left]]
        PROVE  AttachedFor(t)'
    <2>1. th'[t] = [th[t] EXCEPT !.pc = "views", !.count = after.n, !.inodes = left]
      BY <1>9, Replaced
    <2>2. th'[t].pc = "views" /\ th'[t].d = th[t].d /\ th'[t].count = Len(X)
      BY <1>2, <1>7, <2>1 DEF RecordType
    <2>3. attached'[t] = Named(0, X)
      BY <1>7, <1>9 DEF TypeOK
    <2>4. UNCHANGED <<opt, ix>>
      BY DEF Drop
    <2>5. Xattrs(t)' = X
      BY <2>2, <2>4 DEF X, Xattrs, XattrDbs, Group
    <2>6. \A n, fs : Named(n, fs)' = Named(n, fs)
      BY <2>4 DEF Named, Readable
    <2>7. attached'[t] = Named(0, Xattrs(t)') /\ th'[t].count = Len(Xattrs(t)')
      BY <2>2, <2>3, <2>5
    <2> QED  BY <2>2, <2>6, <2>7 DEF AttachedFor, Querying
  <1>10. ASSUME attached' = [attached EXCEPT ![t] = Detach(after, X).att],
                th' = [th EXCEPT ![t] = Idle]
         PROVE  AttachedFor(t)'
    <2>1. th'[t] = Idle
      BY <1>10, Replaced
    <2>2. attached'[t] = {} /\ th'[t].pc = "idle"
      BY <1>8, <1>10, <2>1 DEF TypeOK, Idle
    <2> QED  BY <2>2, AttachNone
  <1> QED  BY <1>5, <1>9, <1>10

LEMMA AttachStep ==
    ASSUME TypeOK, InodesInv, AttachInv, [Next]_vars
    PROVE  AttachInv'
  <1>1. ASSUME UNCHANGED <<opt, ix, th, attached>> PROVE AttachInv'
    BY <1>1, AttachSame DEF AttachInv
  <1>2. ASSUME NEW t \in Threads, AttachedFor(t)', UNCHANGED <<opt, ix>>,
               UNCHANGED attached \/ \E a : attached' = [attached EXCEPT ![t] = a],
               UNCHANGED th \/ \E r : th' = [th EXCEPT ![t] = r]
        PROVE  AttachInv'
    <2>1. \A s \in Threads : s # t => th'[s] = th[s]
      BY <1>2, Replaced
    <2>2. \A s \in Threads : s # t => attached'[s] = attached[s]
      BY <1>2 DEF TypeOK
    <2> QED  BY <1>2, <2>1, <2>2, AttachOthers
  <1>3. ASSUME NEW t \in Threads, NEW item \in pool, Open(t, item) PROVE AttachInv'
    <2>1. /\ th[t].pc = "idle" /\ UNCHANGED <<opt, ix, attached>>
          /\ \/ UNCHANGED th
             \/ \E d : th' = [th EXCEPT ![t] = Record(d, item.level, item.idm, "tsum")]
      BY <1>3 DEF Open
    <2>2. th'[t].pc \in {"idle", "tsum"}
      <3>1. ASSUME NEW d, th' = [th EXCEPT ![t] = Record(d, item.level, item.idm, "tsum")]
            PROVE  th'[t].pc = "tsum"
        <4>1. th'[t] = Record(d, item.level, item.idm, "tsum")
          BY <3>1, Replaced
        <4>2. Record(d, item.level, item.idm, "tsum").pc = "tsum"
          BY DEF Record
        <4> QED  BY <4>1, <4>2, Zenon
      <3> QED  BY <2>1, <3>1
    <2>3. attached'[t] = {}
      BY <2>1 DEF AttachInv, AttachedFor
    <2> QED  BY <1>2, <2>1, <2>2, <2>3, AttachNone
  <1>4. ASSUME NEW t \in Threads, RunT(t) PROVE AttachInv'
    <2>1. th[t].pc = "tsum" /\ th[t] \in RecordType /\ UNCHANGED <<opt, ix, attached>>
      BY <1>4, Busy DEF RunT
    <2>2. attached'[t] = {}
      BY <2>1 DEF AttachInv, AttachedFor
    <2>3. PICK rows : \/ th' = [th EXCEPT ![t] = Idle]
                      \/ th' = [th EXCEPT ![t] = [th[t] EXCEPT !.pc = "setup"]]
                      \/ th' = [th EXCEPT ![t] = [th[t] EXCEPT !.pc = "print", !.ret = "gate",
                                                               !.recs = 0, !.rows = rows]]
      BY <1>4 DEF RunT, Querydb
    <2>4. \/ th'[t].pc \in {"idle", "setup"}
          \/ th'[t].pc = "print" /\ th'[t].ret = "gate"
      <3>1. CASE th'[t] = Idle
        BY <3>1 DEF Idle
      <3>2. CASE th'[t] = [th[t] EXCEPT !.pc = "setup"]
        BY <2>1, <3>2 DEF RecordType
      <3>3. CASE th'[t] = [th[t] EXCEPT !.pc = "print", !.ret = "gate", !.recs = 0, !.rows = rows]
        BY <2>1, <3>3 DEF RecordType
      <3> QED  BY <2>3, <3>1, <3>2, <3>3, Replaced
    <2> QED  BY <1>2, <2>1, <2>2, <2>3, <2>4, AttachNone
  <1>5. ASSUME NEW t \in Threads, Printed(t) PROVE AttachInv'
    <2>1. th[t].pc = "print" /\ th[t] \in RecordType /\ UNCHANGED <<opt, ix, attached>>
      BY <1>5, Busy DEF Printed
    <2>2. CASE th[t].ret = "gate"
      <3>1. attached'[t] = {}
        BY <2>1, <2>2 DEF AttachInv, AttachedFor
      <3>2. \/ th' = [th EXCEPT ![t] = Idle]
            \/ th' = [th EXCEPT ![t] = [th[t] EXCEPT !.pc = "setup"]]
        BY <1>5, <2>2 DEF Printed
      <3>3. th'[t] = Idle \/ th'[t] = [th[t] EXCEPT !.pc = "setup"]
        BY <3>2, Replaced
      <3>4. th'[t].pc \in {"idle", "setup"}
        <4>1. CASE th'[t] = Idle
          BY <4>1 DEF Idle
        <4>2. CASE th'[t] = [th[t] EXCEPT !.pc = "setup"]
          BY <2>1, <4>2 DEF RecordType
        <4> QED  BY <3>3, <4>1, <4>2
      <3> QED  BY <1>2, <2>1, <3>1, <3>2, <3>4, AttachNone
    <2>3. CASE th[t].ret # "gate"
      <3>1. PICK l \in {"ent", "drop"} : th' = [th EXCEPT ![t] = [th[t] EXCEPT !.pc = l]]
        BY <1>5, <2>3 DEF Printed
      <3>2. th'[t] = [th[t] EXCEPT !.pc = l]
        BY <3>1, Replaced
      <3>3. /\ th'[t].pc \in {"ent", "drop"} /\ th'[t].d = th[t].d
            /\ th'[t].inodes = th[t].inodes /\ th'[t].count = th[t].count
        BY <2>1, <3>2 DEF RecordType
      <3>4. AttachedFor(t)'
        BY <2>1, <2>3, <3>3, AttachKept DEF AttachInv, Querying
      <3> QED  BY <1>2, <2>1, <3>1, <3>4
    <2> QED  BY <2>2, <2>3
  <1>6. ASSUME NEW t \in Threads, RunE(t) PROVE AttachInv'
    <2>1. th[t].pc = "ent" /\ th[t] \in RecordType /\ UNCHANGED <<opt, ix, attached>>
      BY <1>6, Busy DEF RunE
    <2>2. PICK rows : \/ th' = [th EXCEPT ![t] = [th[t] EXCEPT !.pc = "drop"]]
                      \/ th' = [th EXCEPT ![t] = [th[t] EXCEPT !.pc = "print", !.ret = "drop",
                                                               !.recs = 0, !.rows = rows]]
      BY <1>6 DEF RunE, Querydb
    <2>3. \/ th'[t] = [th[t] EXCEPT !.pc = "drop"]
          \/ th'[t] = [th[t] EXCEPT !.pc = "print", !.ret = "drop", !.recs = 0, !.rows = rows]
      BY <2>2, Replaced
    <2>4. /\ th'[t].pc = "drop" \/ (th'[t].pc = "print" /\ th'[t].ret # "gate")
          /\ th'[t].d = th[t].d /\ th'[t].inodes = th[t].inodes /\ th'[t].count = th[t].count
      BY <2>1, <2>3 DEF RecordType
    <2>5. AttachedFor(t)'
      BY <2>1, <2>4, AttachKept DEF AttachInv, Querying
    <2> QED  BY <1>2, <2>1, <2>2, <2>5
  <1>7. ASSUME NEW t \in Threads, Flush(t) \/ WriteColumns(t) \/ Buffer(t)
        PROVE  AttachInv'
    <2>1. th[t].pc = "print" /\ UNCHANGED <<opt, ix, attached>>
      BY <1>7 DEF Flush, WriteColumns, Buffer
    <2>2. th[t] \in RecordType
      BY <2>1, Busy
    <2>3. \/ th' = [th EXCEPT ![t] = [th[t] EXCEPT !.flushed = TRUE]]
          \/ th' = [th EXCEPT ![t] = [th[t] EXCEPT !.part = TRUE]]
          \/ th' = [th EXCEPT ![t] = NextRow(th[t])]
      BY <1>7 DEF Flush, WriteColumns, Buffer
    <2>4. \/ th'[t] = [th[t] EXCEPT !.flushed = TRUE]
          \/ th'[t] = [th[t] EXCEPT !.part = TRUE]
          \/ th'[t] = NextRow(th[t])
      BY <2>3, Replaced
    <2>5. /\ th'[t].pc = th[t].pc /\ th'[t].ret = th[t].ret /\ th'[t].d = th[t].d
          /\ th'[t].inodes = th[t].inodes /\ th'[t].count = th[t].count
      BY <2>2, <2>4 DEF NextRow, RecordType
    <2>6. AttachedFor(t)'
      BY <2>1, <2>5, AttachSame DEF AttachInv
    <2> QED  BY <1>2, <2>1, <2>3, <2>6
  <1>8. ASSUME NEW t \in Threads, Setup(t) \/ RunS(t) \/ Drop(t) PROVE AttachInv'
    <2>1. AttachedFor(t)'
      BY <1>8, AttachSetup, AttachRunS, AttachDrop
    <2>2. /\ UNCHANGED <<opt, ix>> /\ \E a : attached' = [attached EXCEPT ![t] = a]
      BY <1>8 DEF Setup, RunS, Drop
    <2>3. \A s \in Threads : s # t => th'[s] = th[s]
      BY <1>8, Shape
    <2>4. \A s \in Threads : s # t => attached'[s] = attached[s]
      BY <2>2 DEF TypeOK
    <2> QED  BY <2>1, <2>2, <2>3, <2>4, AttachOthers
  <1>9. ASSUME Start \/ Aggregate \/ FinalFlush \/ UNCHANGED vars PROVE AttachInv'
    BY <1>1, <1>9 DEF Start, Aggregate, FinalFlush, vars
  <1> QED  BY <1>3, <1>4, <1>5, <1>6, <1>7, <1>8, <1>9 DEF Next, Ended

LEMMA InodesStep ==
    ASSUME TypeOK, InodesInv, [Next]_vars
    PROVE  InodesInv'
  <1> DEFINE Shows(r) == r.pc \in {"views", "ent", "drop"} \/ (r.pc = "print" /\ r.ret # "gate")
  <1>1. ASSUME UNCHANGED th PROVE InodesInv'
    BY <1>1 DEF InodesInv
  <1>2. ASSUME NEW t \in Threads, NEW r, th' = [th EXCEPT ![t] = r],
               Shows(r) => r.inodes # <<>>
        PROVE  InodesInv'
    BY <1>2, Replaced DEF InodesInv
  <1>3. \A t \in Threads : Shows(th[t]) => th[t].inodes # <<>>
    BY DEF InodesInv
  <1>4. ASSUME NEW t \in Threads, NEW item \in pool, Open(t, item) PROVE InodesInv'
    <2>1. ASSUME NEW d, th' = [th EXCEPT ![t] = Record(d, item.level, item.idm, "tsum")]
          PROVE  InodesInv'
      <3>1. ~Shows(Record(d, item.level, item.idm, "tsum"))
        BY DEF Record
      <3> QED  BY <1>2, <2>1, <3>1
    <2> QED  BY <1>1, <1>4, <2>1 DEF Open
  <1>5. \A t \in Threads : th[t].pc # "idle" => th[t] \in RecordType
    BY Busy
  <1>6. ASSUME NEW t \in Threads, RunT(t) PROVE InodesInv'
    <2>1. th[t] \in RecordType
      BY <1>5, <1>6 DEF RunT
    <2>2. PICK rows : \/ th' = [th EXCEPT ![t] = Idle]
                      \/ th' = [th EXCEPT ![t] = [th[t] EXCEPT !.pc = "setup"]]
                      \/ th' = [th EXCEPT ![t] = [th[t] EXCEPT !.pc = "print", !.ret = "gate",
                                                               !.recs = 0, !.rows = rows]]
      BY <1>6 DEF RunT, Querydb
    <2>3. /\ ~Shows(Idle) /\ ~Shows([th[t] EXCEPT !.pc = "setup"])
          /\ ~Shows([th[t] EXCEPT !.pc = "print", !.ret = "gate", !.recs = 0, !.rows = rows])
      BY <2>1 DEF RecordType, Idle
    <2> HIDE DEF Shows
    <2> QED  BY <1>2, <2>2, <2>3
  <1>7. ASSUME NEW t \in Threads, Setup(t) PROVE InodesInv'
    <2>1. th[t] \in RecordType /\ th[t].d \in Dirs
      BY <1>5, <1>7 DEF Setup, RecordType
    <2> DEFINE n == AttachedAfter(t, 0, IF opt.xattrs THEN XattrDbs(th[t].d) ELSE <<>>).n
               left == IF opt.ext > 0 /\ Group(th[t].d) # {} THEN Inodes(Group(th[t].d))
                       ELSE <<None>>
    <2>2. th' = [th EXCEPT ![t] = [th[t] EXCEPT !.pc = "views", !.count = n, !.inodes = left]]
      BY <1>7 DEF Setup
    <2>3. left # <<>>
      <3> DEFINE g == Group(th[t].d)
      <3>1. IsFiniteSet(g)
        BY <2>1, GroupIs
      <3>2. Len(Inodes(g)) = Cardinality(g)
        BY <3>1, SetToSeqIs DEF Inodes
      <3>3. g # {} => Cardinality(g) # 0
        BY <3>1, FS_EmptySet
      <3>4. Len(<<>>) = 0 /\ <<None>> # <<>>
        OBVIOUS
      <3> HIDE DEF g
      <3> QED  BY <3>2, <3>3, <3>4 DEF g
    <2> HIDE DEF n, left
    <2>4. [th[t] EXCEPT !.pc = "views", !.count = n, !.inodes = left].inodes = left
      BY <2>1 DEF RecordType
    <2> QED  BY <1>2, <2>2, <2>3, <2>4
  <1>8. ASSUME NEW t \in Threads, Drop(t) PROVE InodesInv'
    <2>1. th[t] \in RecordType
      BY <1>5, <1>8 DEF Drop
    <2> DEFINE n == DetachedAfter(t, th[t].count, ExtDbs(Head(th[t].inodes))).n
               left == Tail(th[t].inodes)
    <2>2. \/ th' = [th EXCEPT ![t] = Idle]
          \/ /\ th' = [th EXCEPT ![t] = [th[t] EXCEPT !.pc = "views", !.count = n,
                                                      !.inodes = left]]
             /\ left # <<>>
      BY <1>8 DEF Drop
    <2> HIDE DEF n, left
    <2>3. ~Shows(Idle)
      BY DEF Idle
    <2>4. [th[t] EXCEPT !.pc = "views", !.count = n, !.inodes = left].inodes = left
      BY <2>1 DEF RecordType
    <2> QED  BY <1>2, <2>2, <2>3, <2>4
  <1>9. ASSUME NEW t \in Threads, NEW r, th' = [th EXCEPT ![t] = r], Shows(th[t]),
               r.inodes = th[t].inodes
        PROVE  InodesInv'
    BY <1>2, <1>3, <1>9
  <1>10. ASSUME NEW t \in Threads, RunS(t) PROVE InodesInv'
    <2> DEFINE n == AttachedAfter(t, th[t].count, ExtDbs(Head(th[t].inodes))).n
               r2 == [th[t] EXCEPT !.count = n, !.desc = FALSE]
    <2>1. \/ th' = [th EXCEPT ![t] = [r2 EXCEPT !.pc = IF opt.S THEN "drop" ELSE "ent"]]
          \/ \E rows : th' = [th EXCEPT ![t] = [r2 EXCEPT !.pc = "print", !.ret = "ent",
                                                          !.recs = 0, !.rows = rows]]
      BY <1>10 DEF RunS
    <2>2. th[t].pc = "views" /\ th[t] \in RecordType
      BY <1>5, <1>10 DEF RunS
    <2> HIDE DEF n
    <2>3. /\ \A l : [r2 EXCEPT !.pc = l].inodes = th[t].inodes
          /\ \A rows : [r2 EXCEPT !.pc = "print", !.ret = "ent", !.recs = 0,
                                  !.rows = rows].inodes = th[t].inodes
      BY <2>2 DEF RecordType
    <2> HIDE DEF r2
    <2> QED  BY <1>9, <2>1, <2>2, <2>3
  <1>11. ASSUME NEW t \in Threads, RunE(t) PROVE InodesInv'
    <2>1. th[t].pc = "ent" /\ th[t] \in RecordType
      BY <1>5, <1>11 DEF RunE
    <2>2. \/ th' = [th EXCEPT ![t] = [th[t] EXCEPT !.pc = "drop"]]
          \/ \E rows : th' = [th EXCEPT ![t] = [th[t] EXCEPT !.pc = "print", !.ret = "drop",
                                                            !.recs = 0, !.rows = rows]]
      BY <1>11 DEF RunE, Querydb
    <2>3. /\ [th[t] EXCEPT !.pc = "drop"].inodes = th[t].inodes
          /\ \A rows : [th[t] EXCEPT !.pc = "print", !.ret = "drop", !.recs = 0,
                                     !.rows = rows].inodes = th[t].inodes
      BY <2>1 DEF RecordType
    <2> QED  BY <1>9, <2>1, <2>2, <2>3
  <1>12. ASSUME NEW t \in Threads, Printed(t) PROVE InodesInv'
    <2>1. th[t].pc = "print" /\ th[t] \in RecordType
      BY <1>5, <1>12 DEF Printed
    <2>2. \/ th' = [th EXCEPT ![t] = Idle]
          \/ th' = [th EXCEPT ![t] = [th[t] EXCEPT !.pc = "setup"]]
          \/ th[t].ret # "gate"
             /\ \E l \in {"ent", "drop"} : th' = [th EXCEPT ![t] = [th[t] EXCEPT !.pc = l]]
      BY <1>12 DEF Printed
    <2>3. ~Shows(Idle) /\ ~Shows([th[t] EXCEPT !.pc = "setup"])
      BY <2>1 DEF Idle, RecordType
    <2>4. \A l : [th[t] EXCEPT !.pc = l].inodes = th[t].inodes
      BY <2>1 DEF RecordType
    <2>5. th[t].ret # "gate" => Shows(th[t])
      BY <2>1
    <2> HIDE DEF Shows
    <2> QED  BY <1>2, <1>9, <2>2, <2>3, <2>4, <2>5
  <1>13. ASSUME NEW t \in Threads, Flush(t) \/ WriteColumns(t) \/ Buffer(t)
         PROVE  InodesInv'
    <2>1. th[t].pc = "print" /\ th[t] \in RecordType
      BY <1>5, <1>13 DEF Flush, WriteColumns, Buffer
    <2>2. \/ th' = [th EXCEPT ![t] = [th[t] EXCEPT !.flushed = TRUE]]
          \/ th' = [th EXCEPT ![t] = [th[t] EXCEPT !.part = TRUE]]
          \/ th' = [th EXCEPT ![t] = NextRow(th[t])]
      BY <1>13 DEF Flush, WriteColumns, Buffer
    <2> DEFINE Like(r) == /\ r.pc = th[t].pc /\ r.ret = th[t].ret
                          /\ r.inodes = th[t].inodes
    <2>3. /\ Like([th[t] EXCEPT !.flushed = TRUE]) /\ Like([th[t] EXCEPT !.part = TRUE])
          /\ Like(NextRow(th[t]))
      BY <2>1 DEF RecordType, NextRow
    <2>4. \A r : Like(r) => (Shows(r) => r.inodes # <<>>)
      BY <1>3
    <2> HIDE DEF Like, Shows
    <2> QED  BY <1>2, <2>2, <2>3, <2>4
  <1>14. ASSUME Start \/ Aggregate \/ FinalFlush \/ UNCHANGED vars PROVE InodesInv'
    BY <1>1, <1>14 DEF Start, Aggregate, FinalFlush, vars
  <1> QED  BY <1>4, <1>6, <1>7, <1>8, <1>10, <1>11, <1>12, <1>13, <1>14 DEF Next, Ended

-----------------------------------------------------------------------------
(* The theorems.                                                           *)

IInv == TypeOK /\ InodesInv /\ WalkInv /\ PartInv /\ AttachInv

LEMMA InitIs == Init => IInv
  <1> SUFFICES ASSUME Init PROVE IInv
    OBVIOUS
  <1>1. TypeOK
    BY TypeInit
  <1>2. \A t \in Threads : th[t].pc = "idle" /\ attached[t] = {}
    BY DEF Init, Idle
  <1>3. InodesInv /\ AttachInv
    BY <1>2 DEF InodesInv, AttachInv, AttachedFor, Querying
  <1>4. WalkInv
    BY <1>2 DEF Init, WalkInv
  <1>5. \A f \in Threads \cup {Stdout, Out} : files[f] = <<>>
    BY DEF Init
  <1>6. PartInv
    BY <1>2, <1>5 DEF PartInv, InRow, NotTorn, Unfinished
  <1> QED  BY <1>1, <1>3, <1>4, <1>6 DEF IInv

LEMMA TypeStep ==
    ASSUME TypeOK, InodesInv, [Next]_vars
    PROVE  TypeOK'
  <1>1. ASSUME UNCHANGED vars PROVE TypeOK'
    BY <1>1 DEF vars, TypeOK
  <1>2. ASSUME NEW t \in Threads,
               \/ \E item \in pool : Open(t, item)
               \/ RunT(t) \/ Setup(t) \/ RunS(t) \/ RunE(t) \/ Drop(t)
               \/ Flush(t) \/ WriteColumns(t) \/ Buffer(t) \/ Printed(t)
        PROVE  TypeOK'
    BY <1>2, TypeOpen, TypeRunT, TypeSetup, TypeRunS, TypeRunE, TypeDrop, TypePrint,
       TypePrinted
  <1> QED  BY <1>1, <1>2, TypeStart, TypeAggregate, TypeFinalFlush DEF Next, Ended

\* The inductive invariant: who is within a row stands at the end of its file
\* and has the mutex of stdout, and the names of the databases a thread has
\* attached are those it will count down over.
THEOREM Invariant == Spec => []IInv
  <1>1. Init => IInv
    BY InitIs
  <1>2. IInv /\ [Next]_vars => IInv'
    <2> SUFFICES ASSUME IInv, [Next]_vars PROVE IInv'
      OBVIOUS
    <2>1. TypeOK' /\ InodesInv'
      BY TypeStep, InodesStep DEF IInv
    <2>2. WalkInv' /\ PartInv' /\ AttachInv'
      BY WalkStep, PartStep, AttachStep DEF IInv
    <2> QED  BY <2>1, <2>2 DEF IInv
  <1> QED  BY <1>1, <1>2, PTL DEF Spec

\* Every variable keeps its type: the work items that descending and the swap
\* files leave in the pool, the rows, and the names of the databases.
THEOREM TypeCorrect == Spec => []TypeOK
  <1>1. IInv => TypeOK
    BY DEF IInv
  <1> QED  BY <1>1, Invariant, PTL

\* print_parallel: the columns of a row that does not fit into the output
\* buffer follow each other in the file, whatever the threads do in between.
THEOREM NotTornApart == Spec => []RowsNotTorn
  <1>1. IInv => RowsNotTorn
    <2> SUFFICES ASSUME IInv PROVE RowsNotTorn
      OBVIOUS
    <2>1. DOMAIN files = Threads \cup {Stdout, Out}
      BY DEF IInv, TypeOK
    <2> QED  BY <2>1 DEF IInv, PartInv, NotTorn, RowsNotTorn
  <1> QED  BY <1>1, Invariant, PTL

\* external_concatenate and its cleanup: a query sees the external databases
\* of its own directory that can be read, and none is attached between two
\* directories.
THEOREM OwnDatabasesOnly == Spec => []OwnDatabases
  <1>1. IInv => OwnDatabases
    <2> DEFINE now(t) == {a.db : a \in attached[t]}
               own(t) == (ToSet(Xattrs(t)) \cup ToSet(Users(t))) \ ix.unreadable
    <2>1. ASSUME IInv, NEW t \in Threads
          PROVE  (th[t].pc = "idle" => attached[t] = {}) /\ (Querying(t) => now(t) = own(t))
      <3>1. AttachedFor(t)
        BY <2>1 DEF IInv, AttachInv
      <3>2. \A n, fs : {a.db : a \in Named(n, fs)} = ToSet(fs) \ ix.unreadable
        <4> SUFFICES ASSUME NEW n, NEW fs, NEW x
                     PROVE  x \in {a.db : a \in Named(n, fs)} <=> x \in ToSet(fs) \ ix.unreadable
          OBVIOUS
        <4>1. \A i : [n |-> n + (i - 1), db |-> fs[i]].db = fs[i]
          OBVIOUS
        <4>2. x \in {a.db : a \in Named(n, fs)} <=> \E i \in Readable(fs) : x = fs[i]
          BY <4>1, Zenon DEF Named
        <4>3. x \in ToSet(fs) \ ix.unreadable <=> \E i \in Readable(fs) : x = fs[i]
          BY Zenon DEF ToSet, Readable
        <4> QED  BY <4>2, <4>3
      <3>3. ASSUME Querying(t) PROVE now(t) = own(t)
        <4>1. attached[t] = Named(0, Xattrs(t)) \cup Named(Len(Xattrs(t)), Users(t))
          BY <3>1, <3>3 DEF AttachedFor
        <4>2. now(t) = {a.db : a \in Named(0, Xattrs(t))}
                          \cup {a.db : a \in Named(Len(Xattrs(t)), Users(t))}
          BY <4>1, Zenon
        <4> HIDE DEF now
        <4> QED  BY <3>2, <4>2
      <3>4. th[t].pc = "idle" => attached[t] = {}
        BY <3>1 DEF AttachedFor
      <3> QED  BY <3>3, <3>4
    <2>2. \A t \in Threads :
            ToSet(Xattrs(t)) = IF opt.xattrs THEN ToSet(XattrDbs(th[t].d)) ELSE {}
      BY DEF Xattrs, ToSet
    <2> QED  BY <2>1, <2>2 DEF OwnDatabases, Querying, Users
  <1> QED  BY <1>1, Invariant, PTL

=============================================================================
