------------------------- MODULE IncrementalUpdate --------------------------
(***************************************************************************)
(* gufi_incremental_update (src/src/gufi_incremental_update): bring an     *)
(* index up to date with a source tree that has changed since.  The tops   *)
(* of the changed subtrees are found first; for each of them, one at a     *)
(* time, the index and the tree are walked in parallel into two snapshots, *)
(* the snapshots are compared by inode, and the differences are applied to *)
(* the directories of the index: deletes and moves into the parking lot    *)
(* from the bottom up, creates and moves out of it from the top down, and  *)
(* then the databases of the directories that were reindexed.              *)
(*                                                                         *)
(* A path is a sequence of names that starts with Root; the directory      *)
(* "d.<inode>" of the parking lot is the path <<inode>>.  The index is in  *)
(* a place of its own (pa->same = 0), and the source tree does not change  *)
(* while it is walked.  The thread pool is what WorkPool promises.         *)
(***************************************************************************)
EXTENDS Integers, Sequences, FiniteSets, SequencesExt

CONSTANTS
    Inodes,         \* the inodes of directories
    Root,           \* the name of the root of the source tree and of the index
    Names,          \* the other names
    Null,           \* SQL's NULL, and no db.db
    InitTrees,      \* the source trees that are indexed at first
    Method,         \* --suspect-method: 1 (suspect file) or 3 (timestamps)
    MayNotOpen,     \* the inodes of directories of the tree that opendir may refuse
    DbMayFail,      \* the databases of a snapshot or of the diff may fail to open
    MaxChanges,     \* bound on the changes to the source tree
    MaxDepth        \* bound on the length of a path

ASSUME PathAssumption ==
    /\ Root \notin Names
    /\ Null \notin Inodes
    /\ (Names \cup {Root}) \cap Inodes = {}
\* The NULL of an outer join is no row of a table.
ASSUME RowAssumption ==
    /\ Null \notin [path : Seq(Names \cup Inodes \cup {Root}), inode : Inodes,
                   pinode : Inodes \cup {0}]
    /\ Null \notin [path : Seq(Names \cup Inodes \cup {Root}), inode : Inodes,
                   pinode : Inodes \cup {0}, suspect : BOOLEAN]
\* A source tree is a finite tree: a directory is in another, up to the root.
ASSUME TreesAssumption ==
    \A t \in InitTrees :
        /\ IsFiniteSet(DOMAIN t)
        /\ \A p \in DOMAIN t :
               /\ p \in Seq(Names \cup {Root}) /\ p # <<>> /\ p[1] = Root
               /\ \A k \in 2 .. Len(p) : p[k] \in Names
               /\ \A n \in 1 .. Len(p) : SubSeq(p, 1, n) \in DOMAIN t
               /\ t[p] \in Inodes
ASSUME BoundAssumption ==
    /\ Method \in {1, 3}
    /\ MayNotOpen \subseteq Inodes
    /\ DbMayFail \in BOOLEAN
    /\ {MaxChanges, MaxDepth} \subseteq Nat

VARIABLES
    tree,           \* the source tree: from the paths of its directories to their inodes
    version,        \* the contents of the directory with an inode
    changed,        \* the directories with a new mtime or ctime, or in the suspect file
    fchanged,       \* the directories with a file that has one
    index,          \* from the directories of the index and of the lot to their db.db
    lot,            \* the update databases in the parking lot, by inode
    pc,             \* where main() is
    tops,           \* the changed subtrees that are still to be updated
    top,            \* the one compare_and_update is working on
    iwork, twork,   \* the directories in the thread pool, of the index and of the tree
    counter,        \* the counter that main() waits for
    isnap, tsnap,   \* the two snapshots
    rows,           \* the rows of the diff that the current query has yet to visit
    rc,             \* the return code of main()
    changes,        \* the number of changes to the tree
    before, updated,\* history: the index before the update, and the tops that were found
    unread, failed  \* history: the directories that opendir refused, the tops that were not updated

treeVars == <<tree, version, changed, fchanged, changes>>
indexVars == <<index, lot>>
scanVars == <<iwork, twork, counter, isnap, tsnap>>
histVars == <<before, updated, unread, failed>>
vars == <<treeVars, indexVars, scanVars, pc, tops, top, rows, rc, histVars>>

-----------------------------------------------------------------------------
(* Directories *)

Parent(p) == Front(p)
Below(D, p) == {q \in D : IsPrefix(p, q)}
Subdirectories(D, p) == {q \in D : Len(q) = Len(p) + 1 /\ IsPrefix(p, q)}

\* where q, which is below p, goes when p becomes r
Rebase(q, p, r) == r \o SubSeq(q, Len(p) + 1, Len(q))

\* rename(2) of the directory p, with all below it, to r
Moved(f, p, r) ==
    LET kept == DOMAIN f \ Below(DOMAIN f, p)
        gone == {Rebase(q, p, r) : q \in Below(DOMAIN f, p)}
    IN  [q \in kept \cup gone |-> IF q \in gone THEN f[Rebase(q, r, p)] ELSE f[q]]

Removed(f, p) == [q \in DOMAIN f \ {p} |-> f[q]]
With(f, p, v) == [q \in DOMAIN f \cup {p} |-> IF q = p THEN v ELSE f[q]]

HasParent(f, p) == Len(p) = 1 \/ Parent(p) \in DOMAIN f
Empty(f, p) == f[p] = Null /\ Below(DOMAIN f, p) = {p}
CanRename(f, p, r) ==
    /\ p \in DOMAIN f /\ HasParent(f, r) /\ ~IsPrefix(p, r)
    /\ r \in DOMAIN f => Empty(f, r)

PInode(p) == IF Len(p) = 1 THEN 0 ELSE tree[Parent(p)]

\* the row of the summary table of a directory's db.db
Db(p) == [inode |-> tree[p], pinode |-> PInode(p), version |-> version[tree[p]]]

-----------------------------------------------------------------------------
Init ==
    /\ tree \in InitTrees
    /\ version = [i \in Inodes |-> 0]
    /\ changed = {} /\ fchanged = {} /\ changes = 0
    /\ index = [p \in DOMAIN tree |-> Db(p)]
    /\ lot = [i \in {} |-> Null]
    /\ pc = "idle"
    /\ tops = {} /\ top = <<Root>>
    /\ iwork = {} /\ twork = {} /\ counter = 0
    /\ isnap = {} /\ tsnap = {}
    /\ rows = {} /\ rc = 0
    /\ before = index /\ updated = {} /\ unread = {} /\ failed = {}

-----------------------------------------------------------------------------
(* What the users of the source tree do before the update *)

Change(dirs, files) ==
    /\ pc = "idle" /\ changes < MaxChanges
    /\ changes' = changes + 1
    /\ changed' = changed \cup dirs
    /\ fchanged' = fchanged \cup files
    /\ version' = [i \in Inodes |-> IF i \in dirs \cup files THEN version[i] + 1 ELSE version[i]]
    /\ UNCHANGED <<indexVars, scanVars, pc, tops, top, rows, rc, histVars>>

\* an inode that is free may be one that a deleted directory had
Mkdir(p, i) ==
    /\ p \notin DOMAIN tree /\ Parent(p) \in DOMAIN tree
    /\ \A q \in DOMAIN tree : tree[q] # i
    /\ tree' = With(tree, p, i)
    /\ Change({i, tree[Parent(p)]}, {})

Rmdir(p) ==
    /\ Len(p) > 1 /\ Below(DOMAIN tree, p) = {p}
    /\ tree' = Removed(tree, p)
    /\ Change({tree[Parent(p)]}, {})

\* a rename changes the ctime of the directory that is renamed
Rename(p, r) ==
    /\ Len(p) > 1 /\ r \notin DOMAIN tree /\ ~IsPrefix(p, r)
    /\ Parent(r) \in DOMAIN tree
    /\ \A q \in Below(DOMAIN tree, p) : Len(Rebase(q, p, r)) <= MaxDepth
    /\ tree' = Moved(tree, p, r)
    /\ Change({tree[p], tree[Parent(p)], tree[Parent(r)]}, {})

\* a file is created or deleted, or an existing one is modified
ChangeEntries(p) ==
    /\ tree' = tree
    /\ Change({tree[p]}, {})

ModifyFile(p) ==
    /\ tree' = tree
    /\ Change({}, {tree[p]})

NewPaths == {Append(p, n) : p \in {q \in DOMAIN tree : Len(q) < MaxDepth}, n \in Names}

Users ==
    \/ \E p \in NewPaths, i \in Inodes : Mkdir(p, i)
    \/ \E p \in DOMAIN tree : Rmdir(p)
    \/ \E p \in DOMAIN tree, r \in NewPaths : Rename(p, r)
    \/ \E p \in DOMAIN tree : ChangeEntries(p)
    \/ \E p \in DOMAIN tree : ModifyFile(p)

-----------------------------------------------------------------------------
(* The tops of the changed subtrees *)

\* find_top: the walk goes no deeper than the first directory that changed, or
\* that cannot be opened
FindTops(unopened) ==
    /\ pc = "idle"
    /\ tops' = {p \in DOMAIN tree :
                   /\ tree[p] \in changed \ unopened
                   /\ \A q \in DOMAIN tree :
                          IsStrictPrefix(q, p) => tree[q] \notin changed \cup unopened}
    /\ pc' = "next"
    /\ before' = index /\ updated' = tops' /\ unread' = {} /\ failed' = {}
    /\ UNCHANGED <<treeVars, indexVars, scanVars, top, rows, rc>>

\* the loop of main(), in the order of the lists of the threads
NextTop(t) ==
    /\ pc = "next" /\ t \in tops
    /\ top' = t
    /\ tops' = tops \ {t}
    /\ counter' = 0
    /\ isnap' = {} /\ tsnap' = {}
    /\ pc' = "index"
    /\ UNCHANGED <<treeVars, indexVars, iwork, twork, rows, rc, histVars>>

Finish ==
    /\ pc = "next" /\ tops = {}
    /\ pc' = "done"
    /\ UNCHANGED <<treeVars, indexVars, scanVars, tops, top, rows, rc, histVars>>

-----------------------------------------------------------------------------
(* compare_and_update: the two walks, and main() waiting for them *)

Failed == failed' = failed \cup {top}

\* gen_index_snapshot; when it fails there is no walk of the tree either
ScanIndex ==
    /\ pc = "index"
    /\ \/ /\ iwork' = {top}
          /\ counter' = counter + 1
          /\ pc' = "tree"
          /\ UNCHANGED <<rc, failed>>
       \/ /\ DbMayFail
          /\ rc' = 1
          /\ pc' = "wait"
          /\ Failed
          /\ UNCHANGED <<iwork, counter>>
    /\ UNCHANGED <<treeVars, indexVars, twork, isnap, tsnap, tops, top, rows,
                   before, updated, unread>>

\* find_suspects; when it fails the walk of the index is on its way
ScanTree ==
    /\ pc = "tree"
    /\ \/ /\ twork' = {top}
          /\ counter' = counter + 1
          /\ UNCHANGED <<rc, failed>>
       \/ /\ DbMayFail
          /\ rc' = 1
          /\ Failed
          /\ UNCHANGED <<twork, counter>>
    /\ pc' = "wait"
    /\ UNCHANGED <<treeVars, indexVars, iwork, isnap, tsnap, tops, top, rows,
                   before, updated, unread>>

\* mutant: the subdirectories are not counted
CountNobody(subdirs) == counter - 1

\* wrap_work counts every subdirectory, and the directory is done at the end
Count(subdirs) == counter + Cardinality(subdirs) - 1

\* mutant: pthread_cond_broadcast is missing
BroadcastNot == pc

Broadcast == IF pc = "asleep" THEN "wait" ELSE pc

\* processdir of gen_index_snapshot.c: a directory without a db.db is walked,
\* but has no row
IndexDir(p) ==
    LET subdirs == IF p \in DOMAIN index THEN Subdirectories(DOMAIN index, p) ELSE {}
    IN  /\ p \in iwork
        /\ iwork' = (iwork \ {p}) \cup subdirs
        /\ isnap' = isnap \cup
               {[path |-> q, inode |-> index[q].inode, pinode |-> index[q].pinode] :
                   q \in {q \in {p} \cap DOMAIN index : index[q] # Null}}
        /\ counter' = Count(subdirs)
        /\ pc' = Broadcast
        /\ UNCHANGED <<treeVars, indexVars, twork, tsnap, tops, top, rows, rc, histVars>>

\* is_suspect of a directory, and process_nondir for its files: the suspect
\* file (method 1) is not searched for files
Suspect(i) == i \in changed \/ (Method > 1 /\ i \in fchanged)

\* processdir of find_suspects.c, with reindex_dir
TreeDir(p) ==
    LET subdirs == Subdirectories(DOMAIN tree, p)
    IN  /\ p \in twork
        /\ twork' = (twork \ {p}) \cup subdirs
        /\ tsnap' = tsnap \cup
               {[path |-> p, inode |-> tree[p], pinode |-> PInode(p),
                 suspect |-> Suspect(tree[p])]}
        /\ lot' = IF Suspect(tree[p]) THEN With(lot, tree[p], Db(p)) ELSE lot
        /\ counter' = Count(subdirs)
        /\ pc' = Broadcast
        /\ UNCHANGED <<treeVars, index, iwork, isnap, tops, top, rows, rc, histVars>>

TreeDirFails(p) ==
    /\ p \in twork
    /\ tree[p] \in MayNotOpen
    /\ twork' = twork \ {p}
    /\ counter' = Count({})
    /\ pc' = Broadcast
    /\ unread' = unread \cup {p}
    /\ UNCHANGED <<treeVars, indexVars, iwork, isnap, tsnap, tops, top, rows, rc,
                   before, updated, failed>>

Wait ==
    /\ pc = "wait"
    /\ pc' = CASE counter # 0 -> "asleep"
               [] counter = 0 /\ top \in failed -> "next"
               [] counter = 0 /\ top \notin failed -> "diff"
    /\ UNCHANGED <<treeVars, indexVars, scanVars, tops, top, rows, rc, histVars>>

-----------------------------------------------------------------------------
(* incremental_update: the differences, and what is done about them *)

\* mutant: a directory is known by its path
MatchesPath(r, t) == r.path = t.path

Matches(r, t) == r.inode = t.inode

\* the tables urd and created
Urd == {[ix |-> r, tr |-> t] : r \in isnap, t \in tsnap \cup {Null}}
Created == {[ix |-> Null, tr |-> t] : t \in tsnap}
AllMatches ==
    {d \in Urd : IF d.tr = Null THEN \A t \in tsnap : ~Matches(d.ix, t)
                               ELSE Matches(d.ix, d.tr)}
    \cup {d \in Created : \A r \in isnap : ~Matches(r, d.tr)}

\* mutant: the parent is not compared
HasMovedPath(d) == d.ix # Null /\ d.tr # Null /\ d.ix.path # d.tr.path

\* a new parent, or a new name; a comparison with NULL is not true
HasMoved(d) ==
    /\ d.ix # Null /\ d.tr # Null
    /\ d.ix.pinode # d.tr.pinode \/ d.ix.path # d.tr.path

Diff == {d \in AllMatches : HasMoved(d) \/ d.ix = Null \/ d.tr = Null \/ d.tr.suspect}

\* get_diff; compare_and_update does not look at what incremental_update returns
GetDiff ==
    /\ pc = "diff"
    /\ \/ /\ rows' = {d \in Diff : d.tr = Null \/ HasMoved(d)}
          /\ pc' = "remove"
          /\ UNCHANGED failed
       \/ /\ DbMayFail
          /\ pc' = "next"
          /\ Failed
          /\ UNCHANGED rows
    /\ UNCHANGED <<treeVars, indexVars, scanVars, tops, top, rc,
                   before, updated, unread>>

\* rmdir(2) leaves a directory that is not empty
Deleted(f, p) == IF Below(DOMAIN f, p) = {p} THEN Removed(f, p) ELSE With(f, p, Null)

\* ORDER BY depth DESC
Deepest(d) == \A e \in rows : Len(d.ix.path) >= Len(e.ix.path)

\* apply_removes_and_move_outs_callback; a step that fails is reported and
\* the next row is visited
RemoveOrMoveOut(d) ==
    LET p == d.ix.path
    IN  /\ pc = "remove" /\ d \in rows /\ Deepest(d)
        /\ rows' = rows \ {d}
        /\ index' = CASE d.tr = Null /\ p \in DOMAIN index /\ index[p] # Null -> Deleted(index, p)
                      [] d.tr # Null /\ CanRename(index, p, <<d.tr.inode>>) ->
                             Moved(index, p, <<d.tr.inode>>)
                      [] OTHER -> index
        /\ UNCHANGED <<treeVars, lot, scanVars, pc, tops, top, rc, histVars>>

\* ORDER BY depth ASC
Shallowest(d) == \A e \in rows : Len(d.tr.path) <= Len(e.tr.path)

\* apply_creates_and_move_ins_callback: a new directory has no db.db yet
CreateOrMoveIn(d) ==
    LET p == d.tr.path
    IN  /\ pc = "create" /\ d \in rows /\ Shallowest(d)
        /\ rows' = rows \ {d}
        /\ index' = CASE d.ix = Null /\ p \notin DOMAIN index /\ HasParent(index, p) ->
                             With(index, p, Null)
                      [] d.ix # Null /\ CanRename(index, <<d.tr.inode>>, p) ->
                             Moved(index, <<d.tr.inode>>, p)
                      [] OTHER -> index
        /\ UNCHANGED <<treeVars, lot, scanVars, pc, tops, top, rc, histVars>>

\* apply_update, in the thread pool: the directories that were reindexed have
\* a database in the parking lot
Update(d) ==
    LET i == d.tr.inode
        moves == i \in DOMAIN lot /\ d.tr.path \in DOMAIN index
    IN  /\ pc = "update" /\ d \in rows
        /\ rows' = rows \ {d}
        /\ index' = IF moves THEN With(index, d.tr.path, lot[i]) ELSE index
        /\ lot' = IF moves THEN Removed(lot, i) ELSE lot
        /\ UNCHANGED <<treeVars, scanVars, pc, tops, top, rc, histVars>>

\* from one query of the diff to the next, and to the next top
Query ==
    /\ rows = {}
    /\ \/ /\ pc = "remove"
          /\ rows' = {d \in Diff : d.ix = Null \/ HasMoved(d)}
          /\ pc' = "create"
       \/ /\ pc = "create"
          /\ rows' = {d \in Diff : d.tr # Null}
          /\ pc' = "update"
       \/ /\ pc = "update"
          /\ rows' = rows
          /\ pc' = "next"
    /\ UNCHANGED <<treeVars, indexVars, scanVars, tops, top, rc, histVars>>

-----------------------------------------------------------------------------
MainSteps ==
    \/ \E unopened \in SUBSET MayNotOpen : FindTops(unopened)
    \/ \E t \in tops : NextTop(t)
    \/ ScanIndex \/ ScanTree \/ Wait \/ GetDiff \/ Query
    \/ \E d \in rows : RemoveOrMoveOut(d)
    \/ \E d \in rows : CreateOrMoveIn(d)
    \/ \E d \in rows : Update(d)
    \/ Finish

PoolSteps ==
    \/ \E p \in iwork : IndexDir(p)
    \/ \E p \in twork : TreeDir(p) \/ TreeDirFails(p)

Terminated == pc = "done" /\ UNCHANGED vars

Next == Users \/ MainSteps \/ PoolSteps \/ Terminated

Spec == Init /\ [][Next]_vars

\* main() and the threads of the pool run whenever they can
FairSpec == Spec /\ WF_vars(MainSteps) /\ WF_vars(PoolSteps)

-----------------------------------------------------------------------------
(* Properties *)

Dbs == [inode : Inodes, pinode : Inodes \cup {0}, version : Nat]
IsPath(p) == Len(p) > 0 /\ p[1] \in {Root} \cup Inodes /\ \A k \in 2 .. Len(p) : p[k] \in Names

\* The variables have their types, every directory of the tree and of the index
\* has its parent, and the walks are counted: the counter of compare_and_update
\* is the number of directories in the pool.
TypeOK ==
    /\ \A p \in DOMAIN tree : IsPath(p) /\ tree[p] \in Inodes /\ HasParent(tree, p)
    /\ \A p \in DOMAIN index : /\ IsPath(p) /\ HasParent(index, p)
                               /\ index[p] \in Dbs \cup {Null}
    /\ DOMAIN lot \subseteq Inodes /\ \A i \in DOMAIN lot : lot[i] \in Dbs
    /\ pc \in {"idle", "next", "done", "index", "tree", "wait", "asleep", "diff",
               "remove", "create", "update"}
    /\ counter = Cardinality(iwork) + Cardinality(twork)
    /\ rc \in {0, 1}

\* the directories that have gone from one of the tops to another
Crossed ==
    {i \in Inodes : \E q \in DOMAIN before, p \in DOMAIN tree, t \in updated :
        /\ before[q] # Null /\ before[q].inode = i /\ tree[p] = i
        /\ IsPrefix(t, p) /\ ~IsPrefix(t, q)}

\* a directory that the walk of the tree has reached
Seen(p) == \A u \in unread : ~IsPrefix(u, p)

\* compare_and_update compares the snapshots only after both walks have ended:
\* they then hold every database of the index below the top, and every
\* directory of the tree that could be read.
ScanIsComplete ==
    pc \in {"diff", "remove"} /\ top \notin failed =>
        /\ iwork = {} /\ twork = {}
        /\ {t.path : t \in tsnap} = {p \in Below(DOMAIN tree, top) : Seen(p)}
        /\ pc = "diff" =>
               {r.path : r \in isnap} = {p \in Below(DOMAIN index, top) : index[p] # Null}

\* At no moment of the update does a database of the index disappear whose
\* directory the walk has found in the tree: it is in the index or in the
\* parking lot.
NothingIsLost ==
    pc \in {"remove", "create", "update"} =>
        \A r \in isnap : (\E t \in tsnap : t.inode = r.inode) =>
            \E p \in DOMAIN index : index[p] # Null /\ index[p].inode = r.inode

\* The index below every top has the shape of the tree, but for what could not
\* be read, is as it was outside of the tops, and no directory is left in the
\* parking lot.
ShapeMatches ==
    /\ \A t \in updated \ failed :
           Below(DOMAIN index, t) = {p \in Below(DOMAIN tree, t) : Seen(p)}
    /\ \A p \in DOMAIN index : p[1] = Root
    /\ \A p \in DOMAIN index \cup DOMAIN before :
           (\A t \in updated \ failed : ~IsPrefix(t, p)) =>
               /\ p \in DOMAIN index \cap DOMAIN before
               /\ index[p] = before[p]

\* Every directory below a top that was read has the database that indexing it
\* now would give it, except that a directory that has gone from one top to
\* another, and is not suspect itself, has none.
ContentsMatch ==
    \A t \in updated \ failed : \A p \in Below(DOMAIN tree, t) :
        Seen(p) =>
            /\ p \in DOMAIN index
            /\ index[p] = IF tree[p] \in Crossed /\ ~Suspect(tree[p])
                          THEN Null ELSE Db(p)

\* In the end the index has the shape and the contents of the tree, whatever
\* order the deletions, moves and creations of incremental_update came in.
IndexMatches == pc = "done" => ShapeMatches /\ ContentsMatch

\* An update ends, whatever fails: main() is woken when the last directory of
\* the two walks is done, and waits for none that was never enqueued.
UpdateEnds == pc # "idle" ~> pc = "done"

=============================================================================
