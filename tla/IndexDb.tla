------------------------------ MODULE IndexDb -------------------------------
(***************************************************************************)
(* The database of one directory of an index, as far as roll-ups and tree  *)
(* summaries change it, and the SQL that does so (src/src/rollup.c, parts  *)
(* of dbutils.c and utils.c).  A directory d that has not been rolled up   *)
(* has one row in its summary table, its own.  The rows a roll-up copies   *)
(* from the directories below are identified by the directory they         *)
(* describe: roll are the rows of summary with isroot = 0, in the order of *)
(* their insertion, and pent the directories whose entries are in          *)
(* pentries_rollup.  Extended attributes are copied by the last statements *)
(* of the same batch and follow pent.                                      *)
(*                                                                         *)
(* A row of treesummary keeps the number of subdirectories, the number of  *)
(* files and the largest number of files of one directory; its other       *)
(* columns are totals and extremes of the same two kinds.                  *)
(***************************************************************************)
EXTENDS Integers, FiniteSets, SequencesExt

CONSTANTS
    Dirs,           \* the directories of the index
    Root,
    Subdirs,        \* the subdirectories of a directory, in the order of readdir
    Perms,          \* the assignments of mode, uid and gid to the directories
    Files           \* how many files and links a directory has of its own

Kids(d) == ToSet(Subdirs[d])
Closed(S) == \A e \in S : Kids(e) \subseteq S
Below == [d \in Dirs |->
             {e \in Dirs : \A S \in SUBSET Dirs : Kids(d) \subseteq S /\ Closed(S) => e \in S}]
Above(d) == {e \in Dirs : d \in Below[e]}
Level(d) == Cardinality(Above(d))

ASSUME TreeAssumption ==
    /\ IsFiniteSet(Dirs) /\ Root \in Dirs
    /\ Subdirs \in [Dirs -> Seq(Dirs)] /\ Files \in [Dirs -> Nat]
    /\ \A d \in Dirs : IsInjective(Subdirs[d]) /\ Root \notin Kids(d)
    /\ \A d, e \in Dirs : d # e => Kids(d) \cap Kids(e) = {}
    /\ \A d \in Dirs \ {Root} : d \in Below[Root]

\* The r and x bits of the user, the group and the others: mode & 0555.
Bits == SUBSET {"r", "x"}
RX == {"r", "x"}
Permissions == [u : Bits, g : Bits, o : Bits, uid : Nat, gid : Nat]
ASSUME PermAssumption == Perms \subseteq [Dirs -> Permissions]

-----------------------------------------------------------------------------
(* The database                                                            *)

Zero == [sub |-> 0, files |-> 0, max |-> 0]
NoTable == [exists |-> FALSE, rows |-> <<>>]

NewDb(p) == [perm |-> p, roll |-> <<>>, pent |-> <<>>, can |-> FALSE, isroll |-> FALSE, 
             ts |-> NoTable]

Sums == [sub : Nat, files : Nat, max : Nat]
IsTreesummary(ts) ==
    /\ ts.exists \in BOOLEAN /\ DOMAIN ts.rows \subseteq Dirs
    /\ \A d \in DOMAIN ts.rows : ts.rows[d] \in Sums
IsDb(x) ==
    /\ DOMAIN x = {"perm", "roll", "pent", "can", "isroll", "ts"}
    /\ x.perm \in Permissions /\ x.roll \in Seq(Dirs) /\ x.pent \in Seq(Dirs)
    /\ x.can \in BOOLEAN /\ x.isroll \in BOOLEAN /\ IsTreesummary(x.ts)

\* create_treesummary_tables drops the table and creates it again.
CreateTreesummaryTables(x) == [x EXCEPT !.ts = [exists |-> TRUE, rows |-> <<>>]]

\* The largest of two numbers (MAX_ASSIGN_LHS).
Larger(a, b) == IF a > b THEN a ELSE b

TsumitOwnMax(in, out) ==
    [sub   |-> out.sub + 1 + (IF in.sub > 0 THEN in.sub ELSE 0),
     files |-> out.files + in.files, max |-> Larger(out.max, in.files)]
\* tsumit: adds a summary or a tree summary to another one, and counts it as
\* a subdirectory.
Tsumit(in, out) ==
    [sub   |-> out.sub + 1 + (IF in.sub > 0 THEN in.sub ELSE 0),
     files |-> out.files + in.files,
     max   |-> Larger(out.max, IF in.sub > 0 THEN in.max ELSE in.files)]

MinusOne(s) == [s EXCEPT !.sub = @ - 1]

\* The summary row of a directory, as querytsdb reads it.
Summary(d) == [Zero EXCEPT !.files = Files[d]]

\* querytsdb: adds the rows of summary, the copied ones too, or the one row
\* of treesummary of this directory, to a sum.
Querytsdb(d, x, ts, sum) ==
    IF ts THEN IF d \in DOMAIN x.ts.rows
               THEN MinusOne(Tsumit(x.ts.rows[d], sum)) ELSE sum
    ELSE FoldSeq(LAMBDA e, s : MinusOne(Tsumit(Summary(e), s)), sum, <<d>> \o x.roll)

\* inserttreesumdb
Inserttreesumdb(d, x, sum) == [x EXCEPT !.ts.rows = (d :> sum) @@ @]

-----------------------------------------------------------------------------
(* Permissions                                                             *)

\* get_permissions has no WHERE: the callback keeps the last row.
GetPermissions(d, db) == db[Last(<<d>> \o db[d].roll)].perm

\* check_pair_permissions
CheckPairPermissions(p, c) ==
    LET SameIds == p.uid = c.uid /\ p.gid = c.gid IN
    \/ p.o = RX /\ c.o = RX /\ SameIds
    \/ p.u = c.u /\ p.g = c.g /\ p.o = c.o /\ SameIds
    \/ p.u = c.u /\ p.g = c.g /\ SameIds
    \/ p.u = c.u /\ p.uid = c.uid

\* get_isrolledup
GetIsrolledup(x) == x.can /\ x.isroll

-----------------------------------------------------------------------------
(* Roll-up of one directory                                                *)

\* The statements of ROLLUP_CLEANUP before the last one, and the whole of it.
DeleteRollup(x) == [x EXCEPT !.roll = <<>>, !.pent = <<>>]
RollupCleanup(x) == [DeleteRollup(x) EXCEPT !.can = TRUE, !.isroll = FALSE]

RollupInitKeeps(x) == [x EXCEPT !.can = TRUE, !.isroll = TRUE]
\* rollup_init: the same, but the directory is marked as rolled up.
RollupInit(x) == [RollupCleanup(x) EXCEPT !.isroll = TRUE]

\* The first n statements of rollup_child_process: pentries, summary, the
\* rest (treesummary, extended attributes and external databases).
Statements == 3
RollupChildProcess(x, c, y, n) ==
    [x EXCEPT !.pent = IF n >= 1 THEN @ \o (<<c>> \o y.pent) ELSE @,
              !.roll = IF n >= 2 THEN @ \o (<<c>> \o y.roll) ELSE @,
              !.ts.rows = IF n >= 3 THEN y.ts.rows @@ @ ELSE @]

\* The first n statements of DELETE_SUBDIR_ROLLUP; canrollup is unchanged.
DeleteSubdirRollup(y, n) ==
    [y EXCEPT !.roll = IF n >= 1 THEN <<>> ELSE @,
              !.isroll = IF n >= 2 THEN FALSE ELSE @,
              !.pent = IF n >= 3 THEN <<>> ELSE @]

-----------------------------------------------------------------------------
(* bottomup_collect_treesummary for directory d, whose own row is deleted  *)
(* first.  db are the databases, lost the subdirectories whose database    *)
(* cannot be opened.                                                       *)

DeleteOwnRow(d, x) ==
    [x EXCEPT !.ts.rows = [e \in DOMAIN @ \ {d} |-> @[e]]]

\* Already rolled up: one SQL statement over all rows of summary.
CollectRolledUp(d, x) ==
    LET rows == <<d>> \o x.roll IN
    Inserttreesumdb(d, DeleteOwnRow(d, x),
        [sub   |-> Len(rows) - 1,
         files |-> FoldSeq(LAMBDA e, n : n + Files[e], 0, rows),
         max   |-> FoldSeq(LAMBDA e, n : Larger(Files[e], n), 0, rows)])

\* Not rolled up: the tree summaries of the subdirectories, or their
\* summaries when they have no such table, and its own.
CollectChildren(d, db, lost) ==
    LET add(c, s) == IF c \in lost THEN s
                     ELSE Tsumit(Querytsdb(c, db[c], db[c].ts.exists, Zero), s)
        below == FoldSeq(add, Zero, Subdirs[d])
    IN  Inserttreesumdb(d, DeleteOwnRow(d, db[d]),
            MinusOne(Tsumit(Zero, Querytsdb(d, db[d], FALSE, below))))

\* canrollup, as gufi_treesummary_all computes it.
CanrollupChildren(d, db, lost) ==
    \A c \in Kids(d) :
        c \notin lost /\ db[c].can /\ CheckPairPermissions(GetPermissions(d, db), db[c].perm)

-----------------------------------------------------------------------------
(* What the index says                                                     *)

\* The directories a query visits: it stops at a rolled-up one.
Visited(db) == {d \in Dirs : \A e \in Above(d) : ~GetIsrolledup(db[e])}

\* How often a query finds the summary, and the entries, of directory e.
Occurs(e, s) == Cardinality({i \in DOMAIN s : s[i] = e})
Seen(db, e, rows) ==
    SumFunctionOnSet([d \in Dirs |-> Occurs(e, <<d>> \o rows[d])], Visited(db))
SummariesSeen(db, e) == Seen(db, e, [d \in Dirs |-> db[d].roll])
EntriesSeen(db, e) == Seen(db, e, [d \in Dirs |-> db[d].pent])

\* The tree summary of d as it should be.
Exact(d) ==
    [sub   |-> Cardinality(Below[d]),
     files |-> FoldSet(LAMBDA e, n : n + Files[e], 0, {d} \cup Below[d]),
     max   |-> FoldSet(LAMBDA e, n : Larger(Files[e], n), 0, {d} \cup Below[d])]
=============================================================================
