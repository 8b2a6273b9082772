----------------------------- MODULE IndexBuild -----------------------------
(***************************************************************************)
(* Building an index from a source tree with gufi_dir2index: what          *)
(* descend() finds, what a database is given, and the walk.  Traces adds   *)
(* the way by trace files.  The pool is what WorkPool promises: tasks run  *)
(* in any order, and after one that returns an error no other is begun.    *)
(*                                                                         *)
(* A database keeps what its directory had: the names of the entries, a    *)
(* few totals of sumit(), and where the extended attributes went.  The     *)
(* mode of a directory of the index is the directory of the source whose   *)
(* mode and owner it was given.                                            *)
(***************************************************************************)
EXTENDS Integers, FiniteSets, SequencesExt

CONSTANTS
    Dirs, Root,
    Listing,        \* what readdir returns for a directory of the source
    Stat,           \* mode, uid and gid of a directory of the source
    Locked,         \* the directories whose mode does not let the owner write
    Action,         \* what the plugins say of a directory: plugins_dir_action
    Skip,           \* the names to skip
    Nobody,         \* in->nobody
    Options,
    NoDir, Scratch

Names(d, type) ==
    LET all == SelectSeq(Listing[d], LAMBDA e : e.type = type /\ e.name \notin Skip)
    IN  [i \in DOMAIN all |-> all[i].name]
Kids == [d \in Dirs |-> ToSet(Names(d, "d"))]
Below[d \in Dirs] == Kids[d] \cup UNION {Below[c] : c \in Kids[d]}
Above == [d \in Dirs |-> {e \in Dirs : d \in Below[e]}]
Parent == [d \in Dirs |-> IF Above[d] = {} THEN NoDir ELSE CHOOSE p \in Dirs : d \in Kids[p]]

ASSUME BuildAssumption ==
    /\ IsFiniteSet(Dirs) /\ Root \in Dirs /\ Above[Root] = {} /\ Locked \subseteq Dirs
    /\ Action \in [Dirs -> {"process", "no_process", "no_descend"}]
    /\ {NoDir, Scratch} \cap Dirs = {}

VARIABLES
    phase,          \* "idle", "walk", "trace", "scout", "done"
    opt,            \* the options of this run
    todo,           \* the directories the pool has to process
    insitu,         \* those that are processed inside their parent
    open,           \* directories being processed
    index,          \* the directories of the index, or of the new tree
    stopped,        \* a task has returned an error
    totals,         \* total_dirs and total_nondirs, or the scouts' stats
    lost,           \* history: directories that failed
    faults

walk == <<todo, insitu, open>>
buildVars == <<phase, opt, walk, index, stopped, totals, lost, faults>>

NoDb == [entries |-> <<>>, files |-> 0, links |-> 0, size |-> 0, max |-> 0,
         rolled |-> {}, xdbs |-> <<>>, ext |-> <<>>, exists |-> FALSE]
Nothing == [made |-> FALSE, mode |-> NoDir, db |-> NoDb]

BuildInit ==
    /\ phase = "idle" /\ opt \in Options
    /\ todo = {} /\ insitu = {} /\ open = {} /\ stopped = FALSE
    /\ index = [d \in Dirs |-> Nothing]
    /\ totals = [dirs |-> 0, nondirs |-> 0, junk |-> FALSE]
    /\ lost = {} /\ faults = 0

Fault == faults < opt.faults /\ faults' = faults + 1

-----------------------------------------------------------------------------
(* What a directory contributes: descend() and the functions it calls      *)

\* The level of a directory: the roots of a list of paths are at min_level.
Level(d) ==
    IF opt.roots = {} THEN Cardinality(Above[d])
    ELSE opt.min + Cardinality({a \in Above[d] : a \in opt.roots
                                                 \/ Above[a] \cap opt.roots # {}})

InRange(d) == opt.min <= Level(d) /\ Level(d) <= opt.max
\* plugins are asked about directories in range only
DirAction(d) == IF InRange(d) THEN Action[d] ELSE "no_process"

\* The subdirectories descend() finds, those it enqueues, and those it
\* processes at once because subdir_limit is reached.
Subdirs(d) == IF Level(d) + 1 <= opt.max THEN Names(d, "d") ELSE <<>>
Queued(d) == IF opt.limit = 0 THEN Subdirs(d)
             ELSE SubSeq(Subdirs(d), 1, IF opt.limit < Len(Subdirs(d)) THEN opt.limit
                                        ELSE Len(Subdirs(d)))
AtOnce(d) == ToSet(Subdirs(d)) \ ToSet(Queued(d))

\* The files and links descend() gives to process_nondir; other types are
\* not stored.
Nondirs(d) ==
    IF opt.min <= Level(d)
    THEN SelectSeq(Listing[d], LAMBDA e : e.type \in {"f", "l"} /\ e.name \notin Skip)
    ELSE <<>>

Max2(a, b) == IF a > b THEN a ELSE b
\* sumit
Sumit(db, e) ==
    IF e.type = "f"
    THEN [db EXCEPT !.files = @ + 1, !.size = @ + e.size, !.max = Max2(@, e.size)]
    ELSE [db EXCEPT !.links = @ + 1]

\* xattr_can_rollin.  The masks of the second and the third rule cannot
\* match: other's read bit is compared with the bits of user and group.
XattrCanRollin(p, e) ==
    LET samegid == p.gid = e.gid
        sameuid == p.uid = e.uid
    IN  \/ "or" \in e.mode
        \/ {"ur", "gr"} \subseteq e.mode /\ sameuid /\ samegid /\ p.mode \cap {"or"} = {"ur", "gr"}
        \/ "ur" \in e.mode /\ sameuid /\ samegid /\ p.mode \cap {"or"} = {"ur"}
        \/ {"ur", "uw", "gr", "gw", "or", "ow"} \subseteq p.mode
        \/ {"ur", "uw", "gr", "gw"} \subseteq p.mode /\ (sameuid \/ samegid)
        \/ {"ur", "uw"} \subseteq p.mode /\ sameuid

\* create_xattr_db: the bit of its mode that is compared later, and its rows.
\* There is no name for a database of nobody, so that it cannot be created.
XattrDb(uid, gid, st) == [uid |-> uid, gid |-> gid, gr |-> uid = Nobody /\ "gr" \in st.mode,
                          rows |-> {}]
CreatedXattrDb(x) == x.uid # Nobody \/ x.gid # Nobody

SameGroupAnyMode(x, e) == x.gid = e.st.gid
SameUser(x, e) == x.uid = e.st.uid
SameGroup(x, e) == x.gid = e.st.gid /\ x.gr = ("gr" \in e.st.mode)

\* The loop of insertdbgo_xattrs over the databases there are: it ends as soon
\* as it has one for the user and one for the group.
FindXattrDbs(xdbs, e) ==
    FoldLeft(LAMBDA m, i :
                LET n == IF SameUser(xdbs[i], e) THEN [m EXCEPT !.u = i] ELSE m IN
                IF m.u # 0 /\ m.g # 0 THEN m
                ELSE IF SameGroup(xdbs[i], e) /\ ~(n.u # 0 /\ n.g # 0) THEN [n EXCEPT !.g = i] ELSE n,
             [u |-> 0, g |-> 0], [i \in DOMAIN xdbs |-> i])

\* insertdbgo_xattrs, for an entry that cannot roll in.
AddExternalXattrs(xdbs, e) ==
    LET u == FindXattrDbs(xdbs, e).u
        g == FindXattrDbs(xdbs, e).g
        newu == XattrDb(e.st.uid, Nobody, e.st)
        newg == XattrDb(Nobody, e.st.gid, e.st)
        with1 == IF u = 0 THEN Append(xdbs, newu) ELSE xdbs
        with2 == IF g = 0 THEN Append(with1, newg) ELSE with1
        iu == IF u = 0 THEN Len(with1) ELSE u
        ig == IF g = 0 THEN Len(with2) ELSE g
    IN  IF u = 0 /\ ~CreatedXattrDb(newu) THEN xdbs
        ELSE IF g = 0 /\ ~CreatedXattrDb(newg) THEN with1
        ELSE [i \in DOMAIN with2 |->
                IF i \in {iu, ig} THEN [with2[i] EXCEPT !.rows = @ \cup {e.name}] ELSE with2[i]]

\* process_nondir of one entry; p are the permissions it is compared with.
ProcessNondir(db, e, p) ==
    LET d == [Sumit(db, e) EXCEPT !.entries = Append(@, e.name)] IN
    IF e.xattrs = 0 THEN d
    ELSE IF XattrCanRollin(p, e.st) THEN [d EXCEPT !.rolled = @ \cup {e.name}]
    ELSE [d EXCEPT !.xdbs = AddExternalXattrs(@, e)]

\* The whole database of a directory: entries, external databases, summary; p
\* are the permissions each of the entries is compared with.
MakeDb(es, exts, p) ==
    [FoldLeft(LAMBDA db, e : ProcessNondir(db, e, p[e]), [NoDb EXCEPT !.exists = TRUE], es)
        EXCEPT !.ext = exts]

\* Extended attributes are read only when asked for.  opt.ext: there are files
\* that name external databases.
Seen(e) == [e EXCEPT !.xattrs = IF opt.xattrs THEN @ ELSE 0, !.ext = IF opt.ext THEN @ ELSE <<>>]
\* What process_nondir is given, without the entries that are gone.
Given(d, gone) ==
    LET es == SelectSeq(Nondirs(d), LAMBDA e : e.name \notin gone)
    IN  [i \in DOMAIN es |-> Seen(es[i])]
ExtOf(es) == FlattenSeq([i \in DOMAIN es |-> es[i].ext])

-----------------------------------------------------------------------------
(* gufi_dir2index                                                          *)

\* NoDir is index_parent.
MayWrite(d) == (d # NoDir /\ ~opt.asroot) => index[d].mode \notin Locked
Made(d) == d # NoDir => index[d].made
MkdirOk(d) == Made(d) = FALSE => (Made(Parent[d]) /\ MayWrite(Parent[d]))

\* main(): the roots are enqueued.
Start ==
    /\ phase = "idle" /\ phase' = IF opt.tool = "dir2index" THEN "walk" ELSE "trace"
    /\ todo' = IF opt.roots = {} THEN {Root} ELSE opt.roots
    /\ UNCHANGED <<opt, insitu, open, index, stopped, totals, lost, faults>>

Runs(d) == d \in todo /\ (stopped => d \in insitu)
\* A task begins: a subtree of a list of paths needs its parents, and what
\* descend() processes itself it processes one after the other.
Begins(d) ==
    /\ phase = "walk" /\ Runs(d) /\ (d \in opt.roots => Made(Parent[d]))
    /\ d \in insitu => Kids[Parent[d]] \cap insitu \cap open = {}

\* process_subtree_root: when a parent is missing in the index, the result of
\* a stat() that failed is used: the parents are made with whatever mode, or
\* the subtree is given up.
SubtreeRootMakesParents(d) ==
    /\ phase = "walk" /\ Runs(d) /\ d \in opt.roots /\ ~Made(Parent[d])
    /\ index' = [a \in Dirs |-> IF a \in Above[d] /\ ~index[a].made
                                THEN [Nothing EXCEPT !.made = TRUE, !.mode = Scratch]
                                ELSE index[a]]
    /\ UNCHANGED <<phase, opt, walk, stopped, totals, lost, faults>>

SubtreeRootFails(d) ==
    /\ phase = "walk" /\ Runs(d) /\ d \in opt.roots /\ ~Made(Parent[d])
    /\ todo' = todo \ {d} /\ lost' = lost \cup {d} /\ stopped' = TRUE
    /\ UNCHANGED <<phase, opt, insitu, open, index, totals, faults>>

\* processdir up to the end of descend(): the directory is made, and its
\* subdirectories are enqueued before its own database is complete.
ProcessDir(d) ==
    /\ Begins(d) /\ DirAction(d) # "no_descend" /\ MkdirOk(d)
    /\ index' = [index EXCEPT ![d].made = TRUE,
                              ![d].mode = IF index[d].made THEN @ ELSE Scratch]
    /\ open' = open \cup {d}
    /\ todo' = (todo \ {d}) \cup ToSet(Subdirs(d))
    /\ insitu' = insitu \cup AtOnce(d)
    /\ UNCHANGED <<phase, opt, stopped, totals, lost, faults>>

\* A plugin does not want the subtree: only the mode is set, of a directory
\* that happens to be there.
ProcessDirNot(d) ==
    /\ Begins(d) /\ DirAction(d) = "no_descend"
    /\ todo' = todo \ {d}
    /\ index' = [index EXCEPT ![d].mode = IF index[d].made THEN d ELSE @]
    /\ UNCHANGED <<phase, opt, insitu, open, stopped, totals, lost, faults>>

FinalModeKept(d) == index[d].mode
FinalMode(d) == d

\* The rest of processdir: the rows are committed, then the mode is set.  An
\* entry that is gone is left out, but counted.
FinishDir(d) ==
    /\ d \in open /\ AtOnce(d) \cap (todo \cup open) = {}
    /\ IF DirAction(d) # "process"
       THEN index' = [index EXCEPT ![d].mode = FinalMode(d)] /\ UNCHANGED <<totals, lost, faults>>
       ELSE /\ \E gone \in {{}} \cup {{e.name} : e \in ToSet(Nondirs(d))} :
                 LET left == Given(d, gone) IN
                 /\ IF gone = {} THEN UNCHANGED <<lost, faults>>
                    ELSE Fault /\ lost' = lost \cup {d}
                 /\ index' = [index EXCEPT ![d].mode = FinalMode(d),
                                           ![d].db = MakeDb(left, ExtOf(left), [e \in ToSet(left) |-> Stat[d]])]
            /\ totals' = [totals EXCEPT !.dirs = @ + 1, !.nondirs = @ + Len(Nondirs(d))]
    /\ open' = open \ {d}
    /\ UNCHANGED <<phase, opt, todo, insitu, stopped>>

\* The source cannot be read, mkdir fails, or there is no room for db.db.
\* The directory is counted, and its counters, which nothing has set, too.
\* ENOSPC stops the pool, but not when processdir was called by descend().
ProcessDirFails(d) ==
    /\ Begins(d) /\ DirAction(d) # "no_descend"
    /\ \/ Fault /\ UNCHANGED index
       \/ ~MkdirOk(d) /\ UNCHANGED <<index, faults>>
       \/ /\ MkdirOk(d) /\ DirAction(d) = "process" /\ Fault
          /\ index' = [index EXCEPT ![d].made = TRUE,
                                    ![d].mode = IF index[d].made THEN @ ELSE Scratch]
    /\ \/ UNCHANGED stopped
       \/ faults' # faults /\ stopped' = (stopped \/ d \notin insitu)
    /\ todo' = todo \ {d} /\ lost' = lost \cup {d}
    /\ totals' = IF DirAction(d) = "process"
                 THEN [totals EXCEPT !.dirs = @ + 1, !.junk = TRUE] ELSE totals
    /\ UNCHANGED <<phase, opt, insitu, open>>

WalkEnds ==
    /\ phase = "walk" /\ open = {} /\ \A d \in todo : ~Runs(d)
    /\ phase' = "done"
    /\ UNCHANGED <<opt, walk, index, stopped, totals, lost, faults>>

BuildNext ==
    \/ Start \/ WalkEnds
    \/ \E d \in Dirs :
          \/ SubtreeRootMakesParents(d) \/ SubtreeRootFails(d) \/ ProcessDir(d)
          \/ ProcessDirNot(d) \/ FinishDir(d) \/ ProcessDirFails(d)

=============================================================================
