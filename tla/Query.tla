------------------------------- MODULE Query -------------------------------
(***************************************************************************)
(* gufi_query: the threads of the pool walk an index, run the queries -T,  *)
(* -S and -E on the database of every directory, and write the rows to     *)
(* stdout, to a file or a database of each thread, or through an aggregate *)
(* database.                                                               *)
(*                                                                         *)
(* A row is the query it is from, the directory it is about, and the user  *)
(* string in it.  What the user's SQL finds is part of the index.          *)
(***************************************************************************)
EXTENDS Integers, Sequences, FiniteSets, SequencesExt

CONSTANTS
    Threads,        \* 1..n
    Dirs, Root, Up, \* the tree: Up[d] is the parent of d
    Indexes,        \* what is in the databases and who may read them
    Options,        \* the command line
    Capacity,       \* of an output buffer, in rows of the common size
    None

OptionType ==
    [out : {"STDOUT", "OUTFILE", "OUTDB"}, agg : BOOLEAN, insert : BOOLEAN,
     I : BOOLEAN, J : BOOLEAN, G : BOOLEAN, T : BOOLEAN, S : BOOLEAN, E : BOOLEAN,
     mode : {"ROW", "SE", "TSE"}, badkey : {"", "T", "S", "E"}, setstr : BOOLEAN,
     min : Nat, max : Nat, match : BOOLEAN, list : SUBSET Dirs, matime : BOOLEAN,
     xattrs : BOOLEAN, ext : Nat, copy : BOOLEAN, compress : BOOLEAN, swap : BOOLEAN]

ASSUME QueryAssumption ==
    /\ IsFiniteSet(Dirs) /\ None \notin Dirs
    /\ Root \in Dirs /\ Up \in [Dirs \ {Root} -> Dirs]
    /\ Capacity \in Nat \ {0}
ASSUME ThreadsAssumption ==
    /\ IsFiniteSet(Threads) /\ Threads = 1 .. Cardinality(Threads)
    /\ None \notin Threads
ASSUME OptionsAssumption == Options \subseteq OptionType

VARIABLES
    opt, ix,
    phase,          \* "start", "walk", "flush", "done", "error"
    pool,           \* the work items of the pool
    th,             \* what each thread is doing
    strs,           \* ta->user_strs: the string -S has set
    attached,       \* the databases attached to ta->outdb, by name
    buf,            \* ta->output_buffer
    stdout_mutex,
    files,          \* what has been written to each file
    dbs             \* the rows in ta->outdb, and in the aggregate database

vars == <<opt, ix, phase, pool, th, strs, attached, buf, stdout_mutex, files, dbs>>

Subdirs(d) == {c \in DOMAIN Up : Up[c] = d}
Closed(S) == \A d \in S : Subdirs(d) \subseteq S
\* d and what is below it
Below == [d \in Dirs |-> {x \in Dirs : \A S \in SUBSET Dirs : d \in S /\ Closed(S) => x \in S}]

\* The directories in the summary table of d's database: those rolled up
\* into it, and none in the parent of an index root.
Group(d) == IF d \in ix.bare THEN {} ELSE IF d \in ix.rolled THEN Below[d] ELSE {d}
Inodes(g) == SetToSeq(g)
Row(q, d, s) == [q |-> q, d |-> d, str |-> s]

\* files and databases that are not a thread's own
Stdout == 0
Out == -1
Agg == 0

Idle == [pc |-> "idle"]
Init ==
    /\ opt \in Options /\ ix \in Indexes
    /\ phase = "start" /\ pool = {}
    /\ th = [t \in Threads |-> Idle] /\ strs = [t \in Threads |-> None]
    /\ attached = [t \in Threads |-> {}] /\ buf = [t \in Threads |-> <<>>]
    /\ stdout_mutex = None
    /\ files = [f \in Threads \cup {Stdout, Out} |-> <<>>]
    /\ dbs = [t \in Threads \cup {Agg} |-> <<>>]

-----------------------------------------------------------------------------
(* The work items                                                          *)

\* new_gqw_with_name, then compress_struct: what is serialized when the pool
\* swaps the item out.  The names are behind the structure.
Item(d, level, idm) == [d |-> d, level |-> level, idm |-> idm, named |-> TRUE]
Compressed(item) == opt.compress
Serialized(item) == [item EXCEPT !.named = Compressed(item)]
Swapped(items) ==
    IF opt.swap THEN {[i \in items |-> IF i \in s THEN Serialized(i) ELSE i] : s \in SUBSET items}
    ELSE {[i \in items |-> i]}

\* decompress_gqw points at whatever is behind the structure now.
Names(item) == IF item.named THEN {item.d} ELSE Dirs \cup {None}

DirMatch(d) == d \notin ix.other

\* gq_descend: the subdirectories, unless their owner is wrong.
Children(d, level, idm) ==
    IF level + 1 > opt.max THEN {}
    ELSE {Item(c, level + 1, idm \/ (opt.match /\ level + 1 >= opt.min)) : c \in
            {x \in Subdirs(d) \ ix.skip :
                opt.match /\ ~idm /\ level + 1 >= opt.min => DirMatch(x)}}

DescendAlways(d, level, idm, hasdb) == Children(d, level, idm)
\* process_queries with descend set: get_isrolledup, gq_descend
Descend(d, level, idm, hasdb) ==
    IF hasdb /\ d \in ix.rolled THEN {} ELSE Children(d, level, idm)

\* maybe_copy_external: the external databases among the files of d, in the
\* loop of gq_descend over its entries
Copies(d, level, hasdb) ==
    IF hasdb /\ d \notin ix.rolled /\ level < opt.max /\ d \in ix.ext /\ opt.copy
    THEN <<Row("C", d, None)>> ELSE <<>>

-----------------------------------------------------------------------------
(* main                                                                    *)

\* validate of handle_sql.c
Validate(o) ==
    /\ o.out = "OUTDB" \/ o.agg => o.I
    /\ o.agg => o.J
    /\ o.agg /\ o.out # "OUTDB" => o.G
    /\ o.ext > 0 \/ o.copy => o.I

\* As the picture in validate has it, the queries INSERT unless each thread
\* has a file of its own or takes turns with the others at stdout.
ASSUME OutputAssumption ==
    \A o \in Options :
        Validate(o) /\ o.out # "STDOUT" /\ (o.agg \/ o.out = "OUTDB") => o.insert

\* validate_source: the root of the index
Source(o) ==
    {Item(d, 0, o.match /\ o.min = 0) : d \in {x \in {Root} : o.match /\ o.min = 0 => DirMatch(x)}}

\* gqw_process_path_list: id_match is not set
PathList(o) == {Item(d, o.min, FALSE) : d \in {x \in o.list : o.match => DirMatch(x)}}

Start ==
    /\ phase = "start"
    /\ phase' = IF Validate(opt) THEN "walk" ELSE "error"
    /\ pool' = IF Validate(opt)
               THEN IF opt.list = {} THEN Source(opt) ELSE PathList(opt)
               ELSE {}
    /\ UNCHANGED <<opt, ix, th, strs, attached, buf, stdout_mutex, files, dbs>>

-----------------------------------------------------------------------------
(* print_parallel                                                          *)

\* PoolArgs_init: where the thread writes, and whether under a mutex
Outfile(t) == IF opt.out = "OUTFILE" /\ ~opt.agg THEN t ELSE Stdout
HasMutex == opt.out = "STDOUT"

RowLen(row) == IF row.d \in ix.big THEN Capacity + 1 ELSE 1
\* Only rows of the common size get into the buffer.
Filled(b) == Len(b)
Whole(rows) == [i \in DOMAIN rows |-> <<rows[i], "end">>]
MayWriteAlways(t) == TRUE
MayWrite(t) == HasMutex => stdout_mutex \in {None, t}

\* The row does not fit: the buffer is flushed first.
NeedsFlush(b, row) == Capacity - Filled(b) < RowLen(row)
Flush(t) ==
    /\ th[t].pc = "print" /\ th[t].rows # <<>> /\ ~th[t].flushed
    /\ NeedsFlush(buf[t], Head(th[t].rows)) /\ MayWrite(t)
    /\ files' = [files EXCEPT ![Outfile(t)] = @ \o Whole(buf[t])]
    /\ buf' = [buf EXCEPT ![t] = <<>>]
    /\ th' = [th EXCEPT ![t].flushed = TRUE]
    /\ UNCHANGED <<opt, ix, phase, pool, strs, attached, stdout_mutex, dbs>>

NextRow(r) == [r EXCEPT !.rows = Tail(@), !.recs = @ + 1, !.flushed = FALSE, !.part = FALSE]

\* A row that is larger than the buffer is written column by column.
WriteColumns(t) ==
    /\ th[t].pc = "print" /\ th[t].rows # <<>> /\ MayWrite(t)
    /\ LET row == Head(th[t].rows) IN
        /\ NeedsFlush(buf[t], row) => th[t].flushed
        /\ Capacity < RowLen(row)
        /\ files' = [files EXCEPT ![Outfile(t)] =
                        Append(@, <<row, IF th[t].part THEN "end" ELSE "begin">>)]
    /\ th' = [th EXCEPT ![t] = IF @.part THEN NextRow(@) ELSE [@ EXCEPT !.part = TRUE]]
    /\ stdout_mutex' = IF HasMutex /\ ~th[t].part THEN t ELSE None
    /\ UNCHANGED <<opt, ix, phase, pool, strs, attached, buf, dbs>>

Buffer(t) ==
    /\ th[t].pc = "print" /\ th[t].rows # <<>>
    /\ LET row == Head(th[t].rows) IN
        /\ NeedsFlush(buf[t], row) => th[t].flushed
        /\ Capacity >= RowLen(row)
        /\ buf' = [buf EXCEPT ![t] = Append(@, row)]
    /\ th' = [th EXCEPT ![t] = NextRow(@)]
    /\ UNCHANGED <<opt, ix, phase, pool, strs, attached, stdout_mutex, files, dbs>>

\* querydb: the rows of a SELECT are printed, one by one; an INSERT puts them
\* into ta->outdb and returns none.
Querydb(t, r, rows, ret) ==
    /\ th' = [th EXCEPT ![t] = [r EXCEPT !.pc = "print", !.ret = ret, !.recs = 0,
                                !.rows = IF opt.insert THEN <<>> ELSE rows]]
    /\ dbs' = IF opt.insert THEN [dbs EXCEPT ![t] = @ \o rows] ELSE dbs

\* setstr: a value for a key, until the thread sets another
SetStr(t, found) == IF opt.setstr /\ found # <<>> THEN found[Len(found)] ELSE strs[t]

\* replace_user_str fails when the key is not set, and replace_sql with it.
KeyIsSet(t, q) == opt.setstr /\ q = "E" => strs[t] # None
Replaces(t, q) == opt.badkey # q /\ KeyIsSet(t, q)

-----------------------------------------------------------------------------
(* External databases                                                      *)

\* external_concatenate: a name for each file in external_dbs, whether or not
\* it can be attached; the view is over those that can.
Readable(files_) == {i \in DOMAIN files_ : files_[i] \notin ix.unreadable}
Name(r, i) == r.n + (i - 1)
Attach(r, files_) ==
    [n |-> r.n + Len(files_),
     att |-> r.att \cup {[n |-> Name(r, i), db |-> files_[i]] :
                            i \in {j \in Readable(files_) : \A a \in r.att : a.n # Name(r, j)}}]

DetachLast(r, k) == [n |-> r.n - k, att |-> {a \in r.att : a.n \notin (r.n - k) .. (r.n - 1)}]
DetachReadable(r, files_) == DetachLast(r, Cardinality(Readable(files_)))
\* external_concatenate_cleanup: the last name is detached for every file,
\* whether or not it was attached.
Detach(r, files_) == DetachLast(r, Len(files_))

\* setup_xattrs_views and attach_extdbs
XattrDbs(d) == [i \in 1..Cardinality(Group(d) \cap ix.xattrs) |->
                    <<0, SetToSeq(Group(d) \cap ix.xattrs)[i]>>]
ExtDbs(inode) == IF inode \in ix.ext THEN [k \in 1..opt.ext |-> <<k, inode>>] ELSE <<>>

\* create_extdb_views_iter shows one directory, create_extdb_views_noiter all.
Shown(d, inode) == IF inode = None THEN Group(d) ELSE {inode}

AttachedAfter(t, n, files_) == Attach([att |-> attached[t], n |-> n], files_)
DetachedAfter(t, n, files_) == Detach([att |-> attached[t], n |-> n], files_)

-----------------------------------------------------------------------------
(* processdir                                                              *)

Record(d, level, idm, pc) ==
    [pc |-> pc, ret |-> "", d |-> d, level |-> level, idm |-> idm, rows |-> <<>>, recs |-> 1,
     flushed |-> FALSE, part |-> FALSE, inodes |-> <<>>, desc |-> TRUE, count |-> 0]

\* opendir fails, or the database has no times to keep: the directory is left
\* alone, with what is below it.
Opens(d) == d # None /\ d \notin ix.shut /\ (opt.matime => d \notin ix.nodb)
HasDb(d, level) == level >= opt.min /\ d \notin ix.nodb

Open(t, item) ==
    /\ phase = "walk" /\ th[t].pc = "idle" /\ item \in pool
    /\ \E d \in Names(item) :
        IF Opens(d) /\ HasDb(d, item.level)
        THEN /\ pool' = pool \ {item}
             /\ th' = [th EXCEPT ![t] = Record(d, item.level, item.idm, "tsum")]
        ELSE \E kept \in Swapped(IF Opens(d) THEN Descend(d, item.level, item.idm, FALSE) ELSE {}) :
                /\ pool' = (pool \ {item}) \cup {kept[i] : i \in DOMAIN kept}
                /\ UNCHANGED th
    /\ UNCHANGED <<opt, ix, phase, strs, attached, buf, stdout_mutex, files, dbs>>

\* -T, unless it is skipped or there is no tree summary
RunT(t) ==
    /\ th[t].pc = "tsum"
    /\ LET d == th[t].d
           runs == opt.T /\ opt.mode # "SE" /\ d \in ix.tsum
           rows == IF d \in ix.tyes THEN <<Row("T", d, None)>> ELSE <<>>
       IN  IF runs /\ ~Replaces(t, "T")
           THEN th' = [th EXCEPT ![t] = Idle] /\ UNCHANGED dbs
           ELSE IF runs THEN Querydb(t, th[t], rows, "gate")
           ELSE th' = [th EXCEPT ![t].pc = "setup"] /\ UNCHANGED dbs
    /\ UNCHANGED <<opt, ix, phase, pool, strs, attached, buf, stdout_mutex, files>>

GoesOn(mode, recs) == mode # "ROW" \/ recs > 0

\* The rows of a query have been printed.
Printed(t) ==
    /\ th[t].pc = "print" /\ th[t].rows = <<>>
    /\ LET r == th[t]
           goes_on == GoesOn(opt.mode, r.recs)
       IN  th' = [th EXCEPT ![t] =
                    IF r.ret = "gate" /\ ~goes_on THEN Idle
                    ELSE [r EXCEPT !.pc = CASE r.ret = "gate" -> "setup"
                                            [] r.ret = "ent" /\ goes_on -> "ent"
                                            [] OTHER -> "drop"]]
    /\ UNCHANGED <<opt, ix, phase, pool, strs, attached, buf, stdout_mutex, files, dbs>>

\* setup_xattrs_views, and the list of directories to iterate over when
\* external databases are attached
Setup(t) ==
    /\ th[t].pc = "setup"
    /\ LET d == th[t].d
           after == AttachedAfter(t, 0, IF opt.xattrs THEN XattrDbs(d) ELSE <<>>)
       IN  /\ attached' = [attached EXCEPT ![t] = after.att]
           /\ th' = [th EXCEPT ![t].pc = "views", ![t].count = after.n,
                               ![t].inodes = IF opt.ext > 0 /\ Group(d) # {}
                                             THEN Inodes(Group(d)) ELSE <<None>>]
    /\ UNCHANGED <<opt, ix, phase, pool, strs, buf, stdout_mutex, files, dbs>>

\* attach_extdbs, create_extdb_views_iter, and process_queries up to -S
RunS(t) ==
    /\ th[t].pc = "views"
    /\ LET r == th[t]
           inode == Head(r.inodes)
           after == AttachedAfter(t, r.count, ExtDbs(inode))
           found == Inodes(Shown(r.d, inode) \ ix.sno)
           rows == [i \in DOMAIN found |-> Row("S", found[i], None)]
           r2 == [r EXCEPT !.count = after.n, !.desc = FALSE]
           copies == IF r.desc THEN Copies(r.d, r.level, TRUE) ELSE <<>>
       IN  /\ attached' = [attached EXCEPT ![t] = after.att]
           /\ \E kept \in Swapped(IF r.desc THEN Descend(r.d, r.level, r.idm, TRUE) ELSE {}) :
                pool' = pool \cup {kept[i] : i \in DOMAIN kept}
           /\ IF ~opt.S \/ ~Replaces(t, "S")
              THEN /\ th' = [th EXCEPT ![t] = [r2 EXCEPT !.pc = IF opt.S THEN "drop" ELSE "ent"]]
                   /\ dbs' = [dbs EXCEPT ![t] = @ \o copies]
                   /\ UNCHANGED strs
              ELSE /\ th' = [th EXCEPT ![t] = [r2 EXCEPT !.pc = "print", !.ret = "ent", !.recs = 0,
                                               !.rows = IF opt.insert THEN <<>> ELSE rows]]
                   /\ dbs' = [dbs EXCEPT ![t] = @ \o copies \o (IF opt.insert THEN rows ELSE <<>>)]
                   /\ strs' = [strs EXCEPT ![t] = SetStr(t, found)]
    /\ UNCHANGED <<opt, ix, phase, buf, stdout_mutex, files>>

\* -E; the replacement of a key that was never set fails
RunE(t) ==
    /\ th[t].pc = "ent"
    /\ LET r == th[t]
           shown == Inodes(Shown(r.d, Head(r.inodes)))
           rows == [i \in DOMAIN shown |-> Row("E", shown[i], IF opt.setstr THEN strs[t] ELSE None)]
       IN  IF ~opt.E \/ ~Replaces(t, "E")
           THEN th' = [th EXCEPT ![t].pc = "drop"] /\ UNCHANGED dbs
           ELSE Querydb(t, r, rows, "drop")
    /\ UNCHANGED <<opt, ix, phase, pool, strs, attached, buf, stdout_mutex, files>>

\* drop_extdb_views, detach_extdbs; after the last directory the view of the
\* extended attributes goes, and db.db is detached.
Drop(t) ==
    /\ th[t].pc = "drop"
    /\ LET r == th[t]
           left == Tail(r.inodes)
           after == DetachedAfter(t, r.count, ExtDbs(Head(r.inodes)))
           xattrs == IF opt.xattrs THEN XattrDbs(r.d) ELSE <<>>
       IN  IF left # <<>>
           THEN /\ attached' = [attached EXCEPT ![t] = after.att]
                /\ th' = [th EXCEPT ![t].pc = "views", ![t].count = after.n, ![t].inodes = left]
           ELSE /\ attached' = [attached EXCEPT ![t] = Detach(after, xattrs).att]
                /\ th' = [th EXCEPT ![t] = Idle]
    /\ UNCHANGED <<opt, ix, phase, pool, strs, buf, stdout_mutex, files, dbs>>

-----------------------------------------------------------------------------
(* After QPTPool_stop                                                      *)

AggFile == IF opt.out = "OUTFILE" THEN Out ELSE Stdout

\* aggregate_intermediate: -J on one thread's database after the other;
\* aggregate_process: -G
Aggregate ==
    /\ phase = "walk" /\ pool = {} /\ \A t \in Threads : th[t].pc = "idle"
    /\ phase' = "flush"
    /\ LET all == FlattenSeq([t \in Threads |-> dbs[t]]) IN
        IF opt.agg
        THEN /\ dbs' = [dbs EXCEPT ![Agg] = all]
             /\ files' = IF opt.G THEN [files EXCEPT ![AggFile] = @ \o Whole(all)] ELSE files
        ELSE UNCHANGED <<dbs, files>>
    /\ UNCHANGED <<opt, ix, pool, th, strs, attached, buf, stdout_mutex>>

\* main and PoolArgs_fin: what is left in the buffers is written
FinalFlush ==
    /\ phase = "flush" /\ phase' = "done"
    /\ files' = [f \in DOMAIN files |->
                    LET mine == SetToSeq({t \in Threads : Outfile(t) = f}) IN
                    files[f] \o FlattenSeq([i \in DOMAIN mine |-> Whole(buf[mine[i]])])]
    /\ buf' = [t \in Threads |-> <<>>]
    /\ UNCHANGED <<opt, ix, pool, th, strs, attached, stdout_mutex, dbs>>

Ended == phase \in {"done", "error"} /\ UNCHANGED vars

Next ==
    \/ Start
    \/ \E t \in Threads :
        \/ \E item \in pool : Open(t, item)
        \/ RunT(t) \/ Setup(t) \/ RunS(t) \/ RunE(t) \/ Drop(t)
        \/ Flush(t) \/ WriteColumns(t) \/ Buffer(t) \/ Printed(t)
    \/ Aggregate \/ FinalFlush \/ Ended

Spec == Init /\ [][Next]_vars

-----------------------------------------------------------------------------
(* What the user asked for, from the tree alone                            *)

Starts == IF opt.list = {} THEN {Root} ELSE opt.list
Path(s, x) == {c \in Below[s] : x \in Below[c]}
LevelOf(s, x) == Cardinality(Path(s, x)) - 1 + (IF opt.list = {} THEN 0 ELSE opt.min)

\* The database that x is read from: the highest one it is rolled up into.
Hosts(s, x) == {c \in Path(s, x) : c \in ix.rolled /\ HasDb(c, LevelOf(s, c))}
Host(s, x) == IF Hosts(s, x) = {} THEN x
              ELSE CHOOSE c \in Hosts(s, x) : Hosts(s, x) \subseteq Below[c]

TReturns(d) == opt.T /\ opt.mode # "SE" /\ d \in ix.tsum
TStops(s, d) ==
    /\ TReturns(d) /\ HasDb(d, LevelOf(s, d))
    /\ opt.badkey = "T" \/ (opt.mode = "ROW" /\ (opt.insert \/ d \notin ix.tyes))

\* h is processed: everything on the way to it can be, it is deep enough and
\* not too deep, and the owner asked for has the directory on its way at the
\* smallest level.
Reached(s, h) ==
    /\ \A c \in Path(s, h) : Opens(c) /\ (c # h => ~TStops(s, c))
    /\ Path(s, h) \cap (ix.skip \ {s}) = {}
    /\ LevelOf(s, h) <= opt.max /\ HasDb(h, LevelOf(s, h))
    /\ opt.match => \A c \in Path(s, h) : LevelOf(s, c) = opt.min => DirMatch(c)

SFinds(h, x) ==
    (IF opt.ext > 0 THEN {x} ELSE Group(h)) \ ix.sno # {}
RowsOf(s, x) ==
    LET h == Host(s, x)
        runs == Reached(s, h) /\ ~TStops(s, h) /\ x \in Group(h)
        s_runs == runs /\ opt.S /\ opt.badkey # "S"
        e_runs == /\ runs /\ opt.E /\ opt.badkey \notin {"S", "E"}
                  /\ opt.S /\ opt.mode = "ROW" => ~opt.insert /\ SFinds(h, x)
    IN  {q \in {"T", "S", "E"} :
            \/ q = "T" /\ Reached(s, x) /\ Host(s, x) = x /\ TReturns(x)
               /\ opt.badkey # "T" /\ x \in ix.tyes
            \/ q = "S" /\ s_runs /\ x \notin ix.sno
            \/ q = "E" /\ e_runs}
Expected == {e \in {"T", "S", "E"} \X Dirs :
                \E s \in Starts : e[2] \in Below[s] /\ e[1] \in RowsOf(s, e[2])}

Ends(f) == SelectSeq(files[f], LAMBDA p : p[2] = "end")
PrintedRows(f) == [i \in DOMAIN Ends(f) |-> Ends(f)[i][1]]
Result ==
    IF ~opt.insert THEN FlattenSeq([t \in Threads |-> PrintedRows(t)]) \o PrintedRows(Stdout)
    ELSE IF opt.agg THEN IF opt.G THEN PrintedRows(AggFile) ELSE dbs[Agg]
    ELSE FlattenSeq([t \in Threads |-> dbs[t]])
Times(q, x) == Cardinality({i \in DOMAIN Result : Result[i].q = q /\ Result[i].d = x})

-----------------------------------------------------------------------------
(* Properties                                                              *)

Rows == [q : {"T", "S", "E", "C"}, d : Dirs, str : Dirs \cup {None}]
ItemType == [d : Dirs, level : Nat, idm : BOOLEAN, named : BOOLEAN]
RecordType ==
    [pc : {"tsum", "setup", "views", "ent", "print", "drop"}, ret : {"", "gate", "ent", "drop"},
     d : Dirs, level : Nat, idm : BOOLEAN, rows : Seq(Rows), recs : Nat, flushed : BOOLEAN,
     part : BOOLEAN, inodes : Seq(Dirs \cup {None}), desc : BOOLEAN, count : Int]
Attachments == [n : Int, db : Nat \X (Dirs \cup {None})]
Pieces == Rows \X {"begin", "end"}

\* Every variable holds what its declaration in the C structures allows: a
\* work item without a directory, or a piece of output that is not part of a
\* row, would break it.
TypeOK ==
    /\ opt \in Options /\ ix \in Indexes
    /\ phase \in {"start", "walk", "flush", "done", "error"}
    /\ pool \subseteq ItemType
    /\ th \in [Threads -> RecordType \cup {Idle}]
    /\ strs \in [Threads -> Dirs \cup {None}]
    /\ attached \in [Threads -> SUBSET Attachments]
    /\ buf \in [Threads -> Seq(Rows)]
    /\ stdout_mutex \in Threads \cup {None}
    /\ files \in [Threads \cup {Stdout, Out} -> Seq(Pieces)]
    /\ dbs \in [Threads \cup {Agg} -> Seq(Rows)]

\* In the end the output, or the aggregate, has every row the user asked for
\* exactly once and nothing else, whatever is rolled up and however the
\* threads share the walk; and the string that -S has set for -E is from
\* the same database, though user strings outlive their directory.
RowsExactlyOnce ==
    phase = "done" =>
        /\ \A q \in {"T", "S", "E"}, x \in Dirs :
            Times(q, x) = IF <<q, x>> \in Expected THEN 1 ELSE 0
        /\ opt.setstr => \A i \in DOMAIN Result :
            LET row == Result[i] IN
            row.q = "E" => \E s \in Starts : row.str \in Group(Host(s, row.d))

\* The columns of a row that is larger than the output buffer are written one
\* by one: nobody writes to the same file between them.
RowsNotTorn ==
    \A f \in DOMAIN files : \A i \in DOMAIN files[f] :
        files[f][i][2] = "begin" /\ i < Len(files[f]) =>
            files[f][i + 1] = <<files[f][i][1], "end">>

\* While a query runs, the databases attached beside db.db are those of the
\* directory it is about, as far as they can be read, and when the thread is
\* done with a directory none stays attached, although names are counted and
\* not remembered.
OwnDatabases ==
    \A t \in Threads :
        LET r == th[t]
            x == IF opt.xattrs THEN ToSet(XattrDbs(r.d)) ELSE {}
            u == ToSet(ExtDbs(Head(r.inodes)))
            now == {a.db : a \in attached[t]}
        IN  /\ r.pc = "idle" => attached[t] = {}
            /\ r.pc \in {"ent", "drop"} \/ (r.pc = "print" /\ r.ret # "gate") =>
                now = (x \cup u) \ ix.unreadable

\* Work that was swapped out is done like the rest: no row is missing.
SwappedWorkIsDone ==
    phase = "done" => \A e \in Expected : Times(e[1], e[2]) > 0

=============================================================================
