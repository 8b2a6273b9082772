------------------------------- MODULE Traces -------------------------------
(***************************************************************************)
(* The way by trace files: gufi_dir2trace writes the source tree as lines  *)
(* of text, one stanza per directory, into one file per thread or to       *)
(* stdout; gufi_trace2index builds an index from them, gufi_trace2dir a    *)
(* tree of empty files.  The traces are split into chunks, a scout per     *)
(* chunk finds the stanzas, and every stanza is a task of the pool.        *)
(*                                                                         *)
(* A line is its type, the directory it is about or in, and the entry.     *)
(* Counters that are only printed are left out of gufi_dir2trace.          *)
(***************************************************************************)
EXTENDS IndexBuild

CONSTANT LineLengths     \* the bytes of a line of each type

VARIABLES
    len,
    files,          \* the traces: one per thread, or stdout in the first
    writes,         \* per thread, what it still has to write to stdout
    chunks,         \* what the scouts have to do
    rows,           \* the stanzas they have found
    running,        \* the stanzas being processed, and what is left of dupdir
    remaining       \* stats->remaining

scouting == <<chunks, rows, running, remaining>>
traceVars == <<len, files, writes, scouting>>
vars == <<buildVars, traceVars>>

\* the threads of gufi_dir2trace; opt.n are those of the second tool
Threads == 1..opt.w
Init ==
    /\ BuildInit /\ len \in LineLengths
    /\ files = [t \in Threads |-> <<>>] /\ writes = [t \in Threads |-> <<>>]
    /\ chunks = {} /\ rows = {} /\ running = {} /\ remaining = 0

-----------------------------------------------------------------------------
(* gufi_dir2trace                                                          *)

Line(type, d, e) == [type |-> type, dir |-> d, e |-> e]
DirLine(d) == IF InRange(d) THEN <<Line("d", d, d)>> ELSE <<>>
IsInSitu(d, e) == e.type = "d" /\ e.name \in AtOnce(d)

\* process_nondir: the line of the entry, and those of the databases that an
\* external database file names.
Stored(d, gone) == ToSet(Given(d, gone))
EntryLine(d, e) == Line(e.type, d, Seen(e))
ExtLines(d, e) == [i \in DOMAIN Seen(e).ext |-> Line("e", d, e.ext[i])]

\* What processdir writes to a file, in the order of readdir: the stanza of a
\* subdirectory that is processed at once is in the middle of its parent's.
\* Nothing is written of what is gone.
Text(d0, gone) ==
    LET Of[d \in Dirs] ==
            IF d \in gone THEN <<>>
            ELSE DirLine(d) \o FlattenSeq([i \in DOMAIN Listing[d] |->
                    LET e == Listing[d][i] IN
                    IF IsInSitu(d, e) THEN Of[e.name]
                    ELSE IF Seen(e) \in Stored(d, gone) /\ InRange(d)
                    THEN <<EntryLine(d, e)>> \o ExtLines(d, e)
                    ELSE <<>>])
    IN  Of[d0]

\* What it writes to stdout: its own lines together at the end, the others
\* as they come.
Writes(d0, gone) ==
    LET Of[d \in Dirs] ==
            LET es == Given(d, gone)
                own == DirLine(d) \o [i \in DOMAIN es |-> EntryLine(d, es[i])]
            IN  IF d \in gone THEN <<>>
                ELSE FlattenSeq([i \in DOMAIN Listing[d] |->
                        LET e == Listing[d][i] IN
                        IF IsInSitu(d, e) THEN Of[e.name]
                        ELSE IF Seen(e) \in Stored(d, gone) /\ InRange(d) /\ Seen(e).ext # <<>>
                        THEN <<ExtLines(d, e)>> ELSE <<>>])
                     \o (IF InRange(d) THEN <<own>> ELSE <<>>)
    IN  Of[d0]

\* Everything processed with d, and what is enqueued meanwhile.
Together(d0) == LET Of[d \in Dirs] == {d} \cup UNION {Of[c] : c \in AtOnce(d)} IN Of[d0]
Enqueued(d0, gone) == UNION {ToSet(Queued(d)) : d \in {x \in Together(d0) :
                            x \notin gone /\ Above[x] \cap Together(d0) \cap gone = {}}}

\* A thread processes a directory.  Something may be gone: a directory of
\* those it processes together, or an entry.
TraceDir(t, d) ==
    /\ phase = "trace" /\ d \in todo /\ writes[t] = <<>>
    /\ \E gone \in {{}} \cup {{x} : x \in Together(d) \cup {e.name : e \in ToSet(Nondirs(d))}} :
        /\ IF gone = {} THEN UNCHANGED <<lost, faults>>
           ELSE Fault /\ lost' = lost \cup (IF gone \subseteq Dirs THEN gone ELSE {d})
        /\ todo' = (todo \ {d}) \cup Enqueued(d, gone)
        /\ IF opt.out = "stdout"
           THEN writes' = [writes EXCEPT ![t] = Writes(d, gone)] /\ UNCHANGED files
           ELSE files' = [files EXCEPT ![t] = @ \o Text(d, gone)] /\ UNCHANGED writes
    /\ UNCHANGED <<phase, opt, insitu, open, index, stopped, totals, len, scouting>>

\* fwrite of the buffer under the mutex, or fprintf of one line
WriteOut(t) ==
    /\ writes[t] # <<>>
    /\ files' = [files EXCEPT ![1] = @ \o Head(writes[t])]
    /\ writes' = [writes EXCEPT ![t] = Tail(@)]
    /\ UNCHANGED <<buildVars, len, scouting>>

-----------------------------------------------------------------------------
(* enqueue_traces and the scouts                                           *)

SumTo(ls, i) == FoldLeft(LAMBDA s, l : s + len[l.type], 0, SubSeq(ls, 1, i))

\* find_stanza_end: the line at the position is dropped, even when it begins
\* there, and the next line of a directory is the end; 0 when there is none.
FindStanzaEnd(ls, pos) ==
    LET after == {i \in DOMAIN ls : SumTo(ls, i - 1) > pos /\ ls[i].type \in {"d", "bad"}}
        first == CHOOSE i \in after : \A j \in after : i <= j
    IN  IF after = {} \/ ls[first].type = "bad" THEN 0 ELSE first

\* split_file: the ranges of lines of the chunks
SplitFile(ls, parts) ==
    LET size == SumTo(ls, Len(ls))
        jump == (size \div parts) + (IF size % parts = 0 THEN 0 ELSE 1)
        From[s \in DOMAIN ls] ==
            LET e == FindStanzaEnd(ls, SumTo(ls, s - 1) + jump) IN
            IF e = 0 THEN {<<s, Len(ls)>>} ELSE {<<s, e - 1>>} \cup From[e]
    IN  IF ls = <<>> THEN {} ELSE From[1]

Parts(n) == (n \div 2) + (n % 2)
ChunksOf(fs) ==
    IF opt.out = "stdout" THEN {[file |-> 1, from |-> 1, to |-> Len(fs[1]), read |-> FALSE]}
    ELSE {[file |-> c[1], from |-> c[2], to |-> c[3], read |-> FALSE] :
            c \in UNION {{<<t, r[1], r[2]>> : r \in SplitFile(fs[t], Parts(opt.n))} : t \in Threads}}

\* split_file returns the length of the list of all chunks so far, so that
\* those of a trace are counted again for every trace that follows.
Remaining(cs) ==
    LET upto(t) == Cardinality({c \in cs : c.file <= t})
    IN  IF opt.out = "stdout" THEN 0 ELSE FoldFunction(LAMBDA a, b : a + b, 0, [t \in Threads |-> upto(t)])

\* The traces are complete, and the second tool splits them.  A line may
\* have been damaged in between.
TraceEnds ==
    /\ phase = "trace" /\ todo = {} /\ \A t \in Threads : writes[t] = <<>>
    /\ phase' = "scout"
    /\ \/ UNCHANGED <<files, faults>>
       \/ /\ Fault
          /\ \E t \in Threads : \E i \in DOMAIN files[t] : files' = [files EXCEPT ![t][i].type = "bad"]
    /\ chunks' = ChunksOf(files') /\ remaining' = Remaining(chunks')
    /\ UNCHANGED <<opt, walk, index, stopped, totals, lost, len, writes, rows, running>>

\* The lines a scout reads before it stops, and the stanzas among them; the
\* last one is dropped when it stops at a bad line.
Good(c) ==
    LET ls == files[c.file]
        bad == {i \in c.from..c.to : ls[i].type = "bad"}
    IN  IF c.from > c.to \/ ls[c.from].type # "d" THEN c.from - 1
        ELSE IF bad = {} THEN c.to ELSE (CHOOSE i \in bad : \A j \in bad : i <= j) - 1
Bad(c) == Good(c) < c.to \/ c.from > c.to
EndOf(c, i) == LET next == {j \in i + 1..Good(c) : files[c.file][j].type = "d"}
               IN  IF next = {} THEN Good(c) ELSE (CHOOSE j \in next : \A k \in next : j <= k) - 1
RowsOfNoExternal(c) ==
    {[file |-> c.file, at |-> i,
      n |-> Cardinality({j \in i + 1..EndOf(c, i) : files[c.file][j].type # "e"})] :
        i \in {j \in c.from..Good(c) : /\ files[c.file][j].type = "d"
                                       /\ Bad(c) => EndOf(c, j) < Good(c)}}
RowsOf(c) ==
    {[file |-> c.file, at |-> i, n |-> EndOf(c, i) - i] :
        i \in {j \in c.from..Good(c) : /\ files[c.file][j].type = "d"
                                       /\ Bad(c) => EndOf(c, j) < Good(c)}}
FilesOf(c) == Cardinality({i \in c.from..Good(c) : files[c.file][i].type \in {"f", "l"}})

\* scout_trace and scout_stream: stanzas are enqueued as they are found ...
ScoutTrace(c) ==
    /\ c \in chunks /\ ~c.read /\ ~stopped
    /\ rows' = rows \cup RowsOf(c)
    /\ chunks' = (chunks \ {c}) \cup {[c EXCEPT !.read = TRUE]}
    /\ UNCHANGED <<buildVars, len, files, writes, running, remaining>>

StopsOnError == opt.tool = "trace2index"
\* ... then the totals are added under the mutex, and the result returned.
ScoutEnds(c) ==
    /\ c \in chunks /\ c.read
    /\ chunks' = chunks \ {c}
    /\ totals' = [totals EXCEPT !.dirs = @ + Cardinality(RowsOf(c)), !.nondirs = @ + FilesOf(c)]
    /\ remaining' = IF opt.out = "stdout" THEN remaining ELSE remaining - 1
    /\ stopped' = (stopped \/ (Bad(c) /\ StopsOnError))
    /\ UNCHANGED <<phase, opt, walk, index, lost, faults, len, files, writes, rows, running>>

-----------------------------------------------------------------------------
(* processdir of gufi_trace2index and gufi_trace2dir                       *)

DirOf(r) == files[r.file][r.at].dir
Op(what, d) == [what |-> what, dir |-> d]
Chain(d) == SetToSortSeq(Above[d], LAMBDA a, b : b \in Below[a])

\* A task begins with mkdir of dupdir.
BeginRow(r) ==
    /\ r \in rows /\ ~stopped /\ Cardinality(running) < opt.n
    /\ rows' = rows \ {r}
    /\ running' = running \cup {[row |-> r, ops |-> <<Op("dupdir", DirOf(r))>>]}
    /\ UNCHANGED <<buildVars, len, files, writes, chunks, remaining>>

Becomes(w, ops) == running' = (running \ {w}) \cup {[w EXCEPT !.ops = ops]}
Make(x, d) == index' = [index EXCEPT ![x].made = TRUE, ![x].mode = d]

StillRunning == UNCHANGED <<phase, opt, walk, stopped, totals, faults, len, files, writes,
                            chunks, rows, remaining>>
MayMake(x) == ~index[x].made /\ Made(Parent[x]) /\ MayWrite(Parent[x])

\* dupdir, one system call at a time: first mkdir.  A missing parent leads to
\* mkpath, whose result is not looked at; another error ends the task.
Dupdir(w) ==
    LET d == DirOf(w.row) IN
    /\ w \in running /\ w.ops # <<>> /\ Head(w.ops).what = "dupdir"
    /\ \/ /\ index[d].made
          /\ Becomes(w, <<Op("chmod", d)>>) /\ UNCHANGED <<index, lost>>
       \/ /\ MayMake(d)
          /\ Becomes(w, <<Op("chmod", d)>>) /\ Make(d, d) /\ UNCHANGED lost
       \/ /\ ~Made(Parent[d])
          /\ Becomes(w, [i \in DOMAIN Chain(d) |-> Op("mkpath", Chain(d)[i])]
                        \o <<Op("mkpath", d), Op("chmod", d)>>)
          /\ UNCHANGED <<index, lost>>
       \/ /\ ~index[d].made /\ Made(Parent[d]) /\ ~MayWrite(Parent[d])
          /\ running' = running \ {w} /\ lost' = lost \cup {d} /\ UNCHANGED index
    /\ StillRunning

\* mkpath, one directory of the path at a time: what is missing is made with
\* the mode of d, and that mode set again; what is there is left alone.
Mkpath(w) ==
    LET d == DirOf(w.row)
        x == Head(w.ops).dir
    IN
    /\ w \in running /\ w.ops # <<>> /\ Head(w.ops).what = "mkpath"
    /\ \/ index[x].made /\ Becomes(w, Tail(w.ops)) /\ UNCHANGED index
       \/ /\ MayMake(x) /\ Make(x, d)
          /\ Becomes(w, IF x = d THEN Tail(w.ops) ELSE <<Op("chmod", x)>> \o Tail(w.ops))
       \/ /\ ~index[x].made /\ ~MayMake(x)
          /\ Becomes(w, <<Op("chmod", d)>>) /\ UNCHANGED index
    /\ UNCHANGED lost /\ StillRunning

\* chmod and chown
Chmod(w) ==
    /\ w \in running /\ w.ops # <<>> /\ Head(w.ops).what = "chmod"
    /\ Becomes(w, Tail(w.ops))
    /\ IF index[Head(w.ops).dir].made THEN Make(Head(w.ops).dir, DirOf(w.row)) ELSE UNCHANGED index
    /\ UNCHANGED lost /\ StillRunning

LinesOf(r, types) ==
    SelectSeq(SubSeq(files[r.file], r.at + 1, r.at + r.n), LAMBDA l : l.type \in types)

\* gufi_trace2index, process_nondir: an entry's attributes are compared with
\* the entry's own permissions.
StanzaDb(r) ==
    LET data(types) == [i \in DOMAIN LinesOf(r, types) |-> LinesOf(r, types)[i].e]
        entries == data({"f", "l"})
    IN  MakeDb(entries, data({"e"}), [e \in ToSet(entries) |-> e.st])

\* The rest of gufi_trace2index's processdir: the database.  There may be no
\* room for it: the pool is stopped.
FillDb(w) ==
    LET d == DirOf(w.row)
        open1 == index[d].made /\ MayWrite(d)
    IN
    /\ w \in running /\ w.ops = <<>> /\ opt.tool = "trace2index"
    /\ running' = running \ {w}
    /\ \/ /\ open1 /\ index' = [index EXCEPT ![d].db = StanzaDb(w.row)]
          /\ UNCHANGED <<stopped, lost, faults>>
       \/ ~open1 /\ lost' = lost \cup {d} /\ UNCHANGED <<index, stopped, faults>>
       \/ Fault /\ stopped' = TRUE /\ lost' = lost \cup {d} /\ UNCHANGED index
    /\ UNCHANGED <<phase, opt, walk, totals, len, files, writes, chunks, rows, remaining>>

\* gufi_trace2dir, process_entries: an entry is made where its name says.
MadeEntries(r, x) ==
    LET in == SelectSeq(LinesOf(r, {"f", "l"}), LAMBDA l : l.dir = x /\ index[x].made /\ MayWrite(x))
    IN  [i \in DOMAIN in |-> in[i].e.name]

\* The rest of its processdir; set_metadata comes last.
FillDir(w) ==
    LET d == DirOf(w.row) IN
    /\ w \in running /\ w.ops = <<>> /\ opt.tool = "trace2dir"
    /\ running' = running \ {w}
    /\ index' = [x \in Dirs |->
          [index[x] EXCEPT !.mode = IF x = d /\ index[d].made THEN d ELSE @,
                           !.db.entries = @ \o MadeEntries(w.row, x)]]
    /\ lost' = IF index[d].made /\ MayWrite(d) THEN lost ELSE lost \cup {d}
    /\ StillRunning

\* QPTPool_stop returns
ScoutingEnds ==
    /\ phase = "scout" /\ running = {}
    /\ \A c \in chunks : ~c.read /\ stopped
    /\ rows # {} => stopped
    /\ phase' = "done"
    /\ UNCHANGED <<opt, walk, index, stopped, totals, lost, faults, traceVars>>

Done == phase = "done" /\ UNCHANGED vars

Next ==
    \/ BuildNext /\ UNCHANGED traceVars
    \/ \E t \in Threads : WriteOut(t) \/ \E d \in Dirs : TraceDir(t, d)
    \/ TraceEnds \/ ScoutingEnds \/ Done
    \/ \E c \in chunks : ScoutTrace(c) \/ ScoutEnds(c)
    \/ \E r \in rows : BeginRow(r)
    \/ \E w \in running : Dupdir(w) \/ Mkpath(w) \/ Chmod(w) \/ FillDb(w) \/ FillDir(w)

Spec == Init /\ [][Next]_vars

-----------------------------------------------------------------------------
(* Properties                                                              *)

WalkRoots == IF opt.roots = {} THEN {Root} ELSE opt.roots
NotEntered(d) == d \in lost \/ (opt.tool = "dir2index" /\ DirAction(d) = "no_descend")
\* The directories whose turn comes, and those that shall be in the index.
Reached == {d \in Dirs : /\ Level(d) <= opt.max
                         /\ \E r \in WalkRoots : /\ d \in {r} \cup Below[r]
                                                 /\ \A a \in Above[d] \cap ({r} \cup Below[r]) : ~NotEntered(a)}
Wanted == {d \in Reached : InRange(d) /\ (opt.tool = "dir2index" => Action[d] = "process")}

SizesOf(es) == {e.size : e \in {x \in ToSet(es) : x.type = "f"}}
CountOf(es, type) == Cardinality({i \in DOMAIN es : es[i].type = type})
Exact(d) ==
    LET es == Given(d, {})
        db == index[d].db
    IN  /\ ToSet(db.entries) = {e.name : e \in ToSet(es)} /\ Len(db.entries) = Len(es)
        /\ opt.tool # "trace2dir" =>
              /\ db.files = CountOf(es, "f") /\ db.links = CountOf(es, "l")
              /\ db.size = FoldLeft(LAMBDA n, e : IF e.type = "f" THEN n + e.size ELSE n, 0, es)
              /\ \A z \in SizesOf(es) : z <= db.max
              /\ db.ext = ExtOf(es)
Damaged == \E t \in Threads : \E i \in DOMAIN files[t] : files[t][i].type = "bad"

\* When a tool ends without reporting an error, every directory of the source
\* that is in range is there with all its entries, each once, and with the
\* totals of its summary; those that are not have failed, which takes a
\* failure, missing permissions or a list of paths; and the printed totals
\* are right when nothing failed.  By traces this rests on how the scouts
\* split files in the middle of lines and count the lines of a stanza
\* (processdir, split_file, find_stanza_end, scout_trace).
Complete ==
    (phase = "done" /\ ~stopped /\ ~(opt.tool = "trace2dir" /\ Damaged)) =>
        /\ \A d \in Wanted \ lost : Exact(d)
        /\ lost # {} => faults > 0 \/ ~opt.asroot \/ opt.roots # {}
        /\ (lost = {} /\ faults = 0) =>
              /\ totals.dirs = Cardinality(Wanted)
              /\ totals.nondirs = FoldFunction(LAMBDA a, b : a + b, 0,
                                               [d \in Wanted |-> Len(Nondirs(d))])

\* gufi_dir2index: when it ends, every directory it went through has the mode
\* and the owner of its source, whatever order directories were made,
\* entered and finished in (processdir, process_subtree_root).
ModesExact ==
    (phase = "done" /\ opt.tool = "dir2index" /\ ~stopped) =>
        \A d \in Reached \ lost : index[d].made => index[d].mode = d

\* The extended attributes of an entry are in exactly one place: in db.db when
\* they may be rolled in, else in the database of its user and in that of its
\* group with the same read bit; and there are never two databases for one
\* user, or for one group and bit (insertdbgo_xattrs, create_xattr_db).
XattrsPlaced ==
    (opt.tool # "trace2dir") =>
    \A d \in Dirs : \A i \in DOMAIN Nondirs(d) :
        LET e == Given(d, {})[i]
            db == index[d].db
            stored == e.xattrs > 0 /\ e.name \in ToSet(db.entries)
            holding == {k \in DOMAIN db.xdbs : e.name \in db.xdbs[k].rows}
            key(k) == <<db.xdbs[k].uid, db.xdbs[k].gid, db.xdbs[k].gr>>
        IN  /\ stored => (e.name \in db.rolled) # (holding # {})
            /\ (stored /\ holding # {}) =>
                  {key(k) : k \in holding} = {<<e.st.uid, Nobody, FALSE>>, <<Nobody, e.st.gid, "gr" \in e.st.mode>>}
            /\ \A j, k \in DOMAIN db.xdbs : key(j) = key(k) => j = k

=============================================================================
