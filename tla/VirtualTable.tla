---------------------------- MODULE VirtualTable ----------------------------
(***************************************************************************)
(* The virtual tables of gufi_vt.c and run_vt.c: SQLite scans a table by   *)
(* calling its methods, the table runs a process (gufi_query, or any       *)
(* command) behind a pipe, and turns what the process writes into rows.    *)
(*                                                                         *)
(* A byte is a number: the digits of the lengths are those below Base (16  *)
(* in the code), the others are the letters of values, the delimiter and   *)
(* the end of a line.                                                      *)
(***************************************************************************)
EXTENDS Integers, Sequences, FiniteSets, SequencesExt

CONSTANTS
    Base,           \* of the lengths in a row
    RowLenLen, ColCountLen, MaxLenOfLen, \* the digits of the lengths
    MaxScans,       \* bound: the calls of xFilter
    Scenarios,      \* the table, its arguments, what the reader and the system do
    Types,          \* what the SQL of a query returns: the types of the columns
    Answer,         \* and the rows, by root and SQL
    NeedsSetup,     \* SQL on tables that setup_res_col_type creates
    Malformed,      \* values that do not parse
    Lines,          \* the bytes a command run by run_vt writes
    ColCounts       \* the number of columns in an argument of run_vt

Delim == Base + 1   \* print->delim, and the delimiter of run_vt
Newline == Base + 2
Nul == Base + 3     \* the end of a string
Null == "NULL"      \* a NULL among the positional arguments
Garbage == "garbage"

ASSUME VirtualTableAssumption ==
    Base > 1 /\ RowLenLen > 0 /\ ColCountLen > 0 /\ MaxLenOfLen > 0

VARIABLES
    vt,     \* the scenario
    pc,     \* the method of the table SQLite is in, or has left
    cmd,    \* vtab->cmd
    scans,  \* how often xFilter was called
    procs,  \* the processes that were started
    cur,    \* pCur: the process, the row number
    rd,     \* gufi_query_read_row: what it is reading
    got     \* the rows SQLite was given in this scan

vvars == <<vt, pc, cmd, scans, procs, cur, rd, got>>

-----------------------------------------------------------------------------
(* The arguments                                                           *)

Scalars == {"remote_cmd", "threads", "min_level", "max_level", "path_list", "verbose",
            "setup_res_col_type", "T", "S", "E", "K", "G"}
Lists == {"remote_arg", "plugin", "external_attach", "index"}
NoCmd == [one |-> [k \in Scalars |-> ""], many |-> [k \in Lists |-> <<>>], err |-> FALSE]
Exists(c, k) == c.one[k] # ""

\* set_refstr: an empty string removes the old value.
SetRefstr(c, k, value) == [c EXCEPT !.one[k] = value]

\* parse_external_attach_args, parse_external_copy_args, plugins and numbers
BadWords(k, value) == k \in {"external_attach", "plugin", "verbose"} /\ value \in Malformed
BadArg(a) == a.key \notin Scalars \cup Lists \cup {""} \/ BadWords(a.key, a.value)

\* The last of the arguments with a key overwrites the others, the lists
\* grow; an argument without a key is a root.
Scalar(args, k, default) ==
    LET at == {i \in DOMAIN args : args[i].key = k}
    IN  IF at = {} THEN default ELSE args[CHOOSE i \in at : \A j \in at : j <= i].value
Pushed(args, k) ==
    LET of == SelectSeq(args, LAMBDA a : a.key = k \/ (k = "index" /\ a.key = ""))
    IN  [i \in DOMAIN of |-> of[i].value]
Parse(args) ==
    [one |-> [k \in Scalars |-> Scalar(args, k, IF k = "threads" THEN "1" ELSE "")],
     many |-> [k \in Lists |-> Pushed(args, k)],
     err |-> \E i \in DOMAIN args : BadArg(args[i])]

\* get_col_types and get_col_names prepare the SQL on empty tables.
Prepares(c, k) ==
    c.one[k] \in DOMAIN Types /\ (c.one[k] \in NeedsSetup => Exists(c, "setup_res_col_type"))

\* The query the columns of the table come from: -G, or the last of the others.
SchemaKey(c) == IF Exists(c, "K") THEN "G"
                ELSE IF Exists(c, "E") THEN "E"
                ELSE IF Exists(c, "S") THEN "S"
                ELSE "T"
Accepts(c) ==
    /\ ~c.err
    /\ c.many["index"] # <<>> \/ Exists(c, "path_list")
    /\ Prepares(c, SchemaKey(c))

\* run_vtConnect: cmd and cols are required, and no value is empty.
RunArg(k) == Scalar(vt.args, k, "")
RunAccepts ==
    /\ \A i \in DOMAIN vt.args : vt.args[i].key \in {"cmd", "cols", "d"} /\ vt.args[i].value # ""
    /\ RunArg("cmd") # "" /\ RunArg("cols") # ""
col_count == ColCounts[RunArg("cols")]

\* gufi_vt_xConnect: the fixed tables have one query each.
Fixed(key, sql) == SetRefstr(NoCmd, key, sql)

\* gufi_vtFilter: the positional arguments of a fixed table, cut into words.
Positions == <<"index", "threads", "min_level", "max_level", "path_list", "verbose",
               "remote_cmd", "remote_arg">>
PositionalArgs(c, pos) ==
    LET given(k) == \E i \in DOMAIN pos : Positions[i] = k /\ pos[i] # <<Null>>
        words(k) == pos[CHOOSE i \in DOMAIN pos : Positions[i] = k]
    IN  [one |-> [k \in Scalars |-> IF given(k) THEN words(k)[1]
                                    ELSE IF k = "threads" THEN "1" ELSE c.one[k]],
         many |-> [k \in Lists |-> c.many[k] \o (IF given(k) THEN words(k) ELSE <<>>)],
         err |-> given("verbose") /\ BadWords("verbose", words("verbose")[1])]

\* gufi_query: the command line.  An empty string is a NULL in argv, which
\* ends the command line there.
Argv(c) ==
    LET one(k) == IF Exists(c, k) THEN <<[key |-> k, value |-> c.one[k]]>> ELSE <<>>
        many(k) == [i \in DOMAIN c.many[k] |-> [key |-> k, value |-> c.many[k][i]]]
        all == FlattenSeq(<<one("threads"), one("min_level"), one("max_level"),
                            one("path_list"), one("setup_res_col_type"), one("T"), one("S"),
                            one("E"), one("K"), one("G"), many("plugin"),
                            many("external_attach"), many("index")>>)
        ends == {i \in DOMAIN all : all[i].value = ""}
    IN  SubSeq(all, 1, IF ends = {} THEN Len(all) ELSE (CHOOSE i \in ends : \A j \in ends : i <= j) - 1)
Host(c) == IF Exists(c, "remote_cmd") THEN <<c.one["remote_cmd"]>> \o c.many["remote_arg"] ELSE <<>>

\* parse_cmd_line in gufi_query reads the same options back.
GqOptions(argv) == Parse(argv)

-----------------------------------------------------------------------------
(* What gufi_query writes                                                  *)

LenOfLen[n \in Nat] == IF n < Base THEN 1 ELSE 1 + LenOfLen[n \div Base]
len_of_len(n) == IF LenOfLen[n] > MaxLenOfLen THEN MaxLenOfLen ELSE LenOfLen[n]

Digits(n, w) == [i \in 1..w |-> (n \div Base ^ (w - i)) % Base]
Number(ds) == FoldLeft(LAMBDA acc, d : acc * Base + d, 0, ds)

\* print_parallel with types: type, length of length, length, value.
Column(type, value) ==
    LET lol == len_of_len(Len(value)) IN <<type, lol>> \o Digits(Len(value), lol) \o value
Tlv(types, values) ==
    LET body == FlattenSeq([i \in DOMAIN values |-> Column(types[i], values[i])])
    IN  Digits(RowLenLen + ColCountLen + Len(body), RowLenLen)
          \o Digits(Len(values), ColCountLen) \o body

\* Without types: values, delimiters and the end of the line.
Plain(values) ==
    FlattenSeq([i \in DOMAIN values |->
                   Append(values[i], IF i = Len(values) THEN Newline ELSE Delim)])

TypedOne(c) == {SchemaKey(c)}   \* mutant: only the query that gives the columns

\* gen_types: the queries whose rows are written with types.
Typed(c) == IF Exists(c, "K") THEN {"G"} ELSE {k \in {"T", "S", "E"} : Exists(c, k)}
GenTypes(c) == \A k \in Typed(c) : Prepares(c, k)

\* The rows of a directory: those of -T, -S and -E in this order, or of -G.
Queries(c) ==
    SelectSeq(IF Exists(c, "K") THEN <<"G">> ELSE <<"T", "S", "E">>, LAMBDA k : Exists(c, k))
Rows(c, root, k) ==
    LET sql == c.one[k]
    IN  [i \in DOMAIN Answer[<<root, sql>>] |->
            IF k \in Typed(c) THEN Tlv(Types[sql], Answer[<<root, sql>>][i])
            ELSE Plain(Answer[<<root, sql>>][i])]
AllRows(c) ==
    FlattenSeq([r \in DOMAIN c.many["index"] |->
        FlattenSeq([q \in DOMAIN Queries(c) |-> Rows(c, c.many["index"][r], Queries(c)[q])])])

\* The rows go through a buffer, or past it when it is too small.  snprintf
\* ends the length of a column with a NUL, and keeps that inside of the
\* buffer: when the row fills the buffer to the end with the digits of an
\* empty value, the NUL takes the place of the last digit (the values of the
\* model do not end in the digit 0).
Filled(rows) ==
    LET f[i \in Nat] ==
            IF i = 0 THEN 0
            ELSE LET n == Len(rows[i]) IN
                 IF n > vt.capacity THEN 0 ELSE IF vt.capacity - f[i - 1] < n THEN n ELSE f[i - 1] + n
    IN  [i \in DOMAIN rows |-> f[i]]
Output(c) ==
    LET rows == AllRows(c)
        cut(i) == Filled(rows)[i] = vt.capacity /\ Last(rows[i]) = 0
    IN  FlattenSeq([i \in DOMAIN rows |-> IF cut(i) THEN Append(Front(rows[i]), Nul) ELSE rows[i]])

\* gufi_query stops before the first row when an option is bad.
Runs(c) == ~c.err /\ GenTypes(c) /\ c.one["threads"] \notin Malformed

\* popen_argv: the process and its end of the pipe
Process(c) ==
    LET gq == GqOptions(Argv(c))
    IN  [host |-> Host(c), out |-> IF Runs(gq) THEN Output(gq) ELSE <<>>,
         code |-> IF Runs(gq) THEN 0 ELSE 1, st |-> "running", pipe |-> <<>>, fd |-> TRUE]
RunProcess ==
    [host |-> <<>>, out |-> Lines[RunArg("cmd")], code |-> 0, st |-> "running", pipe |-> <<>>, fd |-> TRUE]

-----------------------------------------------------------------------------
(* gufi_query_read_row                                                     *)

Reading(part, want, cols, count, type) ==
    [part |-> part, want |-> want, bytes |-> <<>>, cols |-> cols, count |-> count, type |-> type]
Prefix == Reading("prefix", RowLenLen + ColCountLen, <<>>, 0, 0)
Line == Reading("line", 0, <<>>, 0, 0)
RowDone(cols) == Reading("row", 0, cols, Len(cols), 0)
BadRow == Reading("none", 0, <<>>, 0, 0)
IsNumber(ds) == \A i \in DOMAIN ds : ds[i] < Base

ColumnDone(r, value) ==
    LET cols == Append(r.cols, [type |-> r.type, value |-> value])
    IN  IF Len(cols) = r.count THEN RowDone(cols) ELSE Reading("tlol", 2, cols, r.count, 0)

\* A part has been read: which part is next, and how long it is.
PartDone(r) ==
    CASE r.part = "prefix" ->
           LET count == SubSeq(r.bytes, RowLenLen + 1, RowLenLen + ColCountLen)
           IN  IF ~IsNumber(r.bytes) THEN BadRow
               ELSE Reading("tlol", 2, <<>>, Number(count), 0)
      [] r.part = "tlol"  -> Reading("len", r.bytes[2], r.cols, r.count, r.bytes[1])
      [] r.part = "len"   ->
           IF ~IsNumber(r.bytes) THEN BadRow
           ELSE IF Number(r.bytes) = 0 THEN ColumnDone(r, <<>>)
           ELSE Reading("value", Number(r.bytes), r.cols, r.count, r.type)
      [] r.part = "value" -> ColumnDone(r, r.bytes)

\* run_read_row: the last byte of the line goes, the rest is cut at the
\* delimiters; adjacent ones are one.
Tokens(line) ==
    LET cuts(i) == i \notin DOMAIN line \/ line[i] = Delim
        starts == {i \in DOMAIN line : ~cuts(i) /\ cuts(i - 1)}
        end(i) == CHOOSE j \in i..Len(line) : cuts(j + 1) /\ \A k \in i..j : ~cuts(k)
        at == SetToSortSeq(starts, <)
    IN  [n \in DOMAIN at |-> SubSeq(line, at[n], end(at[n]))]
LineDone(r) ==
    LET tokens == Tokens(Front(r.bytes))
        n == IF Len(tokens) < col_count THEN Len(tokens) ELSE col_count
    IN  RowDone([i \in 1..n |-> [type |-> 3, value |-> tokens[i]]])

\* gufi_vtColumn: what SQLite gets for the values of the columns.  A number
\* is read up to the first byte that is no digit; behind a value is the type
\* of the next column, and behind the last one an uninitialised byte, which
\* only the conversion of floats looks at.
Convert(col, behind) ==
    LET bytes == IF col.type = 2 THEN col.value \o behind ELSE col.value
        n == CHOOSE k \in 0..Len(bytes) :
                 IsNumber(SubSeq(bytes, 1, k)) /\ (k = Len(bytes) \/ bytes[k + 1] >= Base)
    IN  CASE col.type \in {1, 2} /\ n > 0 -> <<"number", Number(SubSeq(bytes, 1, n))>>
          [] col.type = 4                 -> <<"blob", col.value>>
          [] OTHER                        -> <<"text", col.value>>
SchemaLen == IF vt.kind = "run" THEN col_count ELSE Len(Types[cmd.one[SchemaKey(cmd)]])
Columns(cols, behind) ==
    [n \in 1..SchemaLen |->
        IF n > Len(cols) THEN <<"null", <<>>>>
        ELSE Convert(cols[n], IF n = Len(cols) THEN behind ELSE <<>>)]
-----------------------------------------------------------------------------
(* The methods of the table                                                *)

NoCursor == [proc |-> 0, rowid |-> 0, first |-> FALSE]
VInit ==
    /\ vt \in Scenarios
    /\ pc = "new" /\ cmd = NoCmd /\ scans = 0 /\ procs = <<>> /\ cur = NoCursor /\ rd = BadRow /\ got = <<>>

\* xCreate and xConnect
Connect ==
    /\ pc = "new"
    /\ cmd' = CASE vt.kind = "vt"    -> Parse(vt.args)
                [] vt.kind = "fixed" -> Fixed(vt.key, vt.sql)
                [] vt.kind = "run"   -> NoCmd
    /\ pc' = CASE vt.kind = "vt"    -> IF Accepts(cmd') THEN "connected" ELSE "gone"
               [] vt.kind = "fixed" -> "connected"
               [] vt.kind = "run"   -> IF RunAccepts THEN "connected" ELSE "gone"
    /\ UNCHANGED <<vt, scans, procs, cur, rd, got>>

\* xBestIndex rejects a fixed table without arguments; xOpen.
Open ==
    /\ pc \in {"connected", "closed"} /\ scans < vt.scans
    /\ vt.kind = "fixed" => vt.pos # <<>>
    /\ pc' = "open" /\ cur' = NoCursor /\ got' = <<>>
    /\ UNCHANGED <<vt, scans, cmd, procs, rd>>

\* xFilter up to the process.  A scan that is started again before its end
\* forgets the process it has.  The roots that an earlier scan pushed are
\* still there, and point to memory that has been given back.
Stale(c) == {c} \cup {[c EXCEPT !.many["index"] = [i \in DOMAIN @ |-> Garbage]]}
Filter ==
    /\ pc \in {"open", "eof"} \/ (pc = "row" /\ "filter" \in vt.early)
    /\ scans < vt.scans
    /\ \E c \in IF vt.kind = "fixed" THEN Stale(cmd) ELSE {cmd} :
         cmd' = IF vt.kind = "fixed" THEN PositionalArgs(c, vt.pos) ELSE c
    /\ IF (vt.kind = "fixed" /\ (vt.pos[1] = <<Null>> \/ cmd'.err)) \/ vt.nofork
       THEN pc' = "failed" /\ UNCHANGED <<procs, cur, rd, got>>
       ELSE /\ procs' = Append(procs, IF vt.kind = "run" THEN RunProcess ELSE Process(cmd'))
            /\ cur' = [proc |-> Len(procs'), rowid |-> 0, first |-> TRUE]
            /\ rd' = IF vt.kind = "run" THEN Line ELSE Prefix
            /\ got' = <<>> /\ pc' = "reading"
    /\ scans' = scans + 1 /\ UNCHANGED vt

Me == procs[cur.proc]

\* A row is there: xEof says no, and xColumn gives its columns.
Show(r) ==
    \E behind \in IF r.cols # <<>> /\ Last(r.cols).type = 2 THEN {<<>>, <<1>>} ELSE {<<>>} :
        got' = Append(got, [rowid |-> cur'.rowid, cols |-> Columns(r.cols, behind)])

\* read_size: what is in the pipe, up to what is wanted.
Take(n) ==
    /\ procs' = [procs EXCEPT ![cur.proc].pipe = SubSeq(@, n + 1, Len(@))]
    /\ LET r == [rd EXCEPT !.bytes = @ \o SubSeq(Me.pipe, 1, n)]
           full == IF rd.part = "line" THEN Last(r.bytes) = Newline ELSE Len(r.bytes) = rd.want
           next == IF ~full THEN r ELSE IF rd.part = "line" THEN LineDone(r) ELSE PartDone(r)
       IN  /\ rd' = next
           /\ CASE next.part = "row" ->
                     /\ cur' = [cur EXCEPT !.first = FALSE,
                                    !.rowid = @ + (IF cur.first \/ (vt.kind = "run" /\ Len(next.cols) < col_count)
                                                   THEN 0 ELSE 1)]
                     /\ Show(next) /\ pc' = "row"
                [] next.part = "none" -> pc' = "norow" /\ UNCHANGED <<cur, got>>
                [] OTHER -> UNCHANGED <<pc, cur, got>>
WantedBytes ==
    LET room == Len(Me.pipe)
        ends == {i \in 1..room : Me.pipe[i] = Newline}
    IN  IF rd.part = "line"
        THEN IF ends = {} THEN room ELSE CHOOSE i \in ends : \A j \in ends : i <= j
        ELSE IF rd.want - Len(rd.bytes) < room THEN rd.want - Len(rd.bytes) ELSE room
Read ==
    /\ pc = "reading" /\ Me.pipe # <<>>
    /\ Take(WantedBytes)
    /\ UNCHANGED <<vt, scans, cmd>>

ReadEofLoops ==     \* mutant: read_size does not stop at the end
    /\ pc = "reading" /\ Me.pipe = <<>> /\ Me.st = "exited"
    /\ UNCHANGED vvars

\* The end of the output: no row, and an error if it ended inside a row.
ReadEof ==
    /\ pc = "reading" /\ Me.pipe = <<>> /\ Me.st = "exited"
    /\ pc' = "norow" /\ rd' = BadRow
    /\ UNCHANGED <<vt, scans, cmd, procs, cur, got>>

\* popen_argv_close: waitpid, then close.  pclose does the same.
Reap == procs' = [procs EXCEPT ![cur.proc] = [@ EXCEPT !.st = "reaped", !.fd = FALSE]]

Close0(next) ==
    /\ Me.st = "exited" /\ Reap
    /\ cur' = [cur EXCEPT !.proc = 0]
    /\ pc' = next
NoRowKeeps ==   \* mutant: xEof forgets the process
    /\ pc = "norow"
    /\ Me.st = "exited" /\ pc' = "eof" /\ cur' = [cur EXCEPT !.proc = 0]
    /\ UNCHANGED <<vt, scans, cmd, rd, got, procs>>

\* The first row of a scan is missing: xFilter closes, and fails only when
\* gufi_query failed.  Otherwise, and after any other row, xEof closes.
NoRow ==
    /\ pc = "norow"
    /\ Close0(IF cur.first /\ vt.kind # "run" /\ Me.code # 0 THEN "failed" ELSE "eof")
    /\ UNCHANGED <<vt, scans, cmd, rd, got>>
\* xNext; what goes wrong from here on is not reported.
NextRow ==
    /\ pc = "row"
    /\ pc' = "reading" /\ rd' = IF vt.kind = "run" THEN Line ELSE Prefix
    /\ UNCHANGED <<vt, scans, cmd, procs, cur, got>>

\* xClose: at the end of the scan, or before it when SQLite has the rows it
\* needs.  run_vtClose leaves the process alone.
Close ==
    /\ pc \in {"open", "eof", "failed"} \/ (pc = "row" /\ "close" \in vt.early)
    /\ IF cur.proc # 0 /\ vt.kind # "run" THEN pc' = "closing" /\ UNCHANGED cur
       ELSE pc' = "closed" /\ cur' = NoCursor
    /\ UNCHANGED <<vt, scans, cmd, procs, rd, got>>
Closing ==
    /\ pc = "closing"
    /\ Close0("closed")
    /\ UNCHANGED <<vt, scans, cmd, rd, got>>

\* xDisconnect and xDestroy
Disconnect ==
    /\ pc \in {"connected", "closed"}
    /\ pc' = "gone" /\ cmd' = NoCmd
    /\ UNCHANGED <<vt, scans, procs, cur, rd, got>>

-----------------------------------------------------------------------------
(* The process                                                             *)

\* write_size and the flush of stdio: as much as the pipe has room for.
Write(p) ==
    /\ procs[p].st = "running" /\ procs[p].out # <<>>
    /\ \E n \in 1..(vt.pipe - Len(procs[p].pipe)) :
         /\ n <= Len(procs[p].out)
         /\ procs' = [procs EXCEPT ![p].pipe = @ \o SubSeq(procs[p].out, 1, n),
                                   ![p].out = SubSeq(@, n + 1, Len(@))]
    /\ UNCHANGED <<vt, scans, pc, cmd, cur, rd, got>>
Exit(p) ==
    /\ procs[p].st = "running" /\ procs[p].out = <<>>
    /\ procs' = [procs EXCEPT ![p].st = "exited"]
    /\ UNCHANGED <<vt, scans, pc, cmd, cur, rd, got>>
Dies(p) ==
    /\ vt.crash /\ procs[p].st = "running"
    /\ procs' = [procs EXCEPT ![p] = [@ EXCEPT !.st = "exited", !.code = 1, !.out = <<>>]]
    /\ UNCHANGED <<vt, scans, pc, cmd, cur, rd, got>>

Reader == Connect \/ Filter \/ Read \/ ReadEof \/ NoRow \/ NextRow \/ Close \/ Closing
Child(p) == Write(p) \/ Exit(p)
VNext == Reader \/ Open \/ Disconnect \/ (\E p \in DOMAIN procs : Child(p) \/ Dies(p))

\* The calls of SQLite go on until they return, and the system runs the
\* processes that can run.
Fairness ==
    /\ WF_vvars(Read) /\ WF_vvars(ReadEof) /\ WF_vvars(NoRow) /\ WF_vvars(Closing)
    /\ \A p \in 1..MaxScans : WF_vvars(p \in DOMAIN procs /\ Child(p))
VSpec == VInit /\ [][VNext]_vvars /\ Fairness

-----------------------------------------------------------------------------
(* What the arguments ask for                                              *)

\* The last value of a key counts, and all the roots.
LastOf(k) ==
    LET at == {i \in DOMAIN vt.args : vt.args[i].key = k}
    IN  IF at = {} THEN "" ELSE vt.args[CHOOSE i \in at : \A j \in at : j <= i].value
RootsOf == LET is(a) == a.key \in {"", "index"} IN SelectSeq(vt.args, is)
AskedRoots ==
    IF vt.kind = "fixed" THEN IF vt.pos = <<>> \/ vt.pos[1] = <<Null>> THEN <<>> ELSE vt.pos[1]
    ELSE [i \in DOMAIN RootsOf |-> RootsOf[i].value]
AskedSqls ==
    LET sqls == IF LastOf("K") # "" THEN <<LastOf("G")>> ELSE <<LastOf("T"), LastOf("S"), LastOf("E")>>
    IN  IF vt.kind = "fixed" THEN <<vt.sql>> ELSE SelectSeq(sqls, LAMBDA s : s # "")
Given(type, v) ==
    IF type \in {1, 2} /\ v # <<>> /\ v[1] < Base THEN <<"number", Number(v)>>
    ELSE IF type = 4 THEN <<"blob", v>> ELSE <<"text", v>>
AskedRow(sql, values) ==
    [n \in DOMAIN Types[Last(AskedSqls)] |->
        IF n > Len(values) THEN <<"null", <<>>>> ELSE Given(Types[sql][n], values[n])]
AskedRows ==
    FlattenSeq([r \in DOMAIN AskedRoots |-> FlattenSeq([q \in DOMAIN AskedSqls |->
        [i \in DOMAIN Answer[<<AskedRoots[r], AskedSqls[q]>>] |->
            AskedRow(AskedSqls[q], Answer[<<AskedRoots[r], AskedSqls[q]>>][i])]])])
AskedLines == vt.rows
Asked == IF vt.kind = "run" THEN AskedLines ELSE AskedRows

\* Every scan gives the rows that its arguments ask for, in the order
\* gufi_query writes them, whole, with their types and values and numbered
\* from 0, though they come in pieces through a pipe and the rows of the
\* queries have different columns (gufi_query_read_row, gufi_vtColumn);
\* when gufi_query dies the scan has the rows before that, and no part of
\* one.
RowsAsAsked ==
    pc \in {"row", "eof"} =>
        LET asked == Asked
            numbered == [i \in DOMAIN asked |-> [rowid |-> i - 1, cols |-> asked[i]]]
        IN  /\ IsPrefix(got, numbered)
            /\ pc = "eof" /\ Last(procs).code = 0 => got = numbered

\* xFilter before the end of a scan and run_vtClose forget a process that runs.
Forgets == "filter" \in vt.early \/ (vt.kind = "run" /\ "close" \in vt.early)

\* Once a scan is over, however it ended, its process has been waited for
\* and its pipe is closed (gufi_vtEof, gufi_vtFilter, gufi_vtClose), unless
\* it was forgotten.
NoProcessLeft ==
    ~Forgets /\ pc \in {"eof", "failed", "closed", "gone"} =>
        \A p \in DOMAIN procs : procs[p].st = "reaped" /\ ~procs[p].fd

\* The methods of the table return: SQLite waits neither for a row nor for
\* the process for ever (gufi_query_read_row, popen_argv_close).
MethodsReturn == pc \in {"reading", "norow", "closing"} ~> pc \notin {"reading", "norow", "closing"}
=============================================================================
