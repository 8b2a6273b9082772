----------------------------- MODULE Aggregates -----------------------------
(***************************************************************************)
(* The aggregate functions GUFI adds to SQLite: the histograms of          *)
(* histogram.c, and median, stdevs, stdevp and mode_count.  The threads of *)
(* gufi_query aggregate the rows of their directories into texts, which a  *)
(* combining aggregate parses and adds up in the order they come in.       *)
(*                                                                         *)
(* A text is its head, its buckets, and what became of it: "clean" and     *)
(* "torn" texts end at the bucket that did not fit, before its first or    *)
(* inside of it.                                                           *)
(***************************************************************************)
EXTENDS Integers, Sequences, FiniteSets, FiniteSetsExt, SequencesExt

CONSTANTS
    Requests,       \* the aggregates that are tried, with the rows of every part
    HistAlloc,      \* DEFAULT_HIST_ALLOC
    IntMax,         \* an int holds -IntMax..(IntMax - 1)
    Rounded,        \* the buckets that are off when logarithms are rounded
    Names,          \* the categories, in the order of strcmp
    NameLen,        \* and their lengths
    NoName          \* those that do not parse: empty, or with a colon

VARIABLES
    rq,             \* the request: kind, rows and arguments of every part, sort
    apc,            \* "parts", "combine", "done" or "error"
    nextrow,        \* the next row of every part
    ctx,            \* sqlite3_aggregate_context of every part
    texts,          \* the results of the parts
    acc,            \* the context of the combining aggregate
    result          \* what the caller gets

avars == <<rq, apc, nextrow, ctx, texts, acc, result>>

ASSUME AggregatesAssumption == HistAlloc > 0 /\ IntMax > 0

Parts == DOMAIN rq.rows
Nothing == <<>>     \* NULL: results other than texts, and rows, are sequences
Combines(kind) == kind \in {"log", "mode", "time", "category", "extension"}

\* The structures of all the aggregates; SQLite hands them out zeroed.
Zeroed ==
    [base |-> 0, count |-> 0, lt |-> 0, ge |-> 0, alloc |-> FALSE, ref |-> 0, init |-> FALSE,
     keep_1 |-> FALSE, sort |-> FALSE, categories |-> <<>>, buckets |-> <<>>, values |-> <<>>]

Plus(f, k, n) == IF k \in DOMAIN f THEN [f EXCEPT ![k] = @ + n] ELSE f @@ (k :> n)
SortedBy(rank) ==
    [i \in 1..Cardinality(DOMAIN rank) |->
        CHOOSE x \in DOMAIN rank: Cardinality({y \in DOMAIN rank: rank[y] < rank[x]}) = i - 1]
Merged(f, g) == FoldSet(LAMBDA k, h: Plus(h, k, g[k]), f, DOMAIN g)

-----------------------------------------------------------------------------
(* The steps                                                               *)

log_hist_init(h, base, count) ==
    [h EXCEPT !.base = base, !.count = count, !.lt = 0, !.ge = 0, !.buckets = <<>>, !.alloc = TRUE]

\* log2(value) / log2(base) in floating point
Exponent(base, v) ==
    IF <<base, v>> \in DOMAIN Rounded THEN Rounded[<<base, v>>]
    ELSE CHOOSE i \in 0..31: base ^ i <= v /\ v < base ^ (i + 1)

log_hist_insert(h, v) ==
    IF v < 1 THEN [h EXCEPT !.lt = @ + 1]
    ELSE IF Exponent(h.base, v) >= h.count THEN [h EXCEPT !.ge = @ + 1]
    ELSE [h EXCEPT !.buckets = Plus(@, Exponent(h.base, v), 1)]

\* sqlite3_value_int keeps the low bits
ToInt(v) == ((v + IntMax) % (2 * IntMax)) - IntMax
\* texts count with their lengths, NULL as 0; floats are given in halves
AsNumber(row) ==
    CASE row.type = "text"  -> row.v
      [] row.type = "int"   -> ToInt(row.v)
      [] row.type = "float" -> IF row.v < 0 THEN -1 ELSE row.v \div 2
      [] row.type = "null"  -> 0

log_hist_step(h, row, arg) ==
    LET ready == IF h.base = 0 THEN log_hist_init(h, arg.base, arg.count) ELSE h
    IN  IF AsNumber(row) >= 0 THEN log_hist_insert(ready, AsNumber(row)) ELSE ready
BadBase(h, arg) == h.base = 0 /\ arg.base < 2

mode_hist_step(h, row) == [h EXCEPT !.buckets = Plus(@, row % 512, 1)]

TIME_BUCKETS == <<0, 1, 60, 3600, 86400, 604800, 2419200, 31536000, 63072000, 157680000,
                  315360000, 630720000, 630720001>>
TimeBucket(dt) ==
    LET below == {i \in 1..(Len(TIME_BUCKETS) - 1): dt < TIME_BUCKETS[i]}
    IN  IF below = {} THEN Len(TIME_BUCKETS) ELSE Min(below)
\* the reference time is that of the first row
time_hist_step(h, row, arg) ==
    LET ready == IF h.init THEN h ELSE [h EXCEPT !.ref = arg.ref, !.init = TRUE]
    IN  [ready EXCEPT !.buckets = Plus(@, TimeBucket(ready.ref - row), 1)]

category_hist_init(h, arg) ==
    IF h.init THEN h ELSE [h EXCEPT !.init = TRUE, !.keep_1 = arg.keep_1, !.sort = arg.sort]
category_hist_insert(h, cat, n) ==
    [h EXCEPT !.categories = IF cat \in DOMAIN h.buckets THEN @ ELSE Append(@, cat),
              !.buckets = Plus(@, cat, n)]
category_hist_step(h, row, arg) ==
    LET ready == category_hist_init(h, arg)
    IN  IF row = Nothing THEN ready ELSE category_hist_insert(ready, row[1], 1)

\* The rows are names, cut at the dots.  Nothing behind the last dot, or no
\* dot, is no extension.
Extension(name) ==
    LET dots == {i \in DOMAIN name: name[i] = "."}
    IN  IF dots = {} \/ Max(dots) = Len(name) THEN "no-ext" ELSE name[Max(dots) + 1]
extension_hist_step(h, row, arg) ==
    LET ready == category_hist_init(h, arg)
    IN  IF row = Nothing THEN ready ELSE category_hist_insert(ready, Extension(row), 1)

\* a double is kept in a pointer, as an integer
median_step(h, row) == [h EXCEPT !.values = Append(@, row \div 2)]
\* count, sum and sum of squares
stdev_step(h, row) ==
    [h EXCEPT !.count = @ + 1, !.lt = @ + row, !.ge = @ + row * row]

xStep(h, row, arg) ==
    CASE rq.kind = "log"                   -> log_hist_step(h, row, arg)
      [] rq.kind = "mode"                  -> mode_hist_step(h, row)
      [] rq.kind = "time"                  -> time_hist_step(h, row, arg)
      [] rq.kind \in {"category", "count"} -> category_hist_step(h, row, arg)
      [] rq.kind = "extension"             -> extension_hist_step(h, row, arg)
      [] rq.kind = "median"                -> median_step(h, row)
      [] rq.kind \in {"stdevs", "stdevp"}  -> stdev_step(h, row)

-----------------------------------------------------------------------------
(* The texts                                                               *)

DigitsOf(n) == IF n = 0 THEN 1 ELSE Cardinality({k \in 0..9: 10 ^ k <= n})
Bucket(key, n, width) == [key |-> key, n |-> n, width |-> width]

\* A bucket that does not fit makes the buffer grow, but is not written
\* again, though its length is counted: what follows is behind the end of
\* the string.
serialize_bucket(text, b) ==
    LET avail == text.size - text.used
    IN  IF b.width < avail
        THEN [text EXCEPT !.used = @ + b.width,
                          !.buckets = IF text.cut = "no" THEN Append(@, b) ELSE @]
        ELSE [text EXCEPT !.used = @ + b.width, !.size = @ + 2 * b.width,
                          !.cut = IF @ # "no" THEN @ ELSE IF avail = 1 THEN "clean" ELSE "torn"]
TextOf(head, width, buckets) ==
    LET text == FoldLeft(serialize_bucket,
                         [used |-> width, size |-> HistAlloc, buckets |-> <<>>, cut |-> "no"], buckets)
    IN  [head |-> head, buckets |-> [i \in DOMAIN text.buckets |-> <<text.buckets[i].key, text.buckets[i].n>>],
         cut |-> text.cut]

Ascending(h) == SortedBy([k \in DOMAIN h.buckets |-> k])
log_hist_serialize(h) ==
    LET keys == Ascending(h)
        width == 4 + DigitsOf(h.base) + DigitsOf(h.count) + DigitsOf(h.lt) + DigitsOf(h.ge)
    IN  IF h.base = 0 THEN TextOf(<<0, 0, 0, 0>>, 8, <<>>)
        ELSE TextOf(<<h.base, h.count, h.lt, h.ge>>, width,
                     [i \in DOMAIN keys |->
                        Bucket(keys[i], h.buckets[keys[i]], 2 + DigitsOf(keys[i]) + DigitsOf(h.buckets[keys[i]]))])
mode_hist_final(h) ==
    LET keys == Ascending(h)
    IN  TextOf(<<>>, 0, [i \in DOMAIN keys |->
                            Bucket(keys[i], h.buckets[keys[i]], 5 + DigitsOf(h.buckets[keys[i]]))])
time_hist_final(h) ==
    LET keys == Ascending(h)
        seconds(i) == TIME_BUCKETS[keys[i]]
    IN  IF ~h.init THEN TextOf(<<0>>, 2, <<>>)
        ELSE TextOf(<<h.ref>>, 1 + DigitsOf(h.ref),
                     [i \in DOMAIN keys |->
                        Bucket(seconds(i), h.buckets[keys[i]], 2 + DigitsOf(seconds(i)) + DigitsOf(h.buckets[keys[i]]))])

Rank(name) == CHOOSE i \in DOMAIN Names: Names[i] = name
ByName(a1, a2) == Rank(a1) < Rank(a2)
SortedNames(h) == SortedBy([k \in DOMAIN h.buckets |-> Rank(k)])
CategoryBucket(name, n) == Bucket(name, n, 3 + DigitsOf(NameLen[name]) + NameLen[name] + DigitsOf(n))
category_hist_final(h) ==
    LET order == IF h.sort THEN SortedNames(h) ELSE h.categories
        keep == SelectSeq(order, LAMBDA c: h.keep_1 \/ h.buckets[c] > 1)
    IN  TextOf(<<Len(keep)>>, 1 + DigitsOf(Len(keep)),
                [i \in DOMAIN keep |-> CategoryBucket(keep[i], h.buckets[keep[i]])])

\* The categories are sorted with a function for another structure, which
\* takes the pointer to free for the count: they are all equal, and the
\* first of the names is the mode unless the second has the same count.
mode_count_final(h) ==
    LET sorted == SortedNames(h)
    IN  IF sorted = <<>> \/ (Len(sorted) > 1 /\ h.buckets[sorted[1]] = h.buckets[sorted[2]]) THEN Nothing
        ELSE <<TextOf(<<>>, 0, <<CategoryBucket(sorted[1], h.buckets[sorted[1]])>>)>>

\* Twice the median.  cmp_double returns an int: when a difference does not
\* fit, the order is that of no sort.
median_final(h) ==
    LET n == Len(h.values)
        half == n \div 2
        spread == \E i, j \in DOMAIN h.values: h.values[i] - h.values[j] >= IntMax
        orders == IF spread /\ n > 2 THEN SetToSeqs(DOMAIN h.values)
                  ELSE {SortedBy([i \in DOMAIN h.values |-> h.values[i] * n + i])}
        of(s) == IF n % 2 = 1 THEN 2 * h.values[s[half + 1]] ELSE h.values[s[half + 1]] + h.values[s[half]]
    IN  IF n = 0 THEN {Nothing} ELSE {<<of(s)>>: s \in orders}

\* the variance, as a fraction
stdevs_final(h) ==
    IF h.count < 2 THEN Nothing ELSE <<h.count * h.ge - h.lt * h.lt, h.count * (h.count - 1)>>
stdevp_final(h) ==
    IF h.count < 2 THEN Nothing ELSE <<h.count * h.ge - h.lt * h.lt, h.count * h.count>>

\* the results an aggregate may have
xFinal(h) ==
    CASE rq.kind = "log"                       -> {log_hist_serialize(h)}
      [] rq.kind = "mode"                      -> {mode_hist_final(h)}
      [] rq.kind = "time"                      -> {time_hist_final(h)}
      [] rq.kind \in {"category", "extension"} -> {category_hist_final(h)}
      [] rq.kind = "count"                     -> {mode_count_final(h)}
      [] rq.kind = "median"                    -> median_final(h)
      [] rq.kind = "stdevs"                    -> {stdevs_final(h)}
      [] rq.kind = "stdevp"                    -> {stdevp_final(h)}

-----------------------------------------------------------------------------
(* Combining                                                               *)

BucketsOf(text) == FoldLeft(LAMBDA f, b: Plus(f, b[1], b[2]), <<>>, text.buckets)

\* A bucket without its end does not parse, and a category histogram knows
\* how many buckets it has.
Parses(text) ==
    CASE rq.kind \in {"log", "mode", "time"} -> text.cut # "torn"
      [] OTHER -> /\ text.cut = "no"
                  /\ \A i \in DOMAIN text.buckets: text.buckets[i][1] \notin NoName

log_hist_parse(text) ==
    [Zeroed EXCEPT !.base = text.head[1], !.count = text.head[2], !.lt = text.head[3],
                   !.ge = text.head[4], !.buckets = BucketsOf(text)]
time_hist_parse(text) ==
    LET index(seconds) == CHOOSE i \in DOMAIN TIME_BUCKETS: TIME_BUCKETS[i] = seconds
    IN  [Zeroed EXCEPT !.ref = text.head[1],
                       !.buckets = FoldLeft(LAMBDA f, b: Plus(f, index(b[1]), b[2]), <<>>, text.buckets)]

\* the most frequent first, then by name
category_hist_parse(text) ==
    LET before(b1, b2) == b1[2] > b2[2] \/ (b1[2] = b2[2] /\ ByName(b1[1], b2[1]))
    IN  SortSeq(text.buckets, before)

log_hist_combine_inplace(h, rhs) ==
    LET lhs == IF h.base = 0 THEN log_hist_init(h, rhs.base, rhs.count) ELSE h
    IN  IF rhs.base = 0 THEN h
        ELSE [lhs EXCEPT !.lt = @ + rhs.lt, !.ge = @ + rhs.ge, !.buckets = Merged(@, rhs.buckets)]
log_hist_combine_step(h, text) ==
    LET rhs == log_hist_parse(text)
    IN  log_hist_combine_inplace(
            IF h.alloc THEN h ELSE [h EXCEPT !.base = rhs.base, !.count = rhs.count, !.alloc = TRUE], rhs)
mode_hist_combine_step(h, text) == [h EXCEPT !.buckets = Merged(@, BucketsOf(text))]
time_hist_combine_step(h, text) ==
    LET rhs == time_hist_parse(text)
    IN  [h EXCEPT !.init = TRUE, !.ref = IF @ = 0 THEN rhs.ref ELSE @, !.buckets = Merged(@, rhs.buckets)]

\* Mutant: a category that is known already is inserted once more.
category_hist_combine_twice(h, parsed) ==
    FoldLeft(LAMBDA g, b: [g EXCEPT !.buckets = (b[1] :> b[2]) @@ @,
                                    !.categories = Append(@, b[1])], h, parsed)

category_hist_combine_inplace(h, parsed) ==
    FoldLeft(LAMBDA g, b: category_hist_insert(g, b[1], b[2]), h, parsed)
category_hist_combine_step(h, text) ==
    category_hist_combine_inplace(
        IF h.init THEN h ELSE [h EXCEPT !.init = TRUE, !.keep_1 = TRUE, !.sort = rq.sort],
        category_hist_parse(text))

\* different bases, numbers of buckets or reference times
Differs(h, text) ==
    \/ /\ rq.kind = "log" /\ h.alloc /\ h.base # 0 /\ text.head[1] # 0
       /\ <<h.base, h.count>> # <<text.head[1], text.head[2]>>
    \/ rq.kind = "time" /\ h.ref # 0 /\ text.head[1] # 0 /\ h.ref # text.head[1]

xCombine(h, text) ==
    CASE rq.kind = "log"  -> log_hist_combine_step(h, text)
      [] rq.kind = "mode" -> mode_hist_combine_step(h, text)
      [] rq.kind = "time" -> time_hist_combine_step(h, text)
      [] OTHER            -> category_hist_combine_step(h, text)

-----------------------------------------------------------------------------
(* The queries                                                             *)

AInit ==
    /\ rq \in Requests
    /\ apc = "parts"
    /\ nextrow = [p \in Parts |-> 1]
    /\ ctx = [p \in Parts |-> Zeroed]
    /\ texts = <<>>
    /\ acc = Zeroed
    /\ result = Nothing

\* an error in a step ends the query
Fails == apc' = "error" /\ UNCHANGED <<rq, nextrow, ctx, texts, acc, result>>

Step(p) ==
    /\ apc = "parts" /\ p \notin DOMAIN texts /\ nextrow[p] <= Len(rq.rows[p])
    /\ IF rq.kind = "log" /\ BadBase(ctx[p], rq.args[p]) THEN Fails
       ELSE /\ ctx' = [ctx EXCEPT ![p] = xStep(@, rq.rows[p][nextrow[p]], rq.args[p])]
            /\ nextrow' = [nextrow EXCEPT ![p] = @ + 1]
            /\ UNCHANGED <<rq, apc, texts, acc, result>>

Final(p) ==
    /\ apc = "parts" /\ p \notin DOMAIN texts /\ nextrow[p] > Len(rq.rows[p])
    /\ \E text \in xFinal(ctx[p]): texts' = texts @@ (p :> text)
    /\ UNCHANGED <<rq, apc, nextrow, ctx, acc, result>>

\* the rows of the combining query are there when all the parts are; what
\* cannot be combined is the result itself
Collect ==
    /\ apc = "parts" /\ DOMAIN texts = Parts
    /\ IF Combines(rq.kind) THEN apc' = "combine" /\ UNCHANGED result
       ELSE apc' = "done" /\ result' = texts[1]
    /\ UNCHANGED <<rq, nextrow, ctx, texts, acc>>

Combine(p) ==
    /\ apc = "combine" /\ p \in DOMAIN texts
    /\ IF ~Parses(texts[p]) \/ Differs(acc, texts[p]) THEN Fails
       ELSE /\ acc' = xCombine(acc, texts[p])
            /\ texts' = [x \in DOMAIN texts \ {p} |-> texts[x]]
            /\ UNCHANGED <<rq, apc, nextrow, ctx, result>>

CombineFinal ==
    /\ apc = "combine" /\ texts = <<>>
    /\ \E text \in xFinal(acc): result' = text
    /\ apc' = "done"
    /\ UNCHANGED <<rq, nextrow, ctx, texts, acc>>

ANext == Collect \/ CombineFinal \/ \E p \in Parts: Step(p) \/ Final(p) \/ Combine(p)

-----------------------------------------------------------------------------
(***************************************************************************)
(* What a result has to be, said of the rows alone.                        *)
(***************************************************************************)
Cells(p) == {p} \X DOMAIN rq.rows[p]
AllCells == UNION {Cells(p): p \in Parts}
Cell(x) == rq.rows[x[1]][x[2]]
Used == {p \in Parts: rq.rows[p] # <<>>}
Tally(keys, hits) == [k \in {j \in keys: hits[j] > 0} |-> hits[k]]

\* histogram.h: bucket i has the values in [base^i, base^(i + 1))
InBucket(base, v, i) ==
    IF <<base, v>> \in DOMAIN Rounded THEN i = Rounded[<<base, v>>] ELSE base ^ i <= v /\ v < base ^ (i + 1)
LogArgs == rq.args[CHOOSE p \in Used: TRUE]
LogHits(test) == Cardinality({x \in AllCells: test[x]})
LogExpected ==
    LET v == [x \in AllCells |-> AsNumber(Cell(x))]
        base == LogArgs.base
        inside(x, i) == v[x] > 0 /\ InBucket(base, v[x], i)
        hits == [i \in 0..(LogArgs.count - 1) |-> LogHits([x \in AllCells |-> inside(x, i)])]
    IN  [head |-> <<base, LogArgs.count, LogHits([x \in AllCells |-> v[x] = 0]),
                    LogHits([x \in AllCells |-> v[x] > 0 /\ \A i \in DOMAIN hits: ~inside(x, i)])>>,
         buckets |-> Tally(DOMAIN hits, hits)]

ModeExpected ==
    LET modes == {Cell(x) % 512: x \in AllCells}
    IN  [head |-> <<>>,
         buckets |-> [k \in modes |-> Cardinality({x \in AllCells: Cell(x) % 512 = k})]]

\* histogram.h: the buckets are [bucket[i - 1], bucket[i]) intervals
TimeExpected ==
    LET last == Len(TIME_BUCKETS)
        age(x) == rq.args[x[1]].ref - Cell(x)
        in(x, i) == (i > 1 => age(x) >= TIME_BUCKETS[i - 1]) /\ (i < last => age(x) < TIME_BUCKETS[i])
        refs == {rq.args[p].ref: p \in Used}
        at(s) == CHOOSE i \in 1..last: TIME_BUCKETS[i] = s
        hits == [s \in Range(TIME_BUCKETS) |-> Cardinality({x \in AllCells: in(x, at(s))})]
    IN  [head |-> <<Max(refs \cup {0})>>, buckets |-> Tally(DOMAIN hits, hits)]

\* keep_1 decides in every part whether a category that is there once counts
NotNull(cells) == {x \in cells: Cell(x) # Nothing}
CategoryOf(x) == IF rq.kind = "extension" THEN Extension(Cell(x)) ELSE Cell(x)[1]
Times(cells, k) == Cardinality({x \in NotNull(cells): CategoryOf(x) = k})
InPart(p, k) ==
    LET n == Times(Cells(p), k)
    IN  IF n = 1 /\ ~rq.args[p].keep_1 THEN 0 ELSE n
CategoryExpected ==
    LET keys == {CategoryOf(x): x \in NotNull(AllCells)}
        hits == [k \in keys |-> FoldSet(LAMBDA p, n: n + InPart(p, k), 0, Parts)]
    IN  [head |-> <<Cardinality({k \in keys: hits[k] > 0})>>, buckets |-> Tally(keys, hits)]

HistExpected ==
    CASE rq.kind = "log"  -> IF Used = {} THEN [head |-> <<0, 0, 0, 0>>, buckets |-> <<>>] ELSE LogExpected
      [] rq.kind = "mode" -> ModeExpected
      [] rq.kind = "time" -> TimeExpected
      [] OTHER            -> CategoryExpected

\* parts that cannot be put together, and arguments that are refused
Incompatible ==
    \/ rq.kind = "log" /\ \E p, r \in Used: rq.args[p].base < 2 \/ rq.args[p] # rq.args[r]
    \/ rq.kind = "time" /\ \E p, r \in Used: /\ rq.args[p].ref # 0 /\ rq.args[r].ref # 0
                                             /\ rq.args[p].ref # rq.args[r].ref
\* no text was longer than the first allocation
Uncut ==
    \A p \in Parts: \A text \in xFinal(ctx[p]):
        IF rq.kind = "count" THEN \A i \in DOMAIN text: text[i].cut = "no"
        ELSE Combines(rq.kind) => text.cut = "no"
Named == \A p \in Parts, k \in NoName: rq.kind \in {"category", "extension"} => InPart(p, k) = 0

\* the n-th smallest of the values, which are kept as integers
Nth(n) ==
    LET values == {Cell(x) \div 2: x \in AllCells}
    IN  Min({v \in values: Cardinality({x \in AllCells: Cell(x) \div 2 <= v}) >= n})
MedianExpected ==
    LET n == Cardinality(AllCells)
    IN  IF n = 0 THEN Nothing ELSE <<Nth((n + 1) \div 2) + Nth(n \div 2 + 1)>>
Comparable == \A x, y \in AllCells: (Cell(x) \div 2) - (Cell(y) \div 2) < IntMax

\* the variance as the mean of the squared distances of all pairs
VarianceExpected ==
    LET n == Cardinality(AllCells)
        pairs == {x \in AllCells \X AllCells: x[1][2] < x[2][2]}
        squares == FoldSet(LAMBDA x, s: s + (Cell(x[1]) - Cell(x[2])) ^ 2, 0, pairs)
    IN  IF n < 2 THEN Nothing ELSE <<squares, IF rq.kind = "stdevs" THEN n * (n - 1) ELSE n * n>>

\* However the rows are spread over directories and in whatever order the
\* results of the directories are combined, the histogram is that of all the
\* rows, and a query fails only when parts have different arguments or a
\* text was cut or has a category that does not parse (*_hist_combine_step);
\* medians, deviations and the count of a mode are those of the rows.
AggregatesExact ==
    /\ (apc = "done" /\ Combines(rq.kind) /\ Uncut /\ result.cut = "no") =>
          /\ ~Incompatible
          /\ result.head = HistExpected.head
          /\ BucketsOf(result) = HistExpected.buckets
          /\ Len(result.buckets) = Cardinality(DOMAIN HistExpected.buckets)
          /\ (rq.kind \in {"category", "extension"} /\ rq.sort) =>
                \A i \in 2..Len(result.buckets): ByName(result.buckets[i - 1][1], result.buckets[i][1])
    /\ apc = "error" => Incompatible \/ ~Uncut \/ ~Named
    /\ (apc = "done" /\ rq.kind = "median" /\ Comparable) => result = MedianExpected
    /\ (apc = "done" /\ rq.kind \in {"stdevs", "stdevp"}) => result = VarianceExpected
    /\ (apc = "done" /\ rq.kind = "count" /\ result # Nothing /\ Uncut) =>
          LET mode == result[1].buckets[1] IN mode[2] = Times(AllCells, mode[1])

\* mode_count is the value with the highest occurrence, or NULL when there
\* are several (addqueryfuncs.tex, mode_count_final).
ModeIsMostFrequent ==
    (apc = "done" /\ rq.kind = "count" /\ Uncut) =>
        LET all == {CategoryOf(x): x \in NotNull(AllCells)}
            modes == {k \in all: \A j \in all: Times(AllCells, j) <= Times(AllCells, k)}
        IN  IF Cardinality(modes) # 1 THEN result = Nothing
            ELSE \E k \in modes: result # Nothing /\ result[1].buckets = <<<<k, Times(AllCells, k)>>>>

=============================================================================
