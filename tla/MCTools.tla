------------------------------ MODULE MCTools -------------------------------
(***************************************************************************)
(* What works around an index, each by itself: gufi_find_outliers on an    *)
(* index with enough siblings for an outlier (there is none among ten or   *)
(* fewer), a scene for one of the tree tools, on two threads; a virtual    *)
(* table; or an aggregate function on the rows of up to three directories. *)
(***************************************************************************)
EXTENDS Outliers, TreeTools, MCVirtualTable, MCAggregates

Cols == DOMAIN setup_column_functions
Level1 == 1..11
Level2 == 21..31
Level3 == 41..51
Eleven(n) == [k \in 1..11 |-> n + k]
Same(n) == [c \in Cols |-> n]

\* dir: the directories that are not empty; t: the values that are not 1
Index(args, all, dir, kind, db, t) ==
    [dir |-> [d \in all |-> IF d \in DOMAIN dir THEN dir[d] ELSE <<>>],
     kind |-> [d \in all |-> IF d \in DOMAIN kind THEN kind[d] ELSE "dir"],
     db |-> [d \in all |-> IF d \in DOMAIN db THEN db[d] ELSE "rows"],
     t |-> [d \in all |-> IF d \in DOMAIN t THEN t[d] ELSE Same(1)],
     s |-> [d \in all |-> Same(d)],
     args |-> args, fault |-> "none"]

None == [x \in {} |-> ""]
\* a chain of two outliers for some columns, one that ends early for others
Chain(args) ==
    Index(args, {0} \cup Level1 \cup Level2, (0 :> Eleven(0)) @@ (11 :> Eleven(20)), None,
          (3 :> "empty"),
          (11 :> [Same(9) EXCEPT !.totmtime = -40]) @@ (31 :> [Same(1) EXCEPT !.minsize = -7, !.totmtime = -90]))
\* directories without databases, with broken ones, and other entries; below
\* an outlier that is reported a directory without a database is still walked
Holes(args, kid) ==
    Index(args, {0, 12} \cup Level1 \cup {21, 22, 23, 24, 25, 26} \cup Level3,
          (0 :> Eleven(0) \o <<12>>) @@ (11 :> <<21, 22, 23, 24, 25>>) @@ (kid :> Eleven(40)),
          (23 :> "file") @@ (24 :> "named") @@ (22 :> "link"),
          (21 :> "none") @@ (25 :> "error") @@ (2 :> "error") @@ (41 :> "empty") @@ (1 :> "rows"),
          [d \in {11, 2, 51} |-> Same(50)])
Few(args) ==
    Index(args, 0..6, (0 :> <<1, 2, 3>>) @@ (3 :> <<4>>) @@ (4 :> <<5, 6>>), None,
          (5 :> "none"), (2 :> Same(70)))

MCIndexes ==
    { Chain(<<0, "maxsize", 0, "minsize">>), Chain(<<0, "MINMAXS">>), Few(<<6, "ALL">>), Chain(<<11, "TIMES", 0, "totmtime", 0, "totmtime">>),
      Holes(<<0, "maxsize">>, 21), Holes(<<0, "totsubdirs">>, 22), Holes(<<21, "totsize", 0, "MINS">>, 21),
      Few(<<0, "T_ONLYS", 99, "totsize", 0, "nothing">>), Few(<<4, "MAXS", 3, "TOTS">>),
      Few(<<0, "totsize", 0>>), [Few(<<0, "totsize">>) EXCEPT !.fault = "start"] }

-----------------------------------------------------------------------------
Src(kind) == [kind |-> kind, ok |-> TRUE, mode |-> {"r", "w"}, own |-> "me", data |-> "contents",
              xattr |-> {"user.a"}, time |-> "past", db |-> TRUE, perm |-> {"r", "w"}, to |-> "none"]
D == Src("d")
F == Src("f")
L == [Src("l") EXCEPT !.data = "target", !.mode = {}, !.xattr = {}]

S == <<"s">>
Tree ==
    (S :> D) @@ (<<"s", "a">> :> D) @@ (<<"s", "b">> :> [D EXCEPT !.own = "you"])
    @@ (<<"s", "f">> :> F) @@ (<<"s", "l">> :> L) @@ (<<"s", "o">> :> Src("o"))
    @@ (<<"s", "a", "g">> :> [F EXCEPT !.mode = {"r"}, !.own = "you"])
    @@ (<<"s", "b", "h">> :> [F EXCEPT !.mode = {"r", "w", "g"}]) @@ (<<"s", "a", "c">> :> D)
Other == (<<"x">> :> D) @@ (<<"x", "y">> :> F)

Scene(tool, src, args) ==
    [tool |-> tool, src |-> src, args |-> args, dst |-> None, at |-> <<"to">>, root |-> TRUE,
     umask |-> {"g"}, xattrs |-> TRUE, full |-> {}, start |-> TRUE, min |-> 0, max |-> 9,
     types |-> {}, format |-> <<"%p">>, nogroup |-> {}]

ReadOnly == [Tree EXCEPT ![<<"s", "a">>].mode = {"r"}, ![<<"s", "a">>].perm = {"r"}]
Unread == [Tree EXCEPT ![<<"s", "a">>].ok = FALSE, ![<<"s", "b">>].db = FALSE]
Taken == (<<>> :> Entry("d", {"r", "w"})) @@ (<<"s">> :> Entry("d", {"r", "w"}))
         @@ (<<"s", "f">> :> [Entry("f", {"r"}) EXCEPT !.data = "old"])
         @@ (<<"s", "l">> :> [Entry("f", {"r"}) EXCEPT !.data = "old"])
         @@ (<<"s", "a">> :> Entry("f", {"r"}))

Copies(tool) ==
    { Scene(tool, Tree, <<S>>), [Scene(tool, Tree, <<S>>) EXCEPT !.root = FALSE],
      [Scene(tool, ReadOnly, <<S>>) EXCEPT !.root = FALSE],
      Scene(tool, Unread, <<S>>),
      [Scene(tool, Tree, <<S>>) EXCEPT !.dst = Taken, !.root = FALSE],
      [Scene(tool, Tree, <<S>>) EXCEPT !.dst = Taken, !.xattrs = FALSE],
      [Scene(tool, Tree, <<<<"s", "f">>>>) EXCEPT !.start = FALSE],
      [Scene(tool, Tree, <<S>>) EXCEPT !.start = FALSE],
      [Scene(tool, Tree, <<<<"s", "a">>>>) EXCEPT !.dst = (<<>> :> Entry("f", {"r"}))] }

MCScenes ==
    Copies("cpr") \cup Copies("index2dir")
    \cup { Scene("cpr", Tree @@ Other, <<<<"s", "a">>, <<"x">>, <<"s", "l">>, <<"s", "f">>, <<"s", "o">>, <<"z">>>>),
           [Scene("cpr", Tree, <<S>>) EXCEPT !.full = {<<"s", "b", "h">>}],
           [Scene("cpr", Tree @@ Other, <<S, <<"x">>>>) EXCEPT !.at = <<"s", "to">>],
           [Scene("cpr", Tree @@ Other, <<<<"x">>, S>>) EXCEPT !.at = <<"x">>],
           Scene("find", Tree, <<S>>), Scene("find", Unread, <<S, <<"s", "a">>, <<"q">>>>),
           [Scene("find", Tree, <<S, <<"s", "f">>>>) EXCEPT !.types = {"f", "l"}, !.min = 1],
           [Scene("find", Tree, <<S, <<"s", "b">>>>) EXCEPT !.types = {"d"}, !.max = 1],
           [Scene("find", Tree, <<S, <<"s", "f">>>>) EXCEPT !.max = 0],
           [Scene("find", Tree @@ (<<"k">> :> [L EXCEPT !.to = "d"]) @@ (<<"k", "f">> :> F), <<<<"k">>, <<"s", "l">>, S>>)
              EXCEPT !.format = <<"%p", "%d", "%g", "\\0", "%y", "\\n", "\\c", "%g">>, !.nogroup = {<<"s", "f">>}],
           [Scene("find", Tree, <<S>>) EXCEPT !.start = FALSE] }

-----------------------------------------------------------------------------
NoIndex == Few(<<>>)
NoScene == Scene("find", Other, <<>>)
NoTable == Table(<<>>)
NoRequest == Request("mode", <<>>, <<>>)

OOff == /\ ix = NoIndex /\ opc = "off" /\ pair = 1 /\ owork = EmptyBag
        /\ othr = [h \in Threads |-> Idle] /\ dbs = [h \in Threads |-> EmptyBag]
        /\ opened = [h \in Threads |-> 0] /\ results = EmptyBag /\ rows = 0
TOff == /\ sc = NoScene /\ mpc = "off" /\ arg = 1 /\ twork = EmptyBag
        /\ tthr = [t \in Workers |-> Free] /\ dst = None /\ failed = 0 /\ rc = 0
        /\ obuf = [t \in Workers |-> <<>>] /\ printed = <<>>
VOff == /\ vt = NoTable /\ pc = "off" /\ cmd = NoCmd /\ scans = 0 /\ procs = <<>>
        /\ cur = NoCursor /\ rd = BadRow /\ got = <<>>
AOff == /\ rq = NoRequest /\ apc = "off" /\ nextrow = <<>> /\ ctx = <<>> /\ texts = <<>>
        /\ acc = Zeroed /\ result = Nothing

Init == \/ OInit /\ TOff /\ VOff /\ AOff
        \/ TInit /\ OOff /\ VOff /\ AOff
        \/ VInit /\ OOff /\ TOff /\ AOff
        \/ AInit /\ OOff /\ TOff /\ VOff

Next == \/ ONext /\ UNCHANGED <<tvars, vvars, avars>>
        \/ TNext /\ UNCHANGED <<ovars, vvars, avars>>
        \/ VNext /\ UNCHANGED <<ovars, tvars, avars>>
        \/ ANext /\ UNCHANGED <<ovars, tvars, vvars>>

Spec == Init /\ [][Next]_<<ovars, tvars, vvars, avars>> /\ Fairness

=============================================================================
