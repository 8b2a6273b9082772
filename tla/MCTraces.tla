------------------------------ MODULE MCTraces ------------------------------
EXTENDS Traces

MCDirs == {"r", "a", "b", "c"}
St(u, g, m) == [uid |-> u, gid |-> g, mode |-> m]
File(name, size, st, xattrs, ext) ==
    [name |-> name, type |-> "f", st |-> st, size |-> size, xattrs |-> xattrs, ext |-> ext]
Other(name, type) == [File(name, 0, St(1, 1, {}), 0, <<>>) EXCEPT !.type = type]

MCListing ==
    [r |-> <<File("f1", 3, St(1, 1, {"ur"}), 1, <<>>), Other("a", "d"), Other("s", "d"),
             Other("b", "d"), Other("l1", "l")>>,
     a |-> <<Other("c", "d"), File("x", 1, St(1, 1, {"ur"}), 0, <<"e1">>)>>,
     b |-> <<File("f3", 4, St(2, 1, {"ur", "gr"}), 1, <<>>), File("f4", 2, St(2, 1, {"ur"}), 2, <<>>),
             Other("p", "o"), File("f5", 5, St(3, 1, {"gr"}), 1, <<>>)>>,
     c |-> <<>>]
MCStat == [d \in MCDirs |-> St(1, 2, {"ur", "uw", "gr"})]
MCAction == [d \in MCDirs |-> IF d = "c" THEN "no_process" ELSE "process"]

Opt(tool, w, n) ==
    [tool |-> tool, roots |-> {}, min |-> 0, max |-> 9, limit |-> 0, xattrs |-> TRUE, ext |-> TRUE,
     asroot |-> TRUE, out |-> "files", w |-> w, n |-> n, faults |-> 0]
Build == [Opt("dir2index", 1, 1) EXCEPT !.faults = 1]
MCOptions ==
    {Build, [Build EXCEPT !.limit = 1],
     [Build EXCEPT !.min = 1, !.max = 1, !.asroot = FALSE],
     [Build EXCEPT !.roots = {"b", "c"}, !.min = 1, !.xattrs = FALSE],
     Opt("trace2index", 2, 2), Opt("trace2index", 1, 3),
     [Opt("trace2index", 1, 1) EXCEPT !.faults = 1],
     [Opt("trace2index", 1, 2) EXCEPT !.asroot = FALSE],
     [Opt("trace2index", 2, 2) EXCEPT !.out = "stdout", !.ext = FALSE, !.limit = 1, !.max = 1],
     [Opt("trace2dir", 1, 2) EXCEPT !.limit = 1, !.faults = 1],
     [Opt("trace2dir", 2, 3) EXCEPT !.min = 1]}
MCLineLengths == {[d |-> 2, f |-> 1, l |-> 3, e |-> 1, bad |-> 1]}

=============================================================================
