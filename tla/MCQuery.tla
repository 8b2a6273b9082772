------------------------------ MODULE MCQuery ------------------------------
EXTENDS Query

MCThreads == {1, 2}
MCDirs == {"r", "a", "b", "c"}
MCUp == [a |-> "r", b |-> "r", c |-> "a"]

Plain == [shut |-> {}, nodb |-> {}, bare |-> {}, rolled |-> {}, tsum |-> {}, tyes |-> {}, sno |-> {},
          other |-> {}, ext |-> {}, unreadable |-> {}, xattrs |-> {}, skip |-> {}, big |-> {"b"}]
MCIndexes ==
    {Plain,
     [Plain EXCEPT !.rolled = {"a", "c"}, !.sno = {"a", "b"}, !.tsum = {"r", "b"}, !.tyes = {"r"},
                   !.ext = {"a", "c"}, !.unreadable = {<<1, "a">>}, !.xattrs = {"a", "c"}, !.big = {"a", "r"}],
     [Plain EXCEPT !.bare = {"r"}, !.nodb = {"a"}, !.shut = {"b"}, !.sno = {"c"}, !.other = {"c"},
                   !.ext = {"r", "c"}, !.unreadable = {<<0, "c">>}, !.xattrs = {"c"}, !.tsum = {"c"}]}
BadIndexes == {Plain}

Opt == [out |-> "STDOUT", agg |-> FALSE, insert |-> FALSE, I |-> TRUE, J |-> TRUE, G |-> TRUE,
        T |-> FALSE, S |-> TRUE, E |-> TRUE, mode |-> "ROW", badkey |-> "", setstr |-> FALSE,
        min |-> 0, max |-> 9, match |-> FALSE, list |-> {}, matime |-> FALSE, xattrs |-> FALSE,
        ext |-> 0, copy |-> FALSE, compress |-> FALSE, swap |-> FALSE]
\* Queries that SELECT print to stdout or to a file of each thread.
Combinations ==
    {[Opt EXCEPT !.out = x[1], !.agg = x[2], !.insert = x[2] \/ x[1] = "OUTDB", !.mode = x[3],
                 !.T = x[4], !.ext = x[5], !.xattrs = x[5] > 0, !.min = x[6], !.match = x[7]] :
     x \in {"STDOUT", "OUTFILE", "OUTDB"} \X BOOLEAN \X {"ROW", "SE", "TSE"} \X BOOLEAN
            \X {0, 2} \X {0, 1} \X BOOLEAN}
MCOptions ==
    Combinations \cup
    {[Opt EXCEPT !.setstr = TRUE], [Opt EXCEPT !.setstr = TRUE, !.ext = 1, !.T = TRUE],
     [Opt EXCEPT !.T = TRUE, !.max = 1, !.matime = TRUE, !.copy = TRUE],
     [Opt EXCEPT !.ext = 1, !.E = FALSE, !.xattrs = TRUE, !.compress = TRUE, !.swap = TRUE],
     [Opt EXCEPT !.S = FALSE, !.list = {"a", "b"}, !.min = 1, !.max = 2],
     [Opt EXCEPT !.badkey = "S"], [Opt EXCEPT !.badkey = "E"],
     [Opt EXCEPT !.badkey = "T", !.T = TRUE],
     [Opt EXCEPT !.agg = TRUE, !.G = FALSE], [Opt EXCEPT !.out = "OUTDB", !.I = FALSE]}
BadOptions == {[Opt EXCEPT !.swap = TRUE]}

=============================================================================
