---------------------------- MODULE MCAggregates ----------------------------
(***************************************************************************)
(* Aggregates on the rows of up to three directories.                      *)
(***************************************************************************)
EXTENDS Aggregates

Request(kind, rows, args) == [kind |-> kind, rows |-> rows, args |-> args, sort |-> TRUE]
I(n) == [type |-> "int", v |-> n]
Float(n) == [I(n) EXCEPT !.type = "float"]
NoArg == [base |-> 0, count |-> 0, ref |-> 0, keep_1 |-> FALSE, sort |-> FALSE]
Log(base, count) == [NoArg EXCEPT !.base = base, !.count = count]
Ref(t) == [NoArg EXCEPT !.ref = t]
Cat(keep_1, sort) == [NoArg EXCEPT !.keep_1 = keep_1, !.sort = sort]
Row1(names) == [i \in DOMAIN names |-> IF names[i] = "NULL" THEN <<>> ELSE <<names[i]>>]

\* an int has 12 bits here, and a text 40 bytes before it has to grow
MCNames == <<"", "a", "b", "c:d", "no-ext", "tgz", "verylongname">>
MCNameLen == [n \in Range(MCNames) |->
    CASE n = "" -> 0 [] n \in {"a", "b"} -> 1 [] n \in {"c:d", "tgz"} -> 3 [] n = "no-ext" -> 6 [] OTHER -> 20]
MCRounded == <<11, 1331>> :> 2

LogRows == <<<<I(0), I(1), I(5)>>, <<Float(17), Float(-1), [type |-> "text", v |-> 2]>>,
             <<[type |-> "null", v |-> 0], I(2048), I(4097), I(7)>>>>
CatRows == <<Row1(<<"b", "a", "b", "NULL">>), Row1(<<"a", "tgz">>), Row1(<<"b">>)>>
Year == 31536000
MCHistograms ==
    { Request("log", LogRows, <<Log(2, 3), Log(2, 3), Log(2, 3)>>),
      Request("log", <<<<>>, <<I(1331), I(1330)>>, <<>>>>, <<Log(11, 4), Log(11, 4), Log(11, 4)>>),
      Request("log", <<<<>>, <<>>>>, <<Log(2, 3), Log(2, 3)>>),
      Request("log", <<<<I(1)>>, <<>>, <<I(2)>>>>, <<Log(2, 3), Log(9, 9), Log(2, 4)>>),
      Request("log", <<<<I(1)>>, <<I(1)>>>>, <<Log(2, 3), Log(1, 3)>>),
      Request("log", <<<<I(1), I(2), I(4), I(8), I(16), I(32), I(64), I(128), I(256)>>, <<I(3)>>>>,
              <<Log(2, 1000), Log(2, 1000)>>),
      Request("mode", <<<<420, 493>>, <<420, 1005>>, <<>>>>, <<NoArg, NoArg, NoArg>>),
      Request("mode", <<<<0, 1, 2, 3, 4, 5, 6>>, <<7>>>>, <<NoArg, NoArg>>),
      Request("time", <<<<0, Year - 60, Year - 1>>, <<Year, Year + 1>>, <<Year - 59>>>>, <<Ref(Year), Ref(Year), Ref(Year)>>),
      Request("time", <<<<0>>, <<>>, <<5>>>>, <<Ref(630720000), Ref(7), Ref(630720001)>>),
      Request("time", <<<<1>>, <<2>>>>, <<Ref(0), Ref(9)>>),
      Request("category", CatRows, <<Cat(TRUE, FALSE), Cat(TRUE, TRUE), Cat(TRUE, FALSE)>>),
      [Request("category", CatRows, <<Cat(FALSE, FALSE), Cat(FALSE, FALSE), Cat(FALSE, FALSE)>>) EXCEPT !.sort = FALSE],
      Request("category", <<Row1(<<"c:d">>), Row1(<<"c:d", "c:d">>)>>, <<Cat(FALSE, FALSE), Cat(TRUE, FALSE)>>),
      Request("category", <<Row1(<<"">>), <<>>>>, <<Cat(TRUE, FALSE), Cat(TRUE, FALSE)>>),
      Request("category", <<Row1(<<"a", "verylongname", "tgz", "b">>), Row1(<<"a">>)>>, <<Cat(TRUE, FALSE), Cat(TRUE, FALSE)>>),
      Request("extension", <<<<<<"x", ".", "tgz">>, <<"x", ".">>, <<>>, <<"a">>>>, <<<<".", "b">>, <<"v", ".", "a", ".", "tgz">>>>>>,
              <<Cat(TRUE, FALSE), Cat(TRUE, FALSE)>>) }
MCCounts ==
    { Request("count", <<Row1(s)>>, <<Cat(FALSE, FALSE)>>):
        s \in {<<>>, <<"NULL">>, <<"a">>, <<"a", "a", "b">>, <<"b", "a", "tgz">>, <<"a", "b", "b">>} }
MCStatistics ==
    { Request(k, <<s>>, <<NoArg>>): k \in {"stdevs", "stdevp"}, s \in {<<>>, <<4>>, <<3, -1>>, <<1, 1, 7, 2>>} }
    \cup { Request("median", <<s>>, <<NoArg>>):
             s \in {<<>>, <<5>>, <<9, 4>>, <<8, 2, 6>>, <<3, 20, 7, 12>>, <<0, 5000, 2, 4>>} }
MCRequests == MCHistograms \cup MCCounts \cup MCStatistics

=============================================================================
