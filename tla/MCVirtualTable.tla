--------------------------- MODULE MCVirtualTable ---------------------------
(***************************************************************************)
(* Virtual tables on two index roots.  The lengths are in base 3, so that  *)
(* one digit is not enough for some, and a pipe holds less than a row.     *)
(***************************************************************************)
EXTENDS VirtualTable

\* 0..2 are digits, 3 is a letter, 4 the delimiter, 5 the end of a line
MCTypes ==
    [e |-> <<1, 3>>, s |-> <<3>>, s3 |-> <<5, 1, 4>>, t |-> <<2, 3>>, g |-> <<3>>, f |-> <<3, 2>>]
MCNeedsSetup == {"g"}
MCMalformed == {"bad"}
MCAnswer ==
    [k \in {"r1", "r2"} \X DOMAIN MCTypes |->
        CASE k[2] = "e"  -> IF k[1] = "r1" THEN <<<<<<1, 2>>, <<3, 4, 3, 5>>>>, <<<<>>, <<>>>>>>
                            ELSE <<<<<<3>>, <<3>>>>>>
          [] k[2] = "s"  -> IF k[1] = "r1" THEN <<<<<<3>>>>>> ELSE <<>>
          [] k[2] = "s3" -> <<<<<<>>, <<2>>, <<3, 1>>>>>>
          [] k[2] = "t"  -> IF k[1] = "r1" THEN <<<<<<2, 1>>, <<3>>>>>> ELSE <<>>
          [] k[2] = "g"  -> <<<<<<1>>>>>>
          [] k[2] = "f"  -> <<<<<<3>>, <<1>>>>>>]

MCLines == [two |-> <<3, 4, 1, 5, 4, 2, 4, 4, 3, 3, 4, 3, 5>>, none |-> <<>>]
MCColCounts == [x |-> 1, xyz |-> 3]

A(k, v) == [key |-> k, value |-> v]
Table(args) ==
    [kind |-> "vt", args |-> args, key |-> "", sql |-> "", pos |-> <<>>,
     rows |-> <<>>, early |-> {}, crash |-> FALSE, nofork |-> FALSE,
     scans |-> 2, pipe |-> 4, capacity |-> 20]
FixedTable(key, sql, pos) ==
    [Table(<<>>) EXCEPT !.kind = "fixed", !.key = key, !.sql = sql, !.pos = pos, !.scans = 1]
Command(args, rows) == [Table(args) EXCEPT !.kind = "run", !.rows = rows]
Text(v) == <<"text", v>>

E2 == <<A("E", "s"), A("index", "r2"), A("E", "e"), A("", "r1")>>
SE == <<A("index", "r1"), A("S", "s3"), A("E", "e")>>
MCScenarios ==
    { Table(E2), [Table(SE) EXCEPT !.capacity = 12],
      [Table(<<A("T", "t"), A("S", "s"), A("", "r1")>>) EXCEPT !.crash = TRUE, !.pipe = 15],
      [Table(<<A("E", "s"), A("", "r1"), A("", "r2")>>) EXCEPT !.crash = TRUE, !.nofork = TRUE],
      Table(<<A("E", "e"), A("K", "k"), A("G", "g"), A("setup_res_col_type", "sql"),
              A("threads", "2"), A("remote_cmd", "ssh"), A("remote_arg", "host"), A("", "r2")>>),
      Table(<<A("E", "s"), A("S", "g"), A("", "r1")>>),
      Table(<<A("E", "s"), A("threads", "bad"), A("", "r1")>>),
      Table(<<A("E", "s"), A("verbose", "bad"), A("", "r1")>>),
      Table(<<A("E", "s"), A("what", "is"), A("", "r1")>>),
      Table(<<A("E", "s")>>), Table(<<A("", "r1")>>), Table(<<A("E", "g"), A("", "r1")>>),
      FixedTable("E", "e", <<>>),
      FixedTable("S", "s", <<<<Null>>, <<"2">>>>),
      FixedTable("S", "s", <<<<"r1">>, <<Null>>, <<"0">>, <<"1">>, <<Null>>, <<"bad">>>>),
      Command(<<A("cols", "xyz"), A("cmd", "none"), A("d", ","), A("cmd", "two")>>, <<<<Text(<<3>>), Text(<<1>>), <<"null", <<>>>>>>, <<Text(<<2>>), Text(<<3, 3>>), Text(<<3>>)>>>>),
      Command(<<A("cmd", "none"), A("cols", "x")>>, <<>>), Command(<<A("cmd", "none")>>, <<>>),
      Command(<<A("cmd", "none"), A("cols", "x"), A("b", "y")>>, <<>>) }

\* A fixed table is scanned once: a second scan queries the roots of the
\* first one too.
MCFixed ==
    { FixedTable("E", "e", <<<<"r2", "r1">>, <<"2">>>>),
      [FixedTable("T", "t", <<<<"r1">>, <<Null>>, <<"0">>, <<"1">>, <<Null>>, <<Null>>, <<"ssh">>, <<"host">>>>) EXCEPT !.crash = TRUE] }

\* Scans that end early, or begin again, when all that is left fits into the
\* pipe.
MCEarly ==
    { [Table(<<A("E", "s"), A("", "r1"), A("", "r1")>>) EXCEPT !.early = e, !.pipe = 10] :
        e \in {{"close"}, {"filter"}} }
    \cup { [Command(<<A("cmd", "two"), A("cols", "xyz")>>,
                    <<<<Text(<<3>>), Text(<<1>>), <<"null", <<>>>>>>, <<Text(<<2>>), Text(<<3, 3>>), Text(<<3>>)>>>>)
              EXCEPT !.early = {"close"}] }
MCAll == MCScenarios \cup MCFixed \cup MCEarly
=============================================================================
