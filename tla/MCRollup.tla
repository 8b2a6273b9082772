------------------------------ MODULE MCRollup ------------------------------
(* A small index: r has the subdirectories a and b, a has c.  In one        *)
(* assignment of permissions all of them may roll up, although a and b may  *)
(* not roll up into each other; in the other one c may not roll up into a.  *)
EXTENDS Rollup

CONSTANTS r, a, b, c

Tree == r :> <<a, b>> @@ a :> <<c>> @@ b :> <<>> @@ c :> <<>>
FileCounts == r :> 1 @@ a :> 0 @@ b :> 2 @@ c :> 1

Mode(u, o) == [u |-> u, g |-> {}, o |-> o, uid |-> 1, gid |-> 1]
Legal == r :> Mode(RX, RX) @@ a :> Mode(RX, {}) @@ b :> Mode({"r"}, RX) @@ c :> Mode(RX, {})
Assignments == {Legal, [Legal EXCEPT ![c].uid = 2]}

Opt(tool) == [tool |-> tool, limit |-> 0, delete_below |-> 9, min_level |-> 0,
              dont_reprocess |-> FALSE, dry_run |-> FALSE]
CommandLines ==
    {Opt("rollup"), [Opt("rollup") EXCEPT !.limit = 3], [Opt("rollup") EXCEPT !.min_level = 1],
     [Opt("rollup") EXCEPT !.dry_run = TRUE], [Opt("rollup") EXCEPT !.delete_below = 0],
     [Opt("rollup") EXCEPT !.dont_reprocess = TRUE],
     Opt("unrollup"), [Opt("unrollup") EXCEPT !.min_level = 1],
     Opt("treesummary"), Opt("treesummary_all"),
     [Opt("treesummary_all") EXCEPT !.dont_reprocess = TRUE]}
=============================================================================
