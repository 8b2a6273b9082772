----------------------------- MODULE MCTopDown ------------------------------
(* An index of six directories: r has a and b, a has c and d, b has e.  In  *)
(* one assignment of permissions all of it may roll up into r, in the other *)
(* one only the subtrees of a and b may.                                    *)
EXTENDS TopDown

CONSTANTS r, a, b, c, d, e

Tree == r :> <<a, b>> @@ a :> <<c, d>> @@ b :> <<e>> @@ c :> <<>> @@ d :> <<>> @@ e :> <<>>
FileCounts == r :> 1 @@ a :> 0 @@ b :> 2 @@ c :> 1 @@ d :> 1 @@ e :> 0

Mode(uid) == [u |-> RX, g |-> {}, o |-> {}, uid |-> uid, gid |-> 1]
Same == [x \in Dirs |-> Mode(1)]
Assignments == {Same, [Same EXCEPT ![r] = Mode(2)]}

CommandLines == {NoOpt, [NoOpt EXCEPT !.limit = 2], [NoOpt EXCEPT !.dry_run = TRUE]}
=============================================================================
