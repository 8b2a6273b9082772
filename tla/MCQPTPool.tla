----------------------------- MODULE MCQPTPool ------------------------------
(* The constants of QPTPool that a .cfg cannot write down.                  *)
EXTENDS QPTPool

CONSTANTS a, b, c, d, e, f

P(limit, num, denom, stop) ==
    [next |-> "round_robin", queue_limit |-> limit,
     num |-> num, denom |-> denom, stop_on_error |-> stop]

\* a enqueues the others, which enqueue nothing
Chain == [i \in Items |-> IF i = a THEN <<b>> ELSE <<>>]
Fan  == [i \in Items |-> IF i = a THEN <<b, c, d, e, f>> ELSE <<>>]
Fan4 == [i \in Items |-> IF i = a THEN <<b, c, d>> ELSE <<>>]
Flat == [i \in Items |-> <<>>]

\* the properties the tools of GUFI use: QPTPool_init, BottomUp (steal 1/2),
\* gufi_query (swap), gufi_dir2index (swap, stop on error)
Plain               == {P(0, 0, 0, FALSE)}
StealingHalf        == {P(0, 1, 2, FALSE)}
Swapping            == {P(1, 0, 0, FALSE)}
AllStealing         == {P(0, 1, 2, FALSE), P(0, 1, 1, FALSE), P(0, 1, 2, TRUE),
                        P(1, 1, 2, FALSE)}
AllLive             == {[P(0, 0, 0, TRUE) EXCEPT !.next = "any"], P(0, 1, 2, FALSE),
                        P(1, 0, 0, FALSE)}

None == {}
Reconfigure ==
    {<<"queue_limit", P(0, 0, 0, FALSE)>>, <<"queue_limit", P(1, 0, 0, FALSE)>>,
     <<"swap_prefix", P(0, 0, 0, FALSE)>>,
     <<"stop_on_error", P(0, 0, 0, TRUE)>>}

NoHere   == [i \in {} |-> 0]
HereZero == [i \in HereItems |-> 0]
=============================================================================
