------------------------------ MODULE WorkPool ------------------------------
(***************************************************************************)
(* What a pool of worker threads promises its client, with no threads, no  *)
(* queues, no locks and no swap files: work items are accepted, each one   *)
(* is picked up at most once and then finishes, none disappears unless the *)
(* pool has failed, and a wait that ends without a failure has seen all of *)
(* the accepted work finish.  QPTPool is shown to implement it.            *)
(***************************************************************************)
CONSTANT Items

VARIABLES
    status,     \* what has become of every work item
    client,     \* the client is "free", or is "blocked" in a wait
    phase,      \* "configuring" until the first start, "closed" at the end
    failed      \* the pool has stopped on an error or lost its swap

vars == <<status, client, phase, failed>>

Status == {"new", "accepted", "running", "done", "dropped"}

Init ==
    /\ status = [i \in Items |-> "new"]
    /\ client = "free"
    /\ phase = "configuring"
    /\ failed = FALSE

\* a start that fails goes on to wait for the work it has already released
Start ==
    /\ phase # "closed"
    /\ client = "free"
    /\ phase' = "started"
    /\ client' \in {"free", "blocked"}
    /\ UNCHANGED <<status, failed>>

Move(i, from, to) ==
    /\ status[i] = from
    /\ status' = [status EXCEPT ![i] = to]
    /\ UNCHANGED <<client, phase, failed>>

Accept(i) == Move(i, "new", "accepted")
Begin(i)  == Move(i, "accepted", "running")
End(i)    == Move(i, "running", "done")

(***************************************************************************)
(* Accepted work may be given up, any number of items at once, in three    *)
(* cases only: the pool has failed, the client reconfigures a pool that it *)
(* has not started yet, or the client closes the pool.                     *)
(***************************************************************************)
GiveUp ==
    \E I \in SUBSET {i \in Items : status[i] = "accepted"} :
        status' = [i \in Items |-> IF i \in I THEN "dropped" ELSE status[i]]

Drop ==
    /\ failed' \/ phase = "configuring"
    /\ GiveUp
    /\ failed => failed'
    /\ UNCHANGED <<client, phase>>

Close ==
    /\ client = "free"
    /\ phase' = "closed"
    /\ GiveUp
    /\ UNCHANGED <<client, failed>>

Fail ==
    /\ failed' = TRUE
    /\ UNCHANGED <<status, client, phase>>

BeginWait ==
    /\ client = "free"
    /\ client' = "blocked"
    /\ UNCHANGED <<status, phase, failed>>

(***************************************************************************)
(* The one promise a client relies on: when the wait is over, so is the    *)
(* work, all of it, unless the pool has failed.                            *)
(***************************************************************************)
EndWait ==
    /\ client = "blocked"
    /\ failed \/ \A i \in Items : status[i] \in {"new", "done", "dropped"}
    /\ client' = "free"
    /\ UNCHANGED <<status, phase, failed>>

Next ==
    \/ Start
    \/ \E i \in Items : Accept(i) \/ Begin(i) \/ End(i)
    \/ Drop
    \/ Close
    \/ Fail
    \/ BeginWait
    \/ EndWait

Spec == Init /\ [][Next]_vars
=============================================================================
