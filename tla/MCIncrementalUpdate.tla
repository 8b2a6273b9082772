------------------------ MODULE MCIncrementalUpdate -------------------------
(* The constants of IncrementalUpdate that a .cfg cannot write down.        *)
EXTENDS IncrementalUpdate, TLC

CONSTANTS r, a, b

\* two directories at the top, one of which has a directory with a
\* subdirectory; a chain and a sibling
Wide == (<<r>> :> 1) @@ (<<r, a>> :> 2) @@ (<<r, b>> :> 3)
            @@ (<<r, a, a>> :> 4) @@ (<<r, a, a, a>> :> 5)

Trees == {Wide}
=============================================================================
