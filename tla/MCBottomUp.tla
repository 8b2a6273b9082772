----------------------------- MODULE MCBottomUp -----------------------------
(* A tree for BottomUp: r has the subdirectories x and y, x has p and q, and *)
(* p has z.                                                                  *)
EXTENDS BottomUp

CONSTANTS r, x, y, p, q, z

Tree == [d \in Dirs |-> CASE d = r -> {x, y} [] d = x -> {p, q} [] d = p -> {z}
                          [] OTHER -> {}]
=============================================================================
