--------------------------- MODULE MCEntitlements ---------------------------
(***************************************************************************)
(* Every history of at most two transfers between two holders and the zero *)
(* address, including those a scan that starts too late would return, and  *)
(* longer ones over three holders.                                         *)
(***************************************************************************)
EXTENDS Entitlements

T(from, to, value) == [from |-> from, to |-> to, value |-> value]

Pairs == {T(f, t, v) : f \in 0..2, t \in 0..2, v \in {1, 3}}
Long == <<T(0, 3, 5), T(3, 1, 2), T(3, 2, 3), T(2, 2, 1), T(1, 0, 1)>>

MCHistories == BoundedSeq(Pairs, 2) \cup {Long, SubSeq(Long, 1, 3), SubSeq(Long, 2, 5)}
=============================================================================
