----------------------------- MODULE MCMonitor -----------------------------
(***************************************************************************)
(* Instances of Monitor: one or two actions in one token.                  *)
(***************************************************************************)
EXTENDS Monitor

CONSTANT usdg

OneLeaf == {[index |-> 0, amount |-> 1]}
SameCoin == [id \in Ids |-> usdg]

\* Bound: every call to the contracts is a transaction of its own.
CallsApart == \A n \in DOMAIN chain' : chain'[n].tx = n

MCSpec == Init /\ [][Next /\ CallsApart]_vars /\ Fairness
=============================================================================
