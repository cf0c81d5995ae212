--------------------------- MODULE IsolatedVaults ---------------------------
(***************************************************************************)
(* What the distributor promises, without Merkle roots, roles, pauses or   *)
(* clocks: every action owns a vault.  A vault is filled up to its goal,   *)
(* pays out only once it is exactly full, never more than it holds, and is *)
(* emptied in one step when it closes.  All vaults of a coin live in one   *)
(* pool, but no operation on one vault takes from the pool more than it    *)
(* takes from that vault.                                                  *)
(***************************************************************************)
EXTENDS Integers, FiniteSets, Functions

CONSTANTS
  Vaults,
  Coins,
  NoCoin,
  Quantities  \* the amounts a coin comes in

ASSUME VaultAssumption ==
  /\ NoCoin \notin Coins
  /\ Quantities \subseteq Nat
  /\ IsFiniteSet(Vaults)

VARIABLES
  phase,  \* vault -> stage of its life
  coin,   \* vault -> the coin it holds, NoCoin before it opens
  goal,   \* vault -> amount at which it starts paying
  pot,    \* vault -> amount it holds
  pool    \* coin -> amount in the common pool

vaultVars == <<phase, coin, goal, pot, pool>>

Phases == {"idle", "filling", "paying", "spent"}

Init ==
  /\ phase = [v \in Vaults |-> "idle"]
  /\ coin = [v \in Vaults |-> NoCoin]
  /\ goal = [v \in Vaults |-> 0]
  /\ pot = [v \in Vaults |-> 0]
  /\ pool = [c \in Coins |-> 0]

Enter(v, p) == phase' = [phase EXCEPT ![v] = p]

Open(v, c, g) ==
  /\ phase[v] = "idle"
  /\ g > 0
  /\ Enter(v, "filling")
  /\ coin' = [coin EXCEPT ![v] = c]
  /\ goal' = [goal EXCEPT ![v] = g]
  /\ UNCHANGED <<pot, pool>>

Abandon(v) ==
  /\ phase[v] = "idle"
  /\ Enter(v, "spent")
  /\ UNCHANGED <<coin, goal, pot, pool>>

\* The vault starts paying at the very deposit that fills it.
Deposit(v, n) ==
  /\ phase[v] = "filling"
  /\ pot[v] + n <= goal[v]
  /\ pool[coin[v]] + n \in Quantities
  /\ pot' = [pot EXCEPT ![v] = @ + n]
  /\ pool' = [pool EXCEPT ![coin[v]] = @ + n]
  /\ Enter(v, IF pot[v] + n = goal[v] THEN "paying" ELSE "filling")
  /\ UNCHANGED <<coin, goal>>

\* Of the n paid out, back returns to the pool as nobody's money (the payee
\* may be the pool itself).
PayOut(v, n, back) ==
  /\ phase[v] = "paying"
  /\ n <= pot[v]
  /\ pot' = [pot EXCEPT ![v] = @ - n]
  /\ pool' = [pool EXCEPT ![coin[v]] = @ - n + back]
  /\ UNCHANGED <<phase, coin, goal>>

\* Mutant: the goal is returned instead of what was deposited.
CloseAtGoal(v) ==
  /\ phase[v] \in {"filling", "paying"}
  /\ Enter(v, "spent")
  /\ pot' = [pot EXCEPT ![v] = 0]
  /\ pool' = [pool EXCEPT ![coin[v]] = @ - goal[v]]
  /\ UNCHANGED <<coin, goal>>

Close(v) ==
  /\ phase[v] \in {"filling", "paying"}
  /\ Enter(v, "spent")
  /\ pot' = [pot EXCEPT ![v] = 0]
  /\ pool' = [pool EXCEPT ![coin[v]] = @ - pot[v]]
  /\ UNCHANGED <<coin, goal>>

Gift(c, n) ==
  /\ pool[c] + n \in Quantities
  /\ pool' = [pool EXCEPT ![c] = @ + n]
  /\ UNCHANGED <<phase, coin, goal, pot>>

Next ==
  \/ \E v \in Vaults, c \in Coins, g \in Quantities : Open(v, c, g)
  \/ \E v \in Vaults : Abandon(v)
  \/ \E v \in Vaults, n \in Quantities : Deposit(v, n)
  \/ \E v \in Vaults, n \in Quantities : \E back \in 0..n : PayOut(v, n, back)
  \/ \E v \in Vaults : Close(v)
  \/ \E c \in Coins, n \in Quantities : Gift(c, n)

Spec == Init /\ [][Next]_vaultVars

(***************************************************************************)
(* Properties                                                              *)
(***************************************************************************)

VaultTypeOK ==
  /\ phase \in [Vaults -> Phases]
  /\ coin \in [Vaults -> Coins \cup {NoCoin}]
  /\ goal \in [Vaults -> Nat]
  /\ pot \in [Vaults -> Nat]
  /\ pool \in [Coins -> Int]

\* What vault v holds of coin c.
Held(c) == [v \in Vaults |-> IF coin[v] = c THEN pot[v] ELSE 0]

\* The pool covers all the vaults that share it: every vault could be emptied
\* now, in any order.
PoolCoversVaults == \A c \in Coins : SumFunctionOnSet(Held(c), Vaults) <= pool[c]

\* A vault has a coin and a positive goal while it is in use, never holds more
\* than its goal, is not yet full while filling, and holds nothing outside its
\* time of use.
VaultsDisciplined ==
  \A v \in Vaults :
     /\ phase[v] \in {"filling", "paying"} => coin[v] \in Coins /\ pot[v] <= goal[v]
     /\ phase[v] = "filling" => pot[v] < goal[v]
     /\ phase[v] \in {"idle", "spent"} => pot[v] = 0
     /\ phase[v] = "idle" => coin[v] = NoCoin
=============================================================================
