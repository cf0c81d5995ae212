------------------------ MODULE IsolatedVaultsProofs ------------------------
(***************************************************************************)
(* Proofs that the promise of isolated vaults keeps the common pool        *)
(* solvent, for any finite set of vaults, any coins and any amounts.       *)
(***************************************************************************)
EXTENDS IsolatedVaults, FiniteSums

VaultInv == VaultTypeOK /\ PoolCoversVaults /\ VaultsDisciplined

LEMMA HeldType ==
  ASSUME VaultTypeOK
  PROVE  \A c \in Coins : Held(c) \in [Vaults -> Int]
BY DEF VaultTypeOK, Held

\* When only vault v changes what it holds of c, and the pool of c changes by
\* at least as much, the pool still covers the vaults.
LEMMA CoverageKept ==
  ASSUME VaultTypeOK, VaultTypeOK', NEW v \in Vaults, NEW c \in Coins,
         SumFunctionOnSet(Held(c), Vaults) <= pool[c],
         \A w \in Vaults \ {v} : Held(c)'[w] = Held(c)[w],
         pool'[c] - pool[c] >= Held(c)'[v] - Held(c)[v]
  PROVE  (SumFunctionOnSet(Held(c), Vaults) <= pool[c])'
<1> DEFINE f == Held(c)
           h == Held(c)'
<1>1. f \in [Vaults -> Int] /\ h \in [Vaults -> Int]
  BY DEF VaultTypeOK, Held
<1>2. pool[c] \in Int /\ pool'[c] \in Int
  BY DEF VaultTypeOK
<1> HIDE DEF f, h
<1>3. SumFunctionOnSet(f, Vaults) \in Int
  BY <1>1, SumInt, VaultAssumption
<1>4. SumFunctionOnSet(h, Vaults) = SumFunctionOnSet(f, Vaults) - f[v] + h[v]
  <2>1. \A w \in Vaults \ {v} : h[w] = f[w]
    BY DEF f, h
  <2>2. QED BY <1>1, <2>1, SumUpdate, VaultAssumption
<1>5. f[v] \in Int /\ h[v] \in Int
  BY <1>1
<1>6. pool'[c] - pool[c] >= h[v] - f[v] /\ SumFunctionOnSet(f, Vaults) <= pool[c]
  BY DEF f, h
<1>7. SumFunctionOnSet(h, Vaults) <= pool'[c]
  BY <1>2, <1>3, <1>4, <1>5, <1>6
<1>8. QED BY <1>7 DEF h

\* The initial state satisfies the inductive invariant.
LEMMA VaultInit == Init => VaultInv
<1> SUFFICES ASSUME Init PROVE VaultInv
  OBVIOUS
<1>1. VaultTypeOK
  BY VaultAssumption DEF Init, VaultTypeOK, Phases
<1>2. VaultsDisciplined
  BY DEF Init, VaultsDisciplined
<1>3. ASSUME NEW c \in Coins
      PROVE  SumFunctionOnSet(Held(c), Vaults) <= pool[c]
  <2>1. Held(c) = [v \in Vaults |-> 0] /\ pool[c] = 0
    BY DEF Init, Held
  <2>2. SumFunctionOnSet([v \in Vaults |-> 0], Vaults) = 0
    <3> DEFINE z == [v \in Vaults |-> 0]
    <3>1. z \in [Vaults -> Int]
      OBVIOUS
    <3>2. \A x \in Vaults : z[x] = 0
      OBVIOUS
    <3> HIDE DEF z
    <3>3. QED BY <3>1, <3>2, SumOfZeros, VaultAssumption DEF z
  <2>3. QED BY <2>1, <2>2
<1>4. QED BY <1>1, <1>2, <1>3 DEF VaultInv, PoolCoversVaults

\* Every step keeps the state well typed.
LEMMA VaultTypeStep ==
  ASSUME VaultInv, Next
  PROVE  VaultTypeOK'
<1> USE VaultAssumption DEF VaultInv, VaultTypeOK, Phases, Enter
<1>1. ASSUME NEW v \in Vaults, NEW c \in Coins, NEW g \in Quantities, Open(v, c, g)
      PROVE  VaultTypeOK'
  BY <1>1 DEF Open
<1>2. ASSUME NEW v \in Vaults, Abandon(v) PROVE VaultTypeOK'
  BY <1>2 DEF Abandon
<1>3. ASSUME NEW v \in Vaults, NEW n \in Quantities, Deposit(v, n) PROVE VaultTypeOK'
  BY <1>3 DEF Deposit, VaultsDisciplined
<1>4. ASSUME NEW v \in Vaults, NEW n \in Quantities, NEW back \in 0..n, PayOut(v, n, back)
      PROVE  VaultTypeOK'
  BY <1>4 DEF PayOut, VaultsDisciplined
<1>5. ASSUME NEW v \in Vaults, Close(v) PROVE VaultTypeOK'
  BY <1>5 DEF Close, VaultsDisciplined
<1>6. ASSUME NEW c \in Coins, NEW n \in Quantities, Gift(c, n) PROVE VaultTypeOK'
  BY <1>6 DEF Gift
<1>7. QED BY <1>1, <1>2, <1>3, <1>4, <1>5, <1>6 DEF Next

\* Every step keeps each vault disciplined.
LEMMA VaultDisciplineStep ==
  ASSUME VaultInv, Next
  PROVE  VaultsDisciplined'
<1> USE VaultAssumption DEF VaultInv, VaultTypeOK, VaultsDisciplined, Enter
<1>1. ASSUME NEW v \in Vaults, NEW c \in Coins, NEW g \in Quantities, Open(v, c, g)
      PROVE  VaultsDisciplined'
  BY <1>1 DEF Open
<1>2. ASSUME NEW v \in Vaults, Abandon(v) PROVE VaultsDisciplined'
  BY <1>2 DEF Abandon
<1>3. ASSUME NEW v \in Vaults, NEW n \in Quantities, Deposit(v, n) PROVE VaultsDisciplined'
  BY <1>3 DEF Deposit
<1>4. ASSUME NEW v \in Vaults, NEW n \in Quantities, NEW back \in 0..n, PayOut(v, n, back)
      PROVE  VaultsDisciplined'
  BY <1>4 DEF PayOut
<1>5. ASSUME NEW v \in Vaults, Close(v) PROVE VaultsDisciplined'
  BY <1>5 DEF Close
<1>6. ASSUME NEW c \in Coins, NEW n \in Quantities, Gift(c, n) PROVE VaultsDisciplined'
  BY <1>6 DEF Gift
<1>7. QED BY <1>1, <1>2, <1>3, <1>4, <1>5, <1>6 DEF Next

\* Every step keeps the pool at or above the sum of its vaults.
LEMMA VaultCoverStep ==
  ASSUME VaultInv, Next
  PROVE  PoolCoversVaults'
<1>1. VaultTypeOK /\ VaultTypeOK' /\ VaultsDisciplined
  BY VaultTypeStep DEF VaultInv
<1> SUFFICES ASSUME NEW k \in Coins
             PROVE  (SumFunctionOnSet(Held(k), Vaults) <= pool[k])'
  BY DEF PoolCoversVaults
<1>2. SumFunctionOnSet(Held(k), Vaults) <= pool[k]
  BY DEF VaultInv, PoolCoversVaults
<1>3. ASSUME NEW v \in Vaults,
             \A w \in Vaults \ {v} : Held(k)'[w] = Held(k)[w],
             pool'[k] - pool[k] >= Held(k)'[v] - Held(k)[v]
      PROVE  (SumFunctionOnSet(Held(k), Vaults) <= pool[k])'
  BY <1>1, <1>2, <1>3, CoverageKept
<1> USE <1>1, VaultAssumption DEF VaultTypeOK, Held
<1>4. ASSUME NEW v \in Vaults, NEW c \in Coins, NEW g \in Quantities, Open(v, c, g)
      PROVE  (SumFunctionOnSet(Held(k), Vaults) <= pool[k])'
  <2>1. \A w \in Vaults \ {v} : Held(k)'[w] = Held(k)[w]
    BY <1>4 DEF Open
  <2>2. pool'[k] - pool[k] >= Held(k)'[v] - Held(k)[v]
    BY <1>4 DEF Open, VaultsDisciplined
  <2>3. QED BY <1>3, <2>1, <2>2
<1>5. ASSUME UNCHANGED <<coin, pot>>, pool'[k] >= pool[k]
      PROVE  (SumFunctionOnSet(Held(k), Vaults) <= pool[k])'
  <2>1. Held(k)' = Held(k)
    BY <1>5
  <2>2. SumFunctionOnSet(Held(k), Vaults) \in Int
    BY SumInt, HeldType
  <2>3. pool[k] \in Int /\ pool'[k] \in Int
    OBVIOUS
  <2>4. SumFunctionOnSet(Held(k)', Vaults) <= pool'[k]
    BY <1>2, <1>5, <2>1, <2>2, <2>3
  <2>5. QED BY <2>4
<1>6. ASSUME NEW v \in Vaults, NEW n \in Quantities, Deposit(v, n)
      PROVE  (SumFunctionOnSet(Held(k), Vaults) <= pool[k])'
  <2>1. \A w \in Vaults \ {v} : Held(k)'[w] = Held(k)[w]
    BY <1>6 DEF Deposit
  <2>2. pool'[k] - pool[k] >= Held(k)'[v] - Held(k)[v]
    BY <1>6 DEF Deposit, VaultsDisciplined
  <2>3. QED BY <1>3, <2>1, <2>2
<1>7. ASSUME NEW v \in Vaults, NEW n \in Quantities, NEW back \in 0..n, PayOut(v, n, back)
      PROVE  (SumFunctionOnSet(Held(k), Vaults) <= pool[k])'
  <2>1. \A w \in Vaults \ {v} : Held(k)'[w] = Held(k)[w]
    BY <1>7 DEF PayOut
  <2>2. pool'[k] - pool[k] >= Held(k)'[v] - Held(k)[v]
    BY <1>7 DEF PayOut, VaultsDisciplined
  <2>3. QED BY <1>3, <2>1, <2>2
<1>8. ASSUME NEW v \in Vaults, Close(v)
      PROVE  (SumFunctionOnSet(Held(k), Vaults) <= pool[k])'
  <2>1. \A w \in Vaults \ {v} : Held(k)'[w] = Held(k)[w]
    BY <1>8 DEF Close
  <2>2. pool'[k] - pool[k] >= Held(k)'[v] - Held(k)[v]
    BY <1>8 DEF Close, VaultsDisciplined
  <2>3. QED BY <1>3, <2>1, <2>2
<1>9. ASSUME NEW v \in Vaults, Abandon(v)
      PROVE  (SumFunctionOnSet(Held(k), Vaults) <= pool[k])'
  BY <1>5, <1>9 DEF Abandon
<1>10. ASSUME NEW c \in Coins, NEW n \in Quantities, Gift(c, n)
       PROVE  (SumFunctionOnSet(Held(k), Vaults) <= pool[k])'
  BY <1>5, <1>10 DEF Gift
<1>11. QED BY <1>4, <1>6, <1>7, <1>8, <1>9, <1>10 DEF Next

\* Stuttering changes nothing the invariant reads.
LEMMA VaultStutter ==
  ASSUME VaultInv, UNCHANGED vaultVars
  PROVE  VaultInv'
BY DEF VaultInv, VaultTypeOK, PoolCoversVaults, VaultsDisciplined, Held, vaultVars

\* Isolated vaults never overdraw the pool they share: the pool of every coin
\* always covers the sum of the vaults holding it.
THEOREM VaultsSolvent == Spec => []PoolCoversVaults
<1>1. VaultInv /\ [Next]_vaultVars => VaultInv'
  BY VaultTypeStep, VaultDisciplineStep, VaultCoverStep, VaultStutter DEF VaultInv
<1>2. VaultInv => PoolCoversVaults
  BY DEF VaultInv
<1>3. QED BY VaultInit, <1>1, <1>2, PTL DEF Spec
=============================================================================
