------------------------- MODULE DistributorProofs -------------------------
(***************************************************************************)
(* Proofs about the distributor composed with the registry and the payout  *)
(* tokens, for any accounts, tokens, fees, roots, amounts and number of    *)
(* actions: types and books; the refinement of isolated vaults and the     *)
(* solvency that follows from it; what holders and readers rely on.        *)
(***************************************************************************)
EXTENDS DividendDistributor, RegistryProofs, FiniteSums

(***************************************************************************)
(* Payout tokens                                                           *)
(***************************************************************************)

\* A transfer fee is part of the amount transferred.
LEMMA FeeBounds ==
  ASSUME NEW t \in Tokens, NEW amount \in Nat
  PROVE  Fee(t, amount) \in 0..amount
<1> DEFINE b == FeeBps[t]
<1>1. b \in 0..10000
  BY DistributorAssumption
<1> HIDE DEF b
<1>2. amount * b \in Nat /\ amount * b <= amount * 10000
  BY <1>1
<1> DEFINE p == amount * b
<1> HIDE DEF p
<1>3. p \in Nat /\ p <= amount * 10000 => p \div 10000 \in 0..amount
  OBVIOUS
<1>4. p \div 10000 \in 0..amount
  BY <1>2, <1>3 DEF p
<1>5. QED BY <1>4 DEF Fee, b, p

BalanceType == [Tokens -> [Addresses \cup {Sink} -> Uint]]

\* What a transfer does to the pooled balance, and that it keeps balances
\* within a uint256.
LEMMA TransferEffect ==
  ASSUME balance \in BalanceType, NEW t \in Tokens, NEW from \in Addresses,
         NEW to \in Addresses, NEW amount \in Uint, Transfer(t, from, to, amount)
  PROVE  /\ balance' \in BalanceType
         /\ \A u \in Tokens \ {t} : balance'[u] = balance[u]
         /\ from # Distributor /\ to = Distributor =>
              balance'[t][Distributor] = balance[t][Distributor] + Received(t, amount)
         /\ from = Distributor /\ to # Distributor =>
              balance'[t][Distributor] = balance[t][Distributor] - amount
         /\ from = Distributor /\ to = Distributor =>
              balance'[t][Distributor] = balance[t][Distributor] - Fee(t, amount)
<1> DEFINE A == Addresses \cup {Sink}
           fee == Fee(t, amount)
           row == balance[t]
           row2 == Moved(t, from, to, amount)[t]
<1>1. amount \in Nat /\ MaxUint \in Nat
  BY RegistryAssumption DEF Uint
<1>2. fee \in Int
  BY <1>1, FeeBounds
<1>3. row \in [A -> Uint] /\ Sink \notin Addresses
  <2>1. row \in [A -> Uint]
    BY DEF BalanceType
  <2>2. Sink \notin Addresses
    BY DistributorAssumption
  <2>3. QED BY <2>1, <2>2
<1>4. balance' = Moved(t, from, to, amount) /\ row[from] >= amount
  BY DEF Transfer
<1>5. row2[to] \in Uint /\ row2[Sink] \in Uint
  BY DEF Transfer
<1>6. /\ balance' = [balance EXCEPT ![t] = row2]
      /\ row2 = [[[row EXCEPT ![from] = @ - amount] EXCEPT ![to] = @ + (amount - fee)]
                   EXCEPT ![Sink] = @ + fee]
  BY <1>4 DEF Moved, BalanceType
<1> HIDE DEF row2, fee, row
<1>7. \A a \in A : row[a] \in Int
  BY <1>3, RegistryAssumption DEF Uint
<1>8. \A a \in A :
        row2[a] = row[a] - (IF a = from THEN amount ELSE 0)
                         + (IF a = to THEN amount - fee ELSE 0)
                         + (IF a = Sink THEN fee ELSE 0)
  BY <1>1, <1>2, <1>3, <1>6, <1>7
<1>9. row2 \in [A -> Uint]
  <2>1. row2 = [a \in A |-> row2[a]]
    BY <1>3, <1>6
  <2>2. ASSUME NEW a \in A PROVE row2[a] \in Uint
    <3>1. CASE a \in {to, Sink}
      BY <1>5, <3>1
    <3>2. CASE a \notin {to, Sink}
      BY <1>1, <1>3, <1>4, <1>8, <3>2 DEF Uint, row
    <3>3. QED BY <3>1, <3>2
  <2>3. QED BY <2>1, <2>2
<1>10. balance' \in BalanceType
  BY <1>6, <1>9 DEF BalanceType
<1>11. \A u \in Tokens \ {t} : balance'[u] = balance[u]
  BY <1>6 DEF BalanceType
<1>12. balance'[t] = row2
  BY <1>6 DEF BalanceType
<1>13. Distributor \in A /\ Distributor # Sink
  BY <1>3 DEF Addresses
<1>14. row[Distributor] \in Int /\ amount - fee = Received(t, amount)
  BY <1>7, <1>13 DEF Received, fee
<1>15. QED
  BY <1>1, <1>2, <1>8, <1>10, <1>11, <1>12, <1>13, <1>14 DEF row, fee

(***************************************************************************)
(* The composed system runs the registry: every one of its steps is a      *)
(* registry step or leaves the registry alone.                             *)
(***************************************************************************)

LEMMA SettlementIsRegistryStep ==
  ASSUME SettlementStep
  PROVE  [DistributorStep]_registryVars
<1>1. Distributor \in Distributors
  BY DistributorAssumption
<1>2. ASSUME NEW caller \in Accounts, NEW id \in ActionIds, NEW amount \in Amounts,
             Fund(caller, id, amount)
      PROVE  [DistributorStep]_registryVars
  BY <1>1, <1>2 DEF Fund, DistributorStep
<1>3. ASSUME NEW leaf \in Leaves, Claim(leaf)
      PROVE  [DistributorStep]_registryVars
  BY <1>3 DEF Claim
<1>4. ASSUME NEW caller \in Accounts, NEW id \in ActionIds, SweepUnclaimed(caller, id)
      PROVE  [DistributorStep]_registryVars
  BY <1>1, <1>4 DEF SweepUnclaimed, DistributorStep
<1>5. ASSUME NEW caller \in Accounts, NEW id \in ActionIds, CancelPublishedAction(caller, id)
      PROVE  [DistributorStep]_registryVars
  BY <1>1, <1>5 DEF CancelPublishedAction, DistributorStep
<1>6. ASSUME NEW paused \in BOOLEAN, SetDistributorPaused(paused)
      PROVE  [DistributorStep]_registryVars
  BY <1>6 DEF SetDistributorPaused
<1>7. QED BY <1>2, <1>3, <1>4, <1>5, <1>6 DEF SettlementStep

LEMMA NextIsRegistryStep ==
  ASSUME [Next]_vars
  PROVE  [RegistryNext]_registryVars
<1>1. CASE SettlementStep
  BY <1>1, SettlementIsRegistryStep DEF RegistryNext
<1>2. CASE IssuerStep \/ GovernanceStep \/ Tick
  BY <1>2 DEF RegistryNext, Tick
<1>3. CASE TokenStep \/ UNCHANGED vars
  BY <1>3 DEF TokenStep, StrayTransfer, vars
<1>4. QED BY <1>1, <1>2, <1>3 DEF Next

\* The distributor adds no behaviour to the registry: what holds of the
\* registry driven by any DISTRIBUTOR_ROLE holder holds of the pair.
THEOREM ImplementsRegistry == Spec => RegistrySpec
<1>1. Init => RegistryInit
  BY DEF Init
<1>2. [Next]_vars => [RegistryNext]_registryVars
  BY NextIsRegistryStep
<1>3. QED BY <1>1, <1>2, PTL DEF Spec, RegistrySpec

(***************************************************************************)
(* The inductive invariant                                                 *)
(***************************************************************************)

\* announceAction's check on payoutToken, which no later call repeats: the
\* token of an existing dividend is a token.
CashHasToken == \A id \in ActionIds : Exists(id) /\ IsCash(id) => TokenOf(id) \in Tokens

MoneyTypeOK ==
  /\ claimed \in [ActionIds -> SUBSET Indices]
  /\ funded \in [ActionIds -> Uint]
  /\ claimedTotal \in [ActionIds -> Uint]
  /\ distPaused \in BOOLEAN
  /\ balance \in BalanceType
  /\ now \in 0..MaxTime

\* One action's part of BooksMatchStatus.
Books(id) ==
  LET a == actions[id]
  IN  /\ claimedTotal[id] <= funded[id]
      /\ a.status = "ROOT_PUBLISHED" => funded[id] < a.totalPayout
      /\ a.status \in {"CLAIMABLE", "FINALIZED"} => funded[id] = a.totalPayout
      /\ a.status \in {"ANNOUNCED", "CANCELLED"} => funded[id] = 0
      /\ a.status \notin {"CLAIMABLE", "FINALIZED"} => claimed[id] = {} /\ claimedTotal[id] = 0

DistInv ==
  /\ RegistryInv
  /\ CashHasToken
  /\ MoneyTypeOK
  /\ \A id \in ActionIds : Books(id)

LEMMA DistInvImplies == DistInv => TypeOK /\ BooksMatchStatus
BY DEF DistInv, RegistryInv, MoneyTypeOK, BalanceType, TypeOK, Books, BooksMatchStatus

LEMMA InitDistInv == Init => DistInv
<1> SUFFICES ASSUME Init PROVE DistInv
  OBVIOUS
<1>1. RegistryInv
  BY RegistryInitInv DEF Init
<1>2. CashHasToken
  BY DEF Init, RegistryInit, CashHasToken, Exists, ZeroAction
<1>3. MoneyTypeOK
  <2>1. 0 \in Uint /\ 0 \in 0..MaxTime
    BY RegistryAssumption, DistributorAssumption DEF Uint
  <2>2. balance \in BalanceType
    <3>1. balance = InitialBalance
      BY DEF Init
    <3>2. InitialBalance \in [Tokens -> [Addresses \cup {Sink} -> Uint]]
      BY BalanceAssumption
    <3>3. QED BY <3>1, <3>2 DEF BalanceType
  <2>3. QED BY <2>1, <2>2 DEF Init, MoneyTypeOK
<1>4. ASSUME NEW id \in ActionIds PROVE Books(id)
  BY <1>4 DEF Init, RegistryInit, Books, ZeroAction
<1>5. QED BY <1>1, <1>2, <1>3, <1>4 DEF DistInv

\* The registry's part is kept because every step is a registry step.
LEMMA RegistryPartKeeps ==
  ASSUME DistInv, [Next]_vars
  PROVE  RegistryInv' /\ CashHasToken'
<1>1. RegistryInv /\ [RegistryNext]_registryVars
  BY NextIsRegistryStep DEF DistInv
<1>2. RegistryInv'
  BY <1>1, RegistryStepKeeps
<1>3. ASSUME NEW k \in ActionIds, actions'[k].id # 0,
             actions'[k].actionType = "CASH_DIVIDEND"
      PROVE  actions'[k].payoutToken \in Tokens
  <2>1. CASE Exists(k)
    BY <1>1, <1>3, <2>1, StepForward
       DEF DistInv, CashHasToken, Forward, Terms, IsCash, TokenOf
  <2>2. CASE ~Exists(k)
    <3>1. PICK caller \in Accounts, args \in Announcements : AnnounceAction(caller, args)
      BY <1>1, <1>3, <2>2
         DEF RegistryNext, IssuerStep, GovernanceStep, DistributorStep, NextBlock, registryVars,
             SetAssetIssuer, GrantDistributor, RevokeDistributor, SetRegistryPaused,
             PublishRoot, CancelAction, MarkClaimable, MarkFinalized, MarkCancelled,
             DistributorCall, SetStatus, Exists, RegistryInv, RegistryTypeOK, CorporateAction
    <3>2. actions' = [actions EXCEPT ![actionCount + 1] = Recorded(actionCount + 1, args)]
      BY <3>1 DEF AnnounceAction
    <3>3. actions'[k] = Recorded(k, args)
      BY <1>1, <1>3, <2>2, <3>2 DEF Exists, RegistryInv, RegistryTypeOK
    <3>4. args \in AnnouncementArgs /\ WellFormed(args)
      BY <3>1, RegistryAssumption DEF AnnounceAction
    <3>5. QED BY <1>3, <3>3, <3>4 DEF Recorded, WellFormed, AnnouncementArgs
  <2>3. QED BY <2>1, <2>2
<1>4. QED BY <1>2, <1>3 DEF CashHasToken, Exists, IsCash, TokenOf

\* The money's part, one lemma per kind of step.  Steps of the issuer and of
\* governance touch no accounting; only an action without deposits changes
\* status in them.
LEMMA IssuerKeepsMoney ==
  ASSUME DistInv, IssuerStep, UNCHANGED distVars
  PROVE  MoneyTypeOK' /\ \A k \in ActionIds : Books(k)'
<1>1. MoneyTypeOK'
  BY DEF DistInv, MoneyTypeOK, distVars
<1>2. /\ \A k \in ActionIds : Books(k)
      /\ actions \in [ActionIds -> CorporateAction]
      /\ actionCount + 1 \in ActionIds => actions[actionCount + 1].status = "ANNOUNCED"
      /\ UNCHANGED <<claimed, funded, claimedTotal>>
  <2>1. actionCount + 1 \in ActionIds => actions[actionCount + 1] = ZeroAction
    BY DEF DistInv, RegistryInv, RegistryTypeOK, IdsDense
  <2>2. ZeroAction.status = "ANNOUNCED"
    BY DEF ZeroAction
  <2>3. actions \in [ActionIds -> CorporateAction]
    BY DEF DistInv, RegistryInv, RegistryTypeOK
  <2>4. QED
    BY <2>1, <2>2, <2>3 DEF DistInv, distVars
<1>3. ASSUME NEW k \in ActionIds, actions'[k] = actions[k]
      PROVE  Books(k)'
  BY <1>2, <1>3 DEF Books
<1>4. ASSUME NEW k \in ActionIds, actions[k].status = "ANNOUNCED",
             actions'[k].status \in {"ANNOUNCED", "CANCELLED", "ROOT_PUBLISHED"},
             actions'[k].status = "ROOT_PUBLISHED" => actions'[k].totalPayout > 0
      PROVE  Books(k)'
  BY <1>2, <1>4 DEF Books
<1>5. ASSUME NEW caller \in Accounts, NEW args \in Announcements, AnnounceAction(caller, args),
             NEW k \in ActionIds
      PROVE  Books(k)'
  <2> DEFINE n == actionCount + 1
  <2>1. actions' = [actions EXCEPT ![n] = Recorded(n, args)]
    BY <1>5 DEF AnnounceAction
  <2>2. k # n => actions'[k] = actions[k]
    BY <1>2, <2>1
  <2>3. k = n => actions'[k].status = "ANNOUNCED"
    BY <1>2, <2>1 DEF Recorded
  <2>4. QED BY <1>2, <1>3, <1>4, <2>2, <2>3
<1>6. ASSUME NEW caller \in Accounts, NEW id \in ActionIds, NEW root \in Roots \cup {NoRoot},
             NEW total \in Payouts, PublishRoot(caller, id, root, total), NEW k \in ActionIds
      PROVE  Books(k)'
  <2>1. actions[id].status = "ANNOUNCED" /\ total > 0
    BY <1>6, RegistryAssumption DEF PublishRoot, Is, Uint
  <2>2. k = id => actions'[k].status = "ROOT_PUBLISHED" /\ actions'[k].totalPayout = total
    BY <1>2, <1>6 DEF PublishRoot, CorporateAction
  <2>3. k # id => actions'[k] = actions[k]
    BY <1>2, <1>6 DEF PublishRoot
  <2>4. QED BY <1>3, <1>4, <2>1, <2>2, <2>3
<1>7. ASSUME NEW caller \in Accounts, NEW id \in ActionIds, CancelAction(caller, id),
             NEW k \in ActionIds
      PROVE  Books(k)'
  <2>1. actions[id].status = "ANNOUNCED"
    BY <1>7 DEF CancelAction, SetStatus, Is
  <2>2. k = id => actions'[k].status = "CANCELLED"
    BY <1>2, <1>7 DEF CancelAction, SetStatus, CorporateAction
  <2>3. k # id => actions'[k] = actions[k]
    BY <1>2, <1>7 DEF CancelAction, SetStatus
  <2>4. QED BY <1>3, <1>4, <2>1, <2>2, <2>3
<1>8. QED BY <1>1, <1>5, <1>6, <1>7 DEF IssuerStep

\* What a distributor call does to the record: a new status, nothing else.
LEMMA CallEffect ==
  ASSUME RegistryInv, NEW caller, NEW id \in ActionIds, NEW from, NEW to \in Statuses,
         DistributorCall(caller, id, from, to)
  PROVE  /\ actions[id].status = from
         /\ actions'[id].status = to
         /\ Terms(actions'[id]) = Terms(actions[id])
         /\ RootTerms(actions'[id]) = RootTerms(actions[id])
         /\ \A k \in ActionIds : k # id => actions'[k] = actions[k]
<1>1. actions \in [ActionIds -> CorporateAction]
  BY DEF RegistryInv, RegistryTypeOK
<1>2. QED BY <1>1 DEF DistributorCall, SetStatus, Is, CorporateAction, Terms, RootTerms

\* The facts about an action that the settlement steps work on.
LEMMA DividendFacts ==
  ASSUME DistInv, NEW id \in ActionIds, NEW status, Dividend(id, status)
  PROVE  /\ TokenOf(id) \in Tokens
         /\ actions[id].status = status
         /\ actions[id].totalPayout \in Nat
         /\ funded[id] \in Nat
         /\ claimedTotal[id] \in Nat
         /\ funded[id] - claimedTotal[id] \in Uint
         /\ Books(id)
<1>1. TokenOf(id) \in Tokens /\ actions[id].status = status /\ Books(id)
  BY DEF DistInv, CashHasToken, Dividend, Is
<1>2. actions[id].totalPayout \in Uint
  BY DEF DistInv, RegistryInv, RegistryTypeOK, CorporateAction
<1>3. funded[id] \in Uint /\ claimedTotal[id] \in Uint
  BY DEF DistInv, MoneyTypeOK
<1>4. claimedTotal[id] <= funded[id]
  BY <1>1 DEF Books
<1>5. QED BY <1>1, <1>2, <1>3, <1>4, RegistryAssumption DEF Uint

LEMMA FundKeepsMoney ==
  ASSUME DistInv, NEW caller \in Accounts, NEW id \in ActionIds, NEW amount \in Amounts,
         Fund(caller, id, amount)
  PROVE  MoneyTypeOK' /\ \A k \in ActionIds : Books(k)'
<1> DEFINE t == TokenOf(id)
           newFunded == funded[id] + Received(t, amount)
           total == actions[id].totalPayout
<1>1. /\ t \in Tokens
      /\ actions[id].status = "ROOT_PUBLISHED"
      /\ total \in Uint
      /\ funded[id] \in Nat
      /\ claimed[id] = {} /\ claimedTotal[id] = 0
  <2>1. Dividend(id, "ROOT_PUBLISHED")
    BY DEF Fund
  <2>2. total \in Uint
    BY DEF DistInv, RegistryInv, RegistryTypeOK, CorporateAction
  <2>3. QED BY <2>1, <2>2, DividendFacts DEF Books
<1>2. amount \in Uint /\ amount \in Nat /\ caller \in Addresses /\ Distributor \in Addresses
  BY RegistryAssumption, DistributorAssumption DEF Addresses, Uint
<1>3. Received(t, amount) \in Nat
  BY <1>1, <1>2, FeeBounds DEF Received
<1>4. balance' \in BalanceType
  BY <1>1, <1>2, TransferEffect DEF Fund, DistInv, MoneyTypeOK
<1> HIDE DEF t
<1>5. /\ newFunded <= total
      /\ funded' = [funded EXCEPT ![id] = newFunded]
      /\ UNCHANGED <<claimed, claimedTotal, distPaused, now>>
  BY DEF Fund, t
<1>6. newFunded \in Uint
  BY <1>1, <1>3, <1>5, RegistryAssumption DEF Uint
<1>7. \/ newFunded = total /\ DistributorCall(Distributor, id, "ROOT_PUBLISHED", "CLAIMABLE")
      \/ newFunded < total /\ actions' = actions
  <2>1. \/ newFunded >= total /\ MarkClaimable(Distributor, id)
        \/ ~(newFunded >= total) /\ UNCHANGED registryVars
    BY DEF Fund, FundingComplete, t
  <2>2. newFunded \in Int /\ total \in Int
    BY <1>1, <1>3 DEF Uint
  <2>3. QED BY <1>5, <2>1, <2>2 DEF MarkClaimable, registryVars
<1> HIDE DEF newFunded
<1>8. MoneyTypeOK'
  BY <1>4, <1>5, <1>6 DEF DistInv, MoneyTypeOK
<1>9. funded'[id] = newFunded /\ \A k \in ActionIds : k # id => funded'[k] = funded[k]
  BY <1>5 DEF DistInv, MoneyTypeOK
<1>10. ASSUME NEW k \in ActionIds PROVE Books(k)'
  <2>1. Books(k)
    BY DEF DistInv
  <2>2. CASE newFunded < total /\ actions' = actions
    BY <1>1, <1>5, <1>6, <1>9, <2>1, <2>2, RegistryAssumption DEF Books, Uint
  <2>3. CASE newFunded = total /\ DistributorCall(Distributor, id, "ROOT_PUBLISHED", "CLAIMABLE")
    <3>1. /\ actions'[id].status = "CLAIMABLE"
          /\ RootTerms(actions'[id]) = RootTerms(actions[id])
          /\ k # id => actions'[k] = actions[k]
      BY <2>3, CallEffect DEF DistInv, Statuses
    <3>2. actions'[id].totalPayout = total
      BY <3>1 DEF RootTerms
    <3>3. QED
      BY <1>1, <1>5, <1>6, <1>9, <2>1, <2>3, <3>1, <3>2, RegistryAssumption DEF Books, Uint
  <2>4. QED BY <1>7, <2>2, <2>3
<1>11. QED BY <1>8, <1>10

LEMMA ClaimKeepsMoney ==
  ASSUME DistInv, NEW leaf \in Leaf, Claim(leaf)
  PROVE  MoneyTypeOK' /\ \A k \in ActionIds : Books(k)'
<1> DEFINE id == leaf.id
           newClaimed == claimedTotal[id] + leaf.amount
<1>1. /\ id \in ActionIds /\ leaf.index \in Indices /\ leaf.account \in Addresses
      /\ leaf.amount \in Uint /\ leaf.amount \in Nat
  BY RegistryAssumption DEF Leaf, Uint
<1>2. /\ TokenOf(id) \in Tokens
      /\ actions[id].status = "CLAIMABLE"
      /\ claimedTotal[id] \in Nat
      /\ funded[id] \in Uint
  <2>1. Dividend(id, "CLAIMABLE")
    BY DEF Claim
  <2>2. funded[id] \in Uint
    BY <1>1 DEF DistInv, MoneyTypeOK
  <2>3. QED BY <1>1, <2>1, <2>2, DividendFacts
<1>3. balance' \in BalanceType
  BY <1>1, <1>2, TransferEffect DEF Claim, DistInv, MoneyTypeOK, Addresses
<1>4. /\ claimed' = [claimed EXCEPT ![id] = @ \cup {leaf.index}]
      /\ claimedTotal' = [claimedTotal EXCEPT ![id] = newClaimed]
      /\ newClaimed <= funded[id]
      /\ UNCHANGED <<actions, funded, distPaused, now>>
  BY DEF Claim, Marked, WithinFunding, registryVars
<1>5. newClaimed \in Uint
  BY <1>1, <1>2, <1>4, RegistryAssumption DEF Uint
<1>6. MoneyTypeOK'
  BY <1>1, <1>3, <1>4, <1>5 DEF DistInv, MoneyTypeOK
<1> HIDE DEF id, newClaimed
<1>7. /\ claimedTotal'[id] = newClaimed
      /\ \A k \in ActionIds :
           k # id => claimedTotal'[k] = claimedTotal[k] /\ claimed'[k] = claimed[k]
  BY <1>1, <1>4 DEF DistInv, MoneyTypeOK
<1>8. ASSUME NEW k \in ActionIds PROVE Books(k)'
  <2>1. Books(k)
    BY DEF DistInv
  <2>2. QED BY <1>2, <1>4, <1>5, <1>7, <2>1 DEF Books, Uint
<1>9. QED BY <1>6, <1>8

LEMMA SweepKeepsMoney ==
  ASSUME DistInv, NEW caller \in Accounts, NEW id \in ActionIds, SweepUnclaimed(caller, id)
  PROVE  MoneyTypeOK' /\ \A k \in ActionIds : Books(k)'
<1>1. /\ TokenOf(id) \in Tokens
      /\ actions[id].status = "CLAIMABLE"
      /\ funded[id] - claimedTotal[id] \in Uint
  BY DividendFacts DEF SweepUnclaimed
<1>2. balance' \in BalanceType
  BY <1>1, TransferEffect DEF SweepUnclaimed, Remaining, DistInv, MoneyTypeOK, Addresses
<1>3. UNCHANGED <<claimed, funded, claimedTotal, distPaused, now>>
  BY DEF SweepUnclaimed, accountingVars
<1>4. MoneyTypeOK'
  BY <1>2, <1>3 DEF DistInv, MoneyTypeOK
<1>5. DistributorCall(Distributor, id, "CLAIMABLE", "FINALIZED")
  BY DEF SweepUnclaimed, MarkFinalized
<1>6. /\ actions'[id].status = "FINALIZED"
      /\ RootTerms(actions'[id]) = RootTerms(actions[id])
      /\ \A k \in ActionIds : k # id => actions'[k] = actions[k]
  BY <1>5, CallEffect DEF DistInv, Statuses
<1>7. actions'[id].totalPayout = actions[id].totalPayout
  BY <1>6 DEF RootTerms
<1>8. ASSUME NEW k \in ActionIds PROVE Books(k)'
  <2>1. Books(k)
    BY DEF DistInv
  <2>2. QED BY <1>1, <1>3, <1>6, <1>7, <2>1 DEF Books
<1>9. QED BY <1>4, <1>8

LEMMA RefundKeepsMoney ==
  ASSUME DistInv, NEW caller \in Accounts, NEW id \in ActionIds,
         CancelPublishedAction(caller, id)
  PROVE  MoneyTypeOK' /\ \A k \in ActionIds : Books(k)'
<1>1. /\ TokenOf(id) \in Tokens
      /\ actions[id].status = "ROOT_PUBLISHED"
      /\ claimed[id] = {} /\ claimedTotal[id] = 0
  BY DividendFacts DEF CancelPublishedAction, Books
<1>2. funded[id] \in Uint /\ 0 \in Uint
  BY RegistryAssumption DEF DistInv, MoneyTypeOK, Uint
<1>3. balance' \in BalanceType
  BY <1>1, <1>2, TransferEffect DEF CancelPublishedAction, DistInv, MoneyTypeOK, Addresses
<1>4. /\ funded' = [funded EXCEPT ![id] = 0]
      /\ UNCHANGED <<claimed, claimedTotal, distPaused, now>>
  BY DEF CancelPublishedAction
<1>5. MoneyTypeOK'
  BY <1>2, <1>3, <1>4 DEF DistInv, MoneyTypeOK
<1>6. DistributorCall(Distributor, id, "ROOT_PUBLISHED", "CANCELLED")
  BY DEF CancelPublishedAction, MarkCancelled
<1>7. /\ actions'[id].status = "CANCELLED"
      /\ \A k \in ActionIds : k # id => actions'[k] = actions[k]
  BY <1>6, CallEffect DEF DistInv, Statuses
<1>8. funded'[id] = 0 /\ \A k \in ActionIds : k # id => funded'[k] = funded[k]
  BY <1>4 DEF DistInv, MoneyTypeOK
<1>9. ASSUME NEW k \in ActionIds PROVE Books(k)'
  <2>1. Books(k)
    BY DEF DistInv
  <2>2. QED BY <1>1, <1>4, <1>7, <1>8, <2>1 DEF Books
<1>10. QED BY <1>5, <1>9

\* Steps that write no accounting and no record: a pause, a stray transfer,
\* governance, a block, a stutter.
LEMMA OtherKeepsMoney ==
  ASSUME DistInv,
         \/ GovernanceStep /\ UNCHANGED distVars
         \/ \E paused \in BOOLEAN : SetDistributorPaused(paused)
         \/ TokenStep
         \/ Tick
         \/ UNCHANGED vars
  PROVE  MoneyTypeOK' /\ \A k \in ActionIds : Books(k)'
<1>1. UNCHANGED <<actions, claimed, funded, claimedTotal>>
  <2>1. CASE GovernanceStep /\ UNCHANGED distVars
    BY <2>1 DEF GovernanceStep, SetAssetIssuer, GrantDistributor, RevokeDistributor,
                SetRegistryPaused, distVars
  <2>2. CASE \E paused \in BOOLEAN : SetDistributorPaused(paused)
    BY <2>2 DEF SetDistributorPaused, accountingVars, registryVars
  <2>3. CASE TokenStep
    BY <2>3 DEF TokenStep, StrayTransfer, accountingVars, registryVars
  <2>4. CASE Tick \/ UNCHANGED vars
    BY <2>4 DEF Tick, NextBlock, accountingVars, vars, registryVars, distVars
  <2>5. QED BY <2>1, <2>2, <2>3, <2>4
<1>2. balance' \in BalanceType
  <2>1. CASE TokenStep
    <3>1. PICK sender \in Accounts, t \in Tokens, amount \in Amounts :
            StrayTransfer(sender, t, amount)
      BY <2>1 DEF TokenStep
    <3>2. /\ amount \in Uint /\ sender \in Addresses /\ Distributor \in Addresses
          /\ Transfer(t, sender, Distributor, amount)
      BY <3>1, DistributorAssumption DEF StrayTransfer, Addresses
    <3>3. QED BY <3>2, TransferEffect DEF DistInv, MoneyTypeOK
  <2>2. CASE UNCHANGED balance
    BY <2>2 DEF DistInv, MoneyTypeOK
  <2>3. QED BY <2>1, <2>2 DEF SetDistributorPaused, Tick, vars, distVars
<1>3. distPaused' \in BOOLEAN /\ now' \in 0..MaxTime
  BY DEF DistInv, MoneyTypeOK, SetDistributorPaused, TokenStep, StrayTransfer, Tick, vars, distVars
<1>4. MoneyTypeOK'
  BY <1>1, <1>2, <1>3 DEF DistInv, MoneyTypeOK
<1>5. \A k \in ActionIds : Books(k)'
  BY <1>1 DEF DistInv, Books
<1>6. QED BY <1>4, <1>5

LEMMA LeavesAreLeaf == Leaves \subseteq Leaf
<1>1. LeavesOf \in [Roots -> SUBSET Leaf]
  BY DistributorAssumption
<1>2. QED BY <1>1 DEF Leaves

LEMMA StepDistInv ==
  ASSUME DistInv, [Next]_vars
  PROVE  DistInv'
<1>1. RegistryInv' /\ CashHasToken'
  BY RegistryPartKeeps
<1>2. MoneyTypeOK' /\ \A k \in ActionIds : Books(k)'
  <2>1. CASE IssuerStep /\ UNCHANGED distVars
    BY <2>1, IssuerKeepsMoney
  <2>2. CASE SettlementStep
    <3>1. CASE \E paused \in BOOLEAN : SetDistributorPaused(paused)
      BY <3>1, OtherKeepsMoney
    <3>2. CASE \E leaf \in Leaves : Claim(leaf)
      BY <3>2, ClaimKeepsMoney, LeavesAreLeaf
    <3>3. QED
      BY <2>2, <3>1, <3>2, FundKeepsMoney, SweepKeepsMoney, RefundKeepsMoney
         DEF SettlementStep
  <2>3. QED BY <2>1, <2>2, OtherKeepsMoney DEF Next
<1>3. QED BY <1>1, <1>2 DEF DistInv

LEMMA DistributorInvariant == Spec => []DistInv
<1>1. DistInv /\ [Next]_vars => DistInv'
  BY StepDistInv
<1>2. QED BY InitDistInv, <1>1, PTL DEF Spec

(***************************************************************************)
(* Theorems                                                                *)
(***************************************************************************)

\* Every storage slot keeps its type, uint256 widths included.
THEOREM TypeCorrect == Spec => []TypeOK
<1>1. DistInv => TypeOK
  BY DistInvImplies
<1>2. QED BY DistributorInvariant, <1>1, PTL

\* The registry's statuses and the distributor's books agree in every state,
\* for any roots, fees, amounts and number of actions.
THEOREM BooksAlwaysMatch == Spec => []BooksMatchStatus
<1>1. DistInv => BooksMatchStatus
  BY DistInvImplies
<1>2. QED BY DistributorInvariant, <1>1, PTL

\* What one step may do to one action's money.
Window(id) ==
  /\ claimed[id] \subseteq claimed'[id]
  /\ claimedTotal'[id] # claimedTotal[id] =>
       /\ claimedTotal'[id] > claimedTotal[id]
       /\ Is(id, "CLAIMABLE")
       /\ now >= actions[id].payableAt
  /\ funded'[id] < funded[id] => actions'[id].status = "CANCELLED"
  /\ actions'[id].status = "FINALIZED" /\ ~Is(id, "FINALIZED") =>
       actions[id].claimDeadline # 0 /\ now > actions[id].claimDeadline

LEMMA StepWindow ==
  ASSUME DistInv, [Next]_vars, NEW k \in ActionIds
  PROVE  Window(k)
<1>1. /\ funded \in [ActionIds -> Uint] /\ claimedTotal \in [ActionIds -> Uint]
      /\ claimed \in [ActionIds -> SUBSET Indices]
      /\ actions \in [ActionIds -> CorporateAction]
  BY DEF DistInv, MoneyTypeOK, RegistryInv, RegistryTypeOK
<1>2. \A n \in Uint : n \in Nat
  BY RegistryAssumption DEF Uint
<1>3. funded[k] \in Nat /\ claimedTotal[k] \in Nat
  BY <1>1, <1>2
<1>4. ASSUME claimed'[k] = claimed[k], claimedTotal'[k] = claimedTotal[k],
             funded'[k] = funded[k],
             actions'[k].status = "FINALIZED" => actions[k].status = "FINALIZED"
      PROVE  Window(k)
  BY <1>3, <1>4 DEF Window, Is
<1>5. CASE IssuerStep /\ UNCHANGED distVars
  <2>1. UNCHANGED <<claimed, claimedTotal, funded>>
    BY <1>5 DEF distVars
  <2>2. actions'[k].status = "FINALIZED" => actions[k].status = "FINALIZED"
    <3>1. ASSUME NEW id, NEW r, actions' = [actions EXCEPT ![id] = r], r.status # "FINALIZED"
          PROVE  actions'[k].status = "FINALIZED" => actions[k].status = "FINALIZED"
      BY <1>1, <3>1
    <3>2. ASSUME NEW caller \in Accounts, NEW args \in Announcements,
                 AnnounceAction(caller, args)
          PROVE  actions'[k].status = "FINALIZED" => actions[k].status = "FINALIZED"
      <4> DEFINE r == Recorded(actionCount + 1, args)
      <4>1. actions' = [actions EXCEPT ![actionCount + 1] = r]
        BY <3>2 DEF AnnounceAction
      <4>2. r.status # "FINALIZED"
        BY DEF Recorded
      <4> HIDE DEF r
      <4>3. QED BY <3>1, <4>1, <4>2
    <3>3. ASSUME NEW caller \in Accounts, NEW id \in ActionIds, NEW root \in Roots \cup {NoRoot},
                 NEW total \in Payouts, PublishRoot(caller, id, root, total)
          PROVE  actions'[k].status = "FINALIZED" => actions[k].status = "FINALIZED"
      BY <1>1, <3>3 DEF PublishRoot, CorporateAction
    <3>4. ASSUME NEW caller \in Accounts, NEW id \in ActionIds, CancelAction(caller, id)
          PROVE  actions'[k].status = "FINALIZED" => actions[k].status = "FINALIZED"
      BY <1>1, <3>4 DEF CancelAction, SetStatus, CorporateAction
    <3>5. QED BY <1>5, <3>2, <3>3, <3>4 DEF IssuerStep
  <2>3. QED BY <1>4, <2>1, <2>2
<1>6. ASSUME NEW caller \in Accounts, NEW id \in ActionIds, NEW amount \in Amounts,
             Fund(caller, id, amount)
      PROVE  Window(k)
  <2>1. TokenOf(id) \in Tokens /\ amount \in Nat
    <3>1. TokenOf(id) \in Tokens
      BY <1>6, DividendFacts DEF Fund
    <3>2. amount \in Nat
      BY <1>2, DistributorAssumption
    <3>3. QED BY <3>1, <3>2
  <2>2. Received(TokenOf(id), amount) \in Nat
    BY <2>1, FeeBounds DEF Received
  <2>3. /\ UNCHANGED <<claimed, claimedTotal>>
        /\ funded' = [funded EXCEPT ![id] = funded[id] + Received(TokenOf(id), amount)]
    BY <1>6 DEF Fund
  <2>4. funded'[k] >= funded[k]
    BY <1>1, <1>2, <2>2, <2>3
  <2>5. actions'[k].status = "FINALIZED" => actions[k].status = "FINALIZED"
    BY <1>1, <1>6 DEF Fund, MarkClaimable, DistributorCall, SetStatus, registryVars, CorporateAction
  <2>6. funded'[k] \in Int
    BY <1>1, <1>2, <2>2, <2>3
  <2>7. QED BY <1>3, <2>3, <2>4, <2>5, <2>6 DEF Window, Is
<1>7. ASSUME NEW leaf \in Leaves, Claim(leaf)
      PROVE  Window(k)
  <2> PICK id \in ActionIds, amount \in Uint : id = leaf.id /\ amount = leaf.amount
    BY LeavesAreLeaf DEF Leaf
  <2>1. /\ claimed' = [claimed EXCEPT ![id] = @ \cup {leaf.index}]
        /\ claimedTotal' = [claimedTotal EXCEPT ![id] = claimedTotal[id] + amount]
        /\ UNCHANGED <<actions, funded>>
        /\ Is(id, "CLAIMABLE") /\ now >= actions[id].payableAt
    BY <1>7 DEF Claim, Marked, registryVars, Dividend
  <2>2. CASE k # id
    <3>1. claimed'[k] = claimed[k] /\ claimedTotal'[k] = claimedTotal[k]
      BY <1>1, <2>1, <2>2
    <3>2. QED BY <1>4, <2>1, <3>1
  <2>3. CASE k = id
    <3>1. /\ claimed[k] \subseteq claimed'[k]
          /\ claimedTotal'[k] = claimedTotal[k] + amount
      BY <1>1, <2>1, <2>3
    <3>2. amount \in Nat
      BY <1>2
    <3>3. QED BY <1>3, <2>1, <2>3, <3>1, <3>2 DEF Window, Is
  <2>4. QED BY <2>2, <2>3
<1>8. ASSUME NEW caller \in Accounts, NEW id \in ActionIds, SweepUnclaimed(caller, id)
      PROVE  Window(k)
  <2>1. UNCHANGED <<claimed, claimedTotal, funded>>
    BY <1>8 DEF SweepUnclaimed, accountingVars
  <2>2. k # id => actions'[k] = actions[k]
    BY <1>1, <1>8 DEF SweepUnclaimed, MarkFinalized, DistributorCall, SetStatus
  <2>3. actions[id].claimDeadline # 0 /\ now > actions[id].claimDeadline
    BY <1>8 DEF SweepUnclaimed, Sweepable
  <2>4. QED BY <1>3, <2>1, <2>2, <2>3 DEF Window, Is
<1>9. ASSUME NEW caller \in Accounts, NEW id \in ActionIds, CancelPublishedAction(caller, id)
      PROVE  Window(k)
  <2>1. /\ UNCHANGED <<claimed, claimedTotal>>
        /\ funded' = [funded EXCEPT ![id] = 0]
        /\ DistributorCall(Distributor, id, "ROOT_PUBLISHED", "CANCELLED")
    BY <1>9 DEF CancelPublishedAction, MarkCancelled
  <2>2. /\ actions'[id].status = "CANCELLED"
        /\ k # id => actions'[k] = actions[k] /\ funded'[k] = funded[k]
    BY <1>1, <2>1, CallEffect DEF DistInv, Statuses
  <2>3. QED BY <1>3, <2>1, <2>2 DEF Window, Is
<1>10. CASE \/ GovernanceStep /\ UNCHANGED distVars
            \/ \E paused \in BOOLEAN : SetDistributorPaused(paused)
            \/ TokenStep
            \/ Tick
            \/ UNCHANGED vars
  <2>1. UNCHANGED <<actions, claimed, funded, claimedTotal>>
    BY <1>10 DEF GovernanceStep, SetAssetIssuer, GrantDistributor, RevokeDistributor,
                 SetRegistryPaused, SetDistributorPaused, TokenStep, StrayTransfer,
                 Tick, NextBlock, accountingVars, vars, registryVars, distVars
  <2>2. QED BY <1>4, <2>1
<1>11. QED BY <1>5, <1>6, <1>7, <1>8, <1>9, <1>10 DEF Next, SettlementStep

\* Money leaves an action only in its window.
THEOREM ClaimsStayInWindow == Spec => ClaimWindow
<1>1. DistInv /\ [Next]_vars => [\A id \in ActionIds : Window(id)]_vars
  BY StepWindow
<1>2. Spec => [][\A id \in ActionIds : Window(id)]_vars
  BY <1>1, DistributorInvariant, PTL DEF Spec
<1>3. QED BY <1>2 DEF ClaimWindow, Window

(***************************************************************************)
(* Isolated vaults: every step of the composed system is, under the        *)
(* mapping of DividendDistributor, one step of one vault or no step at     *)
(* all, and the pooled distributor is therefore solvent.                   *)
(***************************************************************************)

mapped == <<vaultPhase, vaultCoin, vaultGoal, vaultPot, vaultPool>>

\* What the mapping reads of one action.
Slice(id) ==
  <<actions[id].status, actions[id].merkleRoot, actions[id].payoutToken,
    actions[id].totalPayout, funded[id], claimedTotal[id]>>

\* A step that disturbs one action disturbs one vault.
LEMMA OneVault ==
  ASSUME NEW id \in ActionIds,
         \A k \in ActionIds : k # id => Slice(k)' = Slice(k)
  PROVE  /\ vaultPhase' = [vaultPhase EXCEPT ![id] = VaultPhase(id)']
         /\ vaultCoin' = [vaultCoin EXCEPT ![id] = vaultCoin'[id]]
         /\ vaultGoal' = [vaultGoal EXCEPT ![id] = actions'[id].totalPayout]
         /\ vaultPot' = [vaultPot EXCEPT ![id] = Escrow(id)']
<1>1. \A k \in ActionIds : k # id =>
        /\ VaultPhase(k)' = VaultPhase(k)
        /\ Escrow(k)' = Escrow(k)
        /\ vaultCoin'[k] = vaultCoin[k]
        /\ actions'[k].totalPayout = actions[k].totalPayout
  BY DEF Slice, VaultPhase, Is, Escrow, vaultCoin, TokenOf
<1>2. QED BY <1>1 DEF vaultPhase, vaultCoin, vaultGoal, vaultPot

LEMMA OneVaultKept ==
  ASSUME NEW id \in ActionIds
  PROVE  /\ vaultPhase = [vaultPhase EXCEPT ![id] = vaultPhase[id]]
         /\ vaultCoin = [vaultCoin EXCEPT ![id] = vaultCoin[id]]
         /\ vaultGoal = [vaultGoal EXCEPT ![id] = vaultGoal[id]]
         /\ vaultPot = [vaultPot EXCEPT ![id] = vaultPot[id]]
<1>1. vaultPhase = [vaultPhase EXCEPT ![id] = vaultPhase[id]]
  BY DEF vaultPhase
<1>2. vaultCoin = [vaultCoin EXCEPT ![id] = vaultCoin[id]]
  BY DEF vaultCoin
<1>3. vaultGoal = [vaultGoal EXCEPT ![id] = vaultGoal[id]]
  BY DEF vaultGoal
<1>4. vaultPot = [vaultPot EXCEPT ![id] = vaultPot[id]]
  BY DEF vaultPot
<1>5. QED BY <1>1, <1>2, <1>3, <1>4

\* A step that disturbs no action disturbs no vault.
LEMMA NoVault ==
  ASSUME \A k \in ActionIds : Slice(k)' = Slice(k)
  PROVE  UNCHANGED <<vaultPhase, vaultCoin, vaultGoal, vaultPot>>
<1>1. \A k \in ActionIds :
        /\ VaultPhase(k)' = VaultPhase(k)
        /\ Escrow(k)' = Escrow(k)
        /\ (IF actions[k].merkleRoot = NoRoot THEN NoAddress ELSE TokenOf(k))'
             = IF actions[k].merkleRoot = NoRoot THEN NoAddress ELSE TokenOf(k)
        /\ actions'[k].totalPayout = actions[k].totalPayout
  BY DEF Slice, VaultPhase, Is, Escrow, TokenOf
<1>2. QED BY <1>1 DEF vaultPhase, vaultCoin, vaultGoal, vaultPot

LEMMA MapType ==
  ASSUME DistInv
  PROVE  /\ actions \in [ActionIds -> CorporateAction]
         /\ funded \in [ActionIds -> Uint]
         /\ claimedTotal \in [ActionIds -> Uint]
         /\ balance \in BalanceType
         /\ MaxUint \in Nat
BY RegistryAssumption DEF DistInv, RegistryInv, RegistryTypeOK, MoneyTypeOK

(***************************************************************************)
(* Initial states and issuer steps                                         *)
(***************************************************************************)

LEMMA VaultInitial == Init => Vault!Init
<1> SUFFICES ASSUME Init PROVE Vault!Init
  OBVIOUS
<1>1. \A id \in ActionIds :
        /\ actions[id].status = "ANNOUNCED" /\ actions[id].merkleRoot = NoRoot
        /\ actions[id].totalPayout = 0 /\ funded[id] = 0 /\ claimedTotal[id] = 0
  BY DEF Init, RegistryInit, ZeroAction
<1>2. \A t \in Tokens : balance[t][Distributor] = 0
  BY BalanceAssumption DEF Init
<1>3. vaultPhase = [id \in ActionIds |-> "idle"]
  BY <1>1 DEF vaultPhase, VaultPhase, Is
<1>4. vaultCoin = [id \in ActionIds |-> NoAddress] /\ vaultGoal = [id \in ActionIds |-> 0]
  BY <1>1 DEF vaultCoin, vaultGoal
<1>5. vaultPot = [id \in ActionIds |-> 0] /\ vaultPool = [t \in Tokens |-> 0]
  BY <1>1, <1>2 DEF vaultPot, Escrow, vaultPool
<1>6. QED BY <1>3, <1>4, <1>5 DEF Vault!Init

\* An announcement leaves every vault idle, publishing opens one, cancelling
\* abandons one.
LEMMA IssuerMaps ==
  ASSUME DistInv, IssuerStep, UNCHANGED distVars
  PROVE  [Vault!Next]_mapped
<1>1. UNCHANGED vaultPool /\ UNCHANGED <<funded, claimedTotal>>
  BY DEF distVars, vaultPool
<1>2. ASSUME NEW caller \in Accounts, NEW args \in Announcements, AnnounceAction(caller, args)
      PROVE  UNCHANGED mapped
  <2>0. actionCount + 1 \in ActionIds
    BY <1>2, RegistryAssumption
       DEF DistInv, RegistryInv, RegistryTypeOK, AnnounceAction, ActionIds
  <2> PICK n \in ActionIds : n = actionCount + 1
    BY <2>0
  <2>1. actions[n] = ZeroAction /\ actions' = [actions EXCEPT ![n] = Recorded(n, args)]
    BY <1>2 DEF DistInv, RegistryInv, RegistryTypeOK, IdsDense, AnnounceAction
  <2>2. \A k \in ActionIds : k # n => Slice(k)' = Slice(k)
    BY <1>1, <2>1, MapType DEF Slice
  <2>3. /\ actions'[n].status = "ANNOUNCED" /\ actions[n].status = "ANNOUNCED"
        /\ actions'[n].merkleRoot = NoRoot /\ actions[n].merkleRoot = NoRoot
        /\ actions'[n].totalPayout = 0 /\ actions[n].totalPayout = 0
    BY <2>1, MapType DEF ZeroAction, Recorded
  <2>4. /\ VaultPhase(n)' = vaultPhase[n] /\ Escrow(n)' = vaultPot[n]
        /\ vaultCoin'[n] = vaultCoin[n] /\ actions'[n].totalPayout = vaultGoal[n]
    <3>1. VaultPhase(n)' = VaultPhase(n) /\ Escrow(n)' = Escrow(n)
      BY <2>3 DEF VaultPhase, Is, Escrow
    <3>2. vaultPhase[n] = VaultPhase(n) /\ vaultPot[n] = Escrow(n)
      BY <2>1 DEF vaultPhase, vaultPot
    <3>3. vaultCoin'[n] = vaultCoin[n]
      BY <2>1, <2>3 DEF vaultCoin
    <3>4. vaultGoal[n] = actions[n].totalPayout
      BY <2>1 DEF vaultGoal
    <3>5. QED BY <2>3, <3>1, <3>2, <3>3, <3>4
  <2>5. UNCHANGED <<vaultPhase, vaultCoin, vaultGoal, vaultPot>>
    BY <2>1, <2>2, <2>4, OneVault, OneVaultKept
  <2>6. QED BY <1>1, <2>5 DEF mapped
<1>3. ASSUME NEW caller \in Accounts, NEW id \in ActionIds, NEW root \in Roots \cup {NoRoot},
             NEW total \in Payouts, PublishRoot(caller, id, root, total)
      PROVE  Vault!Open(id, TokenOf(id), total) /\ TokenOf(id) \in Tokens /\ total \in Uint
  <2>1. /\ actions[id].status = "ANNOUNCED" /\ root # NoRoot
        /\ total \in Uint /\ total > 0
        /\ TokenOf(id) \in Tokens
    BY <1>3, RegistryAssumption DEF PublishRoot, Is, DistInv, CashHasToken, Uint
  <2>2. /\ actions'[id].status = "ROOT_PUBLISHED" /\ actions'[id].merkleRoot = root
        /\ actions'[id].totalPayout = total /\ actions'[id].payoutToken = TokenOf(id)
        /\ \A k \in ActionIds : k # id => actions'[k] = actions[k]
    BY <1>3, MapType DEF PublishRoot, CorporateAction, TokenOf
  <2>3. \A k \in ActionIds : k # id => Slice(k)' = Slice(k)
    BY <1>1, <2>2 DEF Slice
  <2>4. funded[id] = 0 /\ claimedTotal[id] = 0
    BY <2>1 DEF DistInv, Books
  <2>5. /\ vaultPhase[id] = "idle" /\ VaultPhase(id)' = "filling"
        /\ vaultCoin'[id] = TokenOf(id)
        /\ Escrow(id)' = vaultPot[id]
    BY <1>1, <2>1, <2>2, <2>4
       DEF VaultPhase, Is, Escrow, vaultPhase, vaultCoin, vaultPot, TokenOf
  <2>6. vaultPot' = vaultPot
    BY <2>3, <2>5, OneVault DEF vaultPot
  <2>7. QED BY <1>1, <2>1, <2>2, <2>3, <2>5, <2>6, OneVault DEF Vault!Open, Vault!Enter
<1>4. ASSUME NEW caller \in Accounts, NEW id \in ActionIds, CancelAction(caller, id)
      PROVE  Vault!Abandon(id)
  <2>1. /\ actions[id].status = "ANNOUNCED" /\ actions'[id].status = "CANCELLED"
        /\ actions'[id].merkleRoot = actions[id].merkleRoot
        /\ actions'[id].totalPayout = actions[id].totalPayout
        /\ actions'[id].payoutToken = actions[id].payoutToken
        /\ \A k \in ActionIds : k # id => actions'[k] = actions[k]
    BY <1>4, MapType DEF CancelAction, SetStatus, Is, CorporateAction
  <2>2. \A k \in ActionIds : k # id => Slice(k)' = Slice(k)
    BY <1>1, <2>1 DEF Slice
  <2>3. /\ vaultPhase[id] = "idle" /\ VaultPhase(id)' = "spent"
        /\ vaultCoin'[id] = vaultCoin[id]
        /\ vaultGoal[id] = actions'[id].totalPayout
        /\ Escrow(id)' = vaultPot[id]
    BY <2>1 DEF VaultPhase, Is, Escrow, vaultPhase, vaultCoin, vaultGoal, vaultPot, TokenOf
  <2>4. UNCHANGED <<vaultCoin, vaultGoal, vaultPot>>
    BY <2>2, <2>3, OneVault DEF vaultCoin, vaultGoal, vaultPot
  <2>5. QED BY <1>1, <2>2, <2>3, <2>4, OneVault DEF Vault!Abandon, Vault!Enter
<1>5. QED BY <1>2, <1>3, <1>4 DEF IssuerStep, Vault!Next

(***************************************************************************)
(* Settlement steps                                                        *)
(***************************************************************************)

\* A transfer moves the mapped pool of its own token only.
LEMMA PoolEffect ==
  ASSUME DistInv, NEW t \in Tokens, NEW from \in Addresses, NEW to \in Addresses,
         NEW amount \in Uint, Transfer(t, from, to, amount)
  PROVE  /\ vaultPool[t] \in Uint
         /\ vaultPool'[t] \in Uint
         /\ vaultPool' = [vaultPool EXCEPT ![t] = vaultPool'[t]]
         /\ from # Distributor /\ to = Distributor =>
              vaultPool'[t] = vaultPool[t] + Received(t, amount)
         /\ from = Distributor /\ to # Distributor =>
              vaultPool'[t] = vaultPool[t] - amount
         /\ from = Distributor /\ to = Distributor =>
              vaultPool'[t] = vaultPool[t] - Fee(t, amount)
<1>1. balance \in BalanceType
  BY MapType
<1>2. /\ balance' \in BalanceType
      /\ \A u \in Tokens \ {t} : balance'[u] = balance[u]
      /\ from # Distributor /\ to = Distributor =>
           balance'[t][Distributor] = balance[t][Distributor] + Received(t, amount)
      /\ from = Distributor /\ to # Distributor =>
           balance'[t][Distributor] = balance[t][Distributor] - amount
      /\ from = Distributor /\ to = Distributor =>
           balance'[t][Distributor] = balance[t][Distributor] - Fee(t, amount)
  BY <1>1, TransferEffect
<1>3. Distributor \in Addresses \cup {Sink}
  BY DEF Addresses
<1>4. balance[t][Distributor] \in Uint /\ balance'[t][Distributor] \in Uint
  BY <1>1, <1>2, <1>3 DEF BalanceType
<1>5. /\ vaultPool[t] = balance[t][Distributor]
      /\ vaultPool'[t] = balance'[t][Distributor]
  BY DEF vaultPool
<1>6. vaultPool' = [vaultPool EXCEPT ![t] = vaultPool'[t]]
  BY <1>2 DEF vaultPool
<1>7. QED BY <1>2, <1>4, <1>5, <1>6

\* A deposit credits what arrived, and opens the claims when it completes the target.
LEMMA FundEffect ==
  ASSUME DistInv, NEW caller \in Accounts, NEW id \in ActionIds, NEW amount \in Amounts,
         Fund(caller, id, amount)
  PROVE  \E m \in Uint :
           /\ m = Received(TokenOf(id), amount)
           /\ funded[id] + m <= actions[id].totalPayout
           /\ funded'[id] = funded[id] + m
           /\ \A k \in ActionIds : k # id => funded'[k] = funded[k]
           /\ actions'[id].status =
                 IF funded[id] + m = actions[id].totalPayout
                 THEN "CLAIMABLE" ELSE "ROOT_PUBLISHED"
           /\ Terms(actions'[id]) = Terms(actions[id])
           /\ RootTerms(actions'[id]) = RootTerms(actions[id])
           /\ \A k \in ActionIds : k # id => actions'[k] = actions[k]
<1> DEFINE t == TokenOf(id)
           n == Received(t, amount)
<1>1. /\ t \in Tokens /\ actions[id].status = "ROOT_PUBLISHED"
      /\ funded[id] \in Nat /\ amount \in Uint /\ amount \in Nat
  BY DividendFacts, RegistryAssumption, DistributorAssumption DEF Fund, Uint
<1>2. n \in Uint
  <2>1. Fee(t, amount) \in 0..amount
    BY <1>1, FeeBounds
  <2>2. QED BY <1>1, <2>1, RegistryAssumption DEF Received, Uint
<1>3. \E m \in {n} :
        /\ funded[id] + m <= actions[id].totalPayout
        /\ funded' = [funded EXCEPT ![id] = funded[id] + m]
        /\ \/ /\ funded[id] + m >= actions[id].totalPayout
              /\ MarkClaimable(Distributor, id)
           \/ ~(funded[id] + m >= actions[id].totalPayout) /\ actions' = actions
  BY DEF Fund, FundingComplete, registryVars
<1> PICK m \in Uint : m = n
  BY <1>2
<1>m. m = Received(TokenOf(id), amount)
  OBVIOUS
<1> HIDE DEF t, n
<1>4. /\ funded[id] + m <= actions[id].totalPayout
      /\ funded'[id] = funded[id] + m
      /\ \A k \in ActionIds : k # id => funded'[k] = funded[k]
      /\ \/ /\ funded[id] + m >= actions[id].totalPayout
            /\ DistributorCall(Distributor, id, "ROOT_PUBLISHED", "CLAIMABLE")
         \/ ~(funded[id] + m >= actions[id].totalPayout) /\ actions' = actions
  BY <1>3, MapType DEF MarkClaimable
<1>5. /\ actions'[id].status =
             IF funded[id] + m = actions[id].totalPayout THEN "CLAIMABLE" ELSE "ROOT_PUBLISHED"
      /\ Terms(actions'[id]) = Terms(actions[id])
      /\ RootTerms(actions'[id]) = RootTerms(actions[id])
      /\ \A k \in ActionIds : k # id => actions'[k] = actions[k]
  <2>1. funded[id] + m \in Int /\ actions[id].totalPayout \in Int
    BY <1>1, MapType DEF CorporateAction, Uint
  <2>2. CASE DistributorCall(Distributor, id, "ROOT_PUBLISHED", "CLAIMABLE")
             /\ funded[id] + m >= actions[id].totalPayout
    <3>1. funded[id] + m = actions[id].totalPayout
      BY <1>4, <2>1, <2>2
    <3>2. RegistryInv /\ "CLAIMABLE" \in Statuses
      BY DEF DistInv, Statuses
    <3>3. QED BY <2>2, <3>1, <3>2, CallEffect
  <2>3. CASE ~(funded[id] + m >= actions[id].totalPayout) /\ actions' = actions
    BY <1>1, <2>1, <2>3
  <2>4. QED BY <1>4, <2>2, <2>3
<1>6. QED BY <1>m, <1>4, <1>5

LEMMA FundMaps ==
  ASSUME DistInv, NEW caller \in Accounts, NEW id \in ActionIds, NEW amount \in Amounts,
         Fund(caller, id, amount)
  PROVE  \E n \in Uint : Vault!Deposit(id, n)
<1> DEFINE t == TokenOf(id)
           n == Received(t, amount)
<1>1. /\ t \in Tokens
      /\ actions[id].status = "ROOT_PUBLISHED"
      /\ actions[id].merkleRoot # NoRoot
      /\ claimedTotal[id] = 0
      /\ funded[id] \in Nat
  BY DividendFacts DEF Fund, DistInv, RegistryInv, PublishedSound, Published, Books
<1>2. /\ amount \in Uint /\ amount \in Nat
      /\ caller \in Addresses /\ Distributor \in Addresses /\ caller # Distributor
  BY RegistryAssumption, DistributorAssumption DEF Addresses, Uint
<1>3. n \in Uint
  <2>1. Fee(t, amount) \in 0..amount
    BY <1>1, <1>2, FeeBounds
  <2>2. QED BY <1>2, <2>1, RegistryAssumption DEF Received, Uint
<1>4. /\ vaultPool[t] + n \in Uint
      /\ vaultPool' = [vaultPool EXCEPT ![t] = vaultPool[t] + n]
  BY <1>1, <1>2, PoolEffect DEF Fund
<1>5. vaultCoin[id] = t
  BY <1>1 DEF vaultCoin
<1>6. vaultPool' = [vaultPool EXCEPT ![vaultCoin[id]] = @ + n]
  BY <1>1, <1>4, <1>5 DEF vaultPool
<1>7. UNCHANGED claimedTotal
  BY DEF Fund
<1>8. PICK m \in Uint :
        /\ m = n
        /\ funded[id] + m <= actions[id].totalPayout
        /\ funded'[id] = funded[id] + m
        /\ \A k \in ActionIds : k # id => funded'[k] = funded[k]
        /\ actions'[id].status =
              IF funded[id] + m = actions[id].totalPayout
              THEN "CLAIMABLE" ELSE "ROOT_PUBLISHED"
        /\ Terms(actions'[id]) = Terms(actions[id])
        /\ RootTerms(actions'[id]) = RootTerms(actions[id])
        /\ \A k \in ActionIds : k # id => actions'[k] = actions[k]
  BY FundEffect
<1> HIDE DEF t, n
<1>11. \A k \in ActionIds : k # id => Slice(k)' = Slice(k)
  BY <1>7, <1>8 DEF Slice
<1>12. /\ actions'[id].merkleRoot = actions[id].merkleRoot
       /\ actions'[id].totalPayout = actions[id].totalPayout
       /\ actions'[id].payoutToken = actions[id].payoutToken
  BY <1>8 DEF Terms, RootTerms
<1>13. /\ vaultPhase[id] = "filling"
       /\ vaultPot[id] = funded[id] /\ Escrow(id)' = funded[id] + m
       /\ vaultGoal[id] = actions[id].totalPayout
       /\ vaultCoin'[id] = vaultCoin[id]
  <2>1. vaultPhase[id] = "filling" /\ vaultGoal[id] = actions[id].totalPayout
    BY <1>1 DEF vaultPhase, VaultPhase, Is, vaultGoal
  <2>2. vaultPot[id] = funded[id]
    BY <1>1 DEF vaultPot, Escrow
  <2>3. Escrow(id)' = funded[id] + m
    BY <1>1, <1>7, <1>8, RegistryAssumption DEF Escrow, Uint
  <2>4. vaultCoin'[id] = vaultCoin[id]
    BY <1>12 DEF vaultCoin, TokenOf
  <2>5. QED BY <2>1, <2>2, <2>3, <2>4
<1>14. VaultPhase(id)' =
         IF vaultPot[id] + m = vaultGoal[id] THEN "paying" ELSE "filling"
  BY <1>8, <1>13 DEF VaultPhase, Is
<1>15. /\ vaultPhase' = [vaultPhase EXCEPT ![id] = VaultPhase(id)']
       /\ vaultPot' = [vaultPot EXCEPT ![id] = Escrow(id)']
       /\ UNCHANGED <<vaultCoin, vaultGoal>>
  <2>1. vaultGoal[id] = actions'[id].totalPayout
    BY <1>12, <1>13
  <2>2. QED BY <1>11, <1>13, <2>1, OneVault, OneVaultKept
<1>16. vaultPot' = [vaultPot EXCEPT ![id] = @ + m]
  BY <1>13, <1>15
<1>17. Vault!Deposit(id, m)
  BY <1>4, <1>5, <1>6, <1>8, <1>13, <1>14, <1>15, <1>16 DEF Vault!Deposit, Vault!Enter
<1>18. QED BY <1>17

LEMMA ClaimMaps ==
  ASSUME DistInv, NEW leaf \in Leaf, Claim(leaf)
  PROVE  \E n \in Uint : \E back \in 0..n : Vault!PayOut(leaf.id, n, back)
<1> PICK id \in ActionIds, amount \in Uint : id = leaf.id /\ amount = leaf.amount
  BY DEF Leaf
<1>1. /\ TokenOf(id) \in Tokens
      /\ actions[id].status = "CLAIMABLE"
      /\ actions[id].merkleRoot # NoRoot
      /\ claimedTotal[id] \in Nat /\ funded[id] \in Nat
  BY DividendFacts DEF Claim, DistInv, RegistryInv, PublishedSound, Published
<1>2. /\ amount \in Nat
      /\ leaf.account \in Addresses /\ Distributor \in Addresses
  BY RegistryAssumption DEF Addresses, Uint, Leaf
<1>3. /\ claimedTotal' = [claimedTotal EXCEPT ![id] = claimedTotal[id] + amount]
      /\ claimedTotal[id] + amount <= funded[id]
      /\ UNCHANGED <<actions, funded>>
      /\ Transfer(TokenOf(id), Distributor, leaf.account, amount)
  BY DEF Claim, WithinFunding, registryVars
<1>4. claimedTotal'[id] = claimedTotal[id] + amount
  BY <1>3, MapType
<1>5. PICK back \in 0..amount :
        /\ vaultPool' = [vaultPool EXCEPT ![TokenOf(id)] = vaultPool'[TokenOf(id)]]
        /\ vaultPool'[TokenOf(id)] = vaultPool[TokenOf(id)] - amount + back
  <2>1. vaultPool[TokenOf(id)] \in Int
    BY <1>1, <1>2, <1>3, PoolEffect, RegistryAssumption DEF Uint
  <2>2. Fee(TokenOf(id), amount) \in 0..amount
    BY <1>1, <1>2, FeeBounds
  <2>3. CASE leaf.account = Distributor
    <3> DEFINE rest == amount - Fee(TokenOf(id), amount)
    <3>0. rest \in 0..amount
      BY <1>2, <2>2
    <3>1. vaultPool'[TokenOf(id)] = vaultPool[TokenOf(id)] - Fee(TokenOf(id), amount)
      BY <1>1, <1>2, <1>3, <2>3, PoolEffect
    <3>2. vaultPool' = [vaultPool EXCEPT ![TokenOf(id)] = vaultPool'[TokenOf(id)]]
      BY <1>1, <1>2, <1>3, PoolEffect
    <3>3. vaultPool'[TokenOf(id)] = vaultPool[TokenOf(id)] - amount + rest
      BY <1>2, <2>1, <2>2, <3>1
    <3> HIDE DEF rest
    <3>4. QED BY <3>0, <3>2, <3>3
  <2>4. CASE leaf.account # Distributor
    <3>0. 0 \in 0..amount
      BY <1>2
    <3>1. vaultPool'[TokenOf(id)] = vaultPool[TokenOf(id)] - amount
      BY <1>1, <1>2, <1>3, <2>4, PoolEffect
    <3>2. vaultPool' = [vaultPool EXCEPT ![TokenOf(id)] = vaultPool'[TokenOf(id)]]
      BY <1>1, <1>2, <1>3, PoolEffect
    <3>3. vaultPool'[TokenOf(id)] = vaultPool[TokenOf(id)] - amount + 0
      BY <1>2, <2>1, <3>1
    <3>4. QED BY <3>0, <3>2, <3>3
  <2>5. QED BY <2>3, <2>4
<1>6. \A k \in ActionIds : k # id => Slice(k)' = Slice(k)
  BY <1>3, MapType DEF Slice
<1>7. /\ vaultPhase[id] = "paying" /\ VaultPhase(id)' = "paying"
      /\ vaultCoin[id] = TokenOf(id) /\ vaultCoin'[id] = vaultCoin[id]
      /\ vaultGoal[id] = actions'[id].totalPayout
  BY <1>1, <1>3 DEF vaultPhase, VaultPhase, Is, vaultCoin, TokenOf, vaultGoal
<1>8. vaultPot[id] = funded[id] - claimedTotal[id] /\ Escrow(id)' = vaultPot[id] - amount
  <2>1. vaultPot[id] = funded[id] - claimedTotal[id]
    BY <1>1 DEF vaultPot, Escrow
  <2>2. Escrow(id)' = funded[id] - (claimedTotal[id] + amount)
    BY <1>1, <1>3, <1>4 DEF Escrow
  <2>3. QED BY <1>1, <1>2, <2>1, <2>2
<1>9. UNCHANGED <<vaultPhase, vaultCoin, vaultGoal>>
  BY <1>6, <1>7, OneVault, OneVaultKept
<1>10. vaultPot' = [vaultPot EXCEPT ![id] = @ - amount]
  BY <1>6, <1>8, OneVault
<1>11. vaultPool' = [vaultPool EXCEPT ![vaultCoin[id]] = @ - amount + back]
  BY <1>5, <1>7
<1>12. amount <= vaultPot[id]
  BY <1>1, <1>2, <1>3, <1>8
<1>13. Vault!PayOut(id, amount, back)
  BY <1>7, <1>9, <1>10, <1>11, <1>12 DEF Vault!PayOut
<1>14. QED BY <1>13

\* A sweep and a refund close the vault and send all it holds to an account
\* outside the pool.
LEMMA CloseMaps ==
  ASSUME DistInv, NEW caller \in Accounts, NEW id \in ActionIds,
         NEW from \in {"ROOT_PUBLISHED", "CLAIMABLE"}, NEW to \in {"CANCELLED", "FINALIZED"},
         Dividend(id, from),
         DistributorCall(Distributor, id, from, to),
         \A k \in ActionIds : k # id =>
            funded'[k] = funded[k] /\ claimedTotal'[k] = claimedTotal[k],
         Transfer(TokenOf(id), Distributor, caller, funded[id] - claimedTotal[id])
  PROVE  Vault!Close(id)
<1>1. /\ TokenOf(id) \in Tokens
      /\ actions[id].status = from
      /\ actions[id].merkleRoot # NoRoot
      /\ funded[id] - claimedTotal[id] \in Uint
  BY DividendFacts DEF DistInv, RegistryInv, PublishedSound, Published
<1>2. /\ actions'[id].status = to
      /\ actions'[id].merkleRoot = actions[id].merkleRoot
      /\ actions'[id].totalPayout = actions[id].totalPayout
      /\ actions'[id].payoutToken = actions[id].payoutToken
      /\ \A k \in ActionIds : k # id => actions'[k] = actions[k]
  <2>1. RegistryInv /\ to \in Statuses
    BY DEF DistInv, Statuses
  <2>2. QED BY <2>1, CallEffect DEF Terms, RootTerms
<1>3. \A k \in ActionIds : k # id => Slice(k)' = Slice(k)
  BY <1>2 DEF Slice
<1>4. /\ vaultPhase[id] \in {"filling", "paying"} /\ VaultPhase(id)' = "spent"
      /\ vaultCoin[id] = TokenOf(id) /\ vaultCoin'[id] = vaultCoin[id]
      /\ vaultGoal[id] = actions'[id].totalPayout
  BY <1>1, <1>2 DEF vaultPhase, VaultPhase, Is, vaultCoin, TokenOf, vaultGoal
<1>5. vaultPot[id] = funded[id] - claimedTotal[id] /\ Escrow(id)' = 0
  BY <1>1, <1>2 DEF vaultPot, Escrow
<1>6. vaultPool' = [vaultPool EXCEPT ![vaultCoin[id]] = @ - vaultPot[id]]
  <2>1. caller \in Addresses /\ Distributor \in Addresses /\ caller # Distributor
    BY DistributorAssumption DEF Addresses
  <2>2. /\ vaultPool' = [vaultPool EXCEPT ![TokenOf(id)] = vaultPool'[TokenOf(id)]]
        /\ vaultPool'[TokenOf(id)] = vaultPool[TokenOf(id)] - (funded[id] - claimedTotal[id])
    BY <1>1, <2>1, PoolEffect
  <2>3. QED BY <1>4, <1>5, <2>2
<1>7. UNCHANGED <<vaultCoin, vaultGoal>>
  BY <1>3, <1>4, OneVault, OneVaultKept
<1>8. /\ vaultPhase' = [vaultPhase EXCEPT ![id] = "spent"]
      /\ vaultPot' = [vaultPot EXCEPT ![id] = 0]
  BY <1>3, <1>4, <1>5, OneVault
<1>9. QED BY <1>4, <1>6, <1>7, <1>8 DEF Vault!Close, Vault!Enter

(***************************************************************************)
(* Every step                                                              *)
(***************************************************************************)

LEMMA SettlementMaps ==
  ASSUME DistInv, SettlementStep
  PROVE  [Vault!Next]_mapped
<1>1. ASSUME NEW caller \in Accounts, NEW id \in ActionIds, NEW amount \in Amounts,
             Fund(caller, id, amount)
      PROVE  [Vault!Next]_mapped
  BY <1>1, FundMaps DEF Vault!Next
<1>2. ASSUME NEW leaf \in Leaves, Claim(leaf)
      PROVE  [Vault!Next]_mapped
  <2>1. leaf \in Leaf
    BY LeavesAreLeaf
  <2>2. leaf.id \in ActionIds
    BY <2>1 DEF Leaf
  <2>3. \E n \in Uint : \E back \in 0..n : Vault!PayOut(leaf.id, n, back)
    BY <1>2, <2>1, ClaimMaps
  <2>4. QED BY <2>2, <2>3 DEF Vault!Next
<1>3. ASSUME NEW caller \in Accounts, NEW id \in ActionIds, SweepUnclaimed(caller, id)
      PROVE  [Vault!Next]_mapped
  <2>1. /\ Dividend(id, "CLAIMABLE")
        /\ DistributorCall(Distributor, id, "CLAIMABLE", "FINALIZED")
        /\ UNCHANGED <<funded, claimedTotal>>
        /\ Transfer(TokenOf(id), Distributor, caller, funded[id] - claimedTotal[id])
    BY <1>3 DEF SweepUnclaimed, Remaining, MarkFinalized, accountingVars
  <2>2. Vault!Close(id)
    BY <2>1, CloseMaps
  <2>3. QED BY <2>2 DEF Vault!Next
<1>4. ASSUME NEW caller \in Accounts, NEW id \in ActionIds, CancelPublishedAction(caller, id)
      PROVE  [Vault!Next]_mapped
  <2>1. /\ Dividend(id, "ROOT_PUBLISHED")
        /\ DistributorCall(Distributor, id, "ROOT_PUBLISHED", "CANCELLED")
        /\ funded' = [funded EXCEPT ![id] = 0] /\ UNCHANGED claimedTotal
        /\ Transfer(TokenOf(id), Distributor, caller, funded[id])
    BY <1>4 DEF CancelPublishedAction, MarkCancelled
  <2>2. claimedTotal[id] = 0 /\ funded[id] \in Nat
    BY <2>1, DividendFacts DEF Books
  <2>3. \A k \in ActionIds : k # id =>
          funded'[k] = funded[k] /\ claimedTotal'[k] = claimedTotal[k]
    BY <2>1, MapType
  <2>4. funded[id] = funded[id] - claimedTotal[id]
    BY <2>2
  <2>5. Vault!Close(id)
    BY <2>1, <2>3, <2>4, CloseMaps
  <2>6. QED BY <2>5 DEF Vault!Next
<1>5. ASSUME NEW paused \in BOOLEAN, SetDistributorPaused(paused)
      PROVE  [Vault!Next]_mapped
  <2>1. UNCHANGED <<actions, funded, claimedTotal, balance>>
    BY <1>5 DEF SetDistributorPaused, registryVars, accountingVars
  <2>2. UNCHANGED vaultPool /\ \A k \in ActionIds : Slice(k)' = Slice(k)
    BY <2>1 DEF vaultPool, Slice
  <2>3. QED BY <2>2, NoVault DEF mapped
<1>6. QED BY <1>1, <1>2, <1>3, <1>4, <1>5 DEF SettlementStep

LEMMA StepMaps ==
  ASSUME DistInv, [Next]_vars
  PROVE  [Vault!Next]_mapped
<1>1. CASE SettlementStep
  BY <1>1, SettlementMaps
<1>2. CASE IssuerStep /\ UNCHANGED distVars
  BY <1>2, IssuerMaps
<1>3. CASE TokenStep
  <2>1. PICK sender \in Accounts, t \in Tokens, amount \in Amounts :
          StrayTransfer(sender, t, amount)
    BY <1>3 DEF TokenStep
  <2>2. /\ amount \in Uint /\ amount \in Nat
        /\ sender \in Addresses /\ Distributor \in Addresses /\ sender # Distributor
    BY RegistryAssumption, DistributorAssumption DEF Addresses, Uint
  <2>3. /\ vaultPool[t] + Received(t, amount) \in Uint
        /\ vaultPool' = [vaultPool EXCEPT ![t] = @ + Received(t, amount)]
    BY <2>1, <2>2, PoolEffect DEF StrayTransfer
  <2>4. Received(t, amount) \in Uint
    <3>1. Fee(t, amount) \in 0..amount
      BY <2>2, FeeBounds
    <3>2. QED BY <2>2, <3>1, RegistryAssumption DEF Received, Uint
  <2>5. \A k \in ActionIds : Slice(k)' = Slice(k)
    BY <2>1 DEF StrayTransfer, registryVars, accountingVars, Slice
  <2>6. Vault!Gift(t, Received(t, amount))
    BY <2>3, <2>5, NoVault DEF Vault!Gift
  <2>7. QED BY <2>4, <2>6 DEF Vault!Next
<1>4. CASE (GovernanceStep /\ UNCHANGED distVars) \/ Tick \/ UNCHANGED vars
  <2>1. UNCHANGED <<actions, funded, claimedTotal, balance>>
    BY <1>4 DEF GovernanceStep, SetAssetIssuer, GrantDistributor, RevokeDistributor,
                SetRegistryPaused, Tick, NextBlock, distVars, registryVars, accountingVars, vars
  <2>2. UNCHANGED vaultPool /\ \A k \in ActionIds : Slice(k)' = Slice(k)
    BY <2>1 DEF vaultPool, Slice
  <2>3. QED BY <2>2, NoVault DEF mapped
<1>5. QED BY <1>1, <1>2, <1>3, <1>4 DEF Next

\* The pooled contract behaves as if every action had a vault of its own, for
\* any roots, fees, amounts and number of actions.
THEOREM VaultRefinement == Spec => ImplementsVaults
<1>1. DistInv /\ [Next]_vars => [Vault!Next]_(Vault!vaultVars)
  <2>1. Vault!vaultVars = mapped
    BY DEF Vault!vaultVars, mapped
  <2>2. (Vault!vaultVars)' = mapped'
    BY DEF Vault!vaultVars, mapped
  <2>3. QED BY <2>1, <2>2, StepMaps
<1>2. QED
  BY <1>1, VaultInitial, DistributorInvariant, PTL DEF Spec, ImplementsVaults, Vault!Spec

(***************************************************************************)
(* Solvency                                                                *)
(***************************************************************************)

\* The same mapping, applied to the vaults' theorems.
Proved == INSTANCE IsolatedVaultsProofs WITH
  Vaults <- ActionIds, Coins <- Tokens, NoCoin <- NoAddress, Quantities <- Uint,
  phase <- vaultPhase, coin <- vaultCoin, goal <- vaultGoal,
  pot <- vaultPot, pool <- vaultPool

LEMMA SameVaults == Vault!Spec => Proved!Spec
<1>1. Vault!Init => Proved!Init
  BY DEF Vault!Init, Proved!Init
<1>2. [Vault!Next]_(Vault!vaultVars) => [Proved!Next]_(Proved!vaultVars)
  BY DEF Vault!Next, Vault!Open, Vault!Abandon, Vault!Deposit, Vault!PayOut, Vault!Close,
         Vault!Gift, Vault!Enter, Vault!vaultVars,
         Proved!Next, Proved!Open, Proved!Abandon, Proved!Deposit, Proved!PayOut,
         Proved!Close, Proved!Gift, Proved!Enter, Proved!vaultVars
<1>3. QED BY <1>1, <1>2, PTL DEF Vault!Spec, Proved!Spec

LEMMA SameSum ==
  ASSUME NEW f, NEW S
  PROVE  Proved!SumFunctionOnSet(f, S) = SumFunctionOnSet(f, S)
BY DEF SumFunctionOnSet, FoldFunctionOnSet, MapThenFoldSet,
       Proved!SumFunctionOnSet, Proved!FoldFunctionOnSet, Proved!MapThenFoldSet

LEMMA SameFinite ==
  ASSUME NEW S
  PROVE  IsFiniteSet(S) => Proved!IsFiniteSet(S)
BY DEF IsFiniteSet, Proved!IsFiniteSet

LEMMA PoolIsSolvent == DistInv /\ Proved!PoolCoversVaults => Solvent
<1> SUFFICES ASSUME DistInv, Proved!PoolCoversVaults PROVE Solvent
  OBVIOUS
<1>1. ASSUME NEW id \in ActionIds PROVE Escrow(id) >= 0
  <2>1. funded[id] \in Nat /\ claimedTotal[id] \in Nat
    BY MapType DEF Uint
  <2>2. claimedTotal[id] <= funded[id]
    BY DEF DistInv, Books
  <2>3. QED BY <2>1, <2>2 DEF Escrow
<1>2. ASSUME NEW t \in Tokens
      PROVE  SumFunctionOnSet(OwedIn(t), ActionIds) <= balance[t][Distributor]
  <2>1. Proved!Held(t) = OwedIn(t)
    <3>1. ASSUME NEW id \in ActionIds
          PROVE  (IF vaultCoin[id] = t THEN vaultPot[id] ELSE 0)
                   = (IF TokenOf(id) = t THEN Escrow(id) ELSE 0)
      <4>1. actions[id].merkleRoot = NoRoot => Escrow(id) = 0
        BY DEF DistInv, RegistryInv, PublishedSound, Published, Escrow
      <4>2. t # NoAddress
        BY RegistryAssumption
      <4>3. QED BY <4>1, <4>2 DEF vaultCoin, vaultPot
    <3>2. QED BY <3>1 DEF Proved!Held, OwedIn
  <2>2. vaultPool[t] = balance[t][Distributor]
    BY DEF vaultPool
  <2>3. QED BY <2>1, <2>2, SameSum DEF Proved!PoolCoversVaults
<1>3. QED BY <1>1, <1>2 DEF Solvent

\* For every payout token the contract holds at least what it owes, over all
\* the actions that share it.
THEOREM AlwaysSolvent == Spec => []Solvent
<1>1. /\ NoAddress \notin Tokens
      /\ Uint \subseteq Nat
      /\ Proved!IsFiniteSet(ActionIds)
  BY RegistryAssumption, FS_Interval, SameFinite DEF Uint, ActionIds
<1>2. Spec => Vault!Spec
  BY VaultRefinement DEF ImplementsVaults
<1>3. Proved!Spec => []Proved!PoolCoversVaults
  BY <1>1, Proved!VaultsSolvent, PTL
<1>4. QED BY <1>2, <1>3, SameVaults, PoolIsSolvent, DistributorInvariant, PTL

(***************************************************************************)
(* Promises: claims add up to the leaves they consumed, an honest root can *)
(* always be paid in full, and what the two contracts show moves as        *)
(* ActionBook says.                                                        *)
(***************************************************************************)

(***************************************************************************)
(* Sums over leaves                                                        *)
(***************************************************************************)

AmountsOf(leaves) == [leaf \in leaves |-> AmountOf(leaf)]

\* The sum the model takes over leaves is the sum of the function of their amounts.
LEMMA LeafSumIsSum ==
  ASSUME NEW leaves, IsFiniteSet(leaves), AmountsOf(leaves) \in [leaves -> Int]
  PROVE  LeafSum(leaves) = SumFunctionOnSet(AmountsOf(leaves), leaves)
<1> DEFINE f == AmountsOf(leaves)
           Tabulates(g) ==
             g = [s \in SUBSET leaves |->
                    IF s = {} THEN 0
                    ELSE AmountOf(CHOOSE x \in s : TRUE) + g[s \ {CHOOSE x \in s : TRUE}]]
           table == CHOOSE g : Tabulates(g)
<1>1. LeafSum(leaves) = table[leaves]
  BY DEF LeafSum, MapThenSumSet, MapThenFoldSet
<1>2. ASSUME NEW g PROVE Tabulates(g) <=> IsSumTable(g, f, leaves)
  <2>1. ASSUME NEW s \in SUBSET leaves, s # {}
        PROVE  f[CHOOSE x \in s : TRUE] = AmountOf(CHOOSE x \in s : TRUE)
    BY <2>1 DEF AmountsOf
  <2> DEFINE ours == [s \in SUBSET leaves |->
                        IF s = {} THEN 0
                        ELSE AmountOf(CHOOSE x \in s : TRUE) + g[s \ {CHOOSE x \in s : TRUE}]]
             theirs == [s \in SUBSET leaves |->
                          IF s = {} THEN 0
                          ELSE f[CHOOSE x \in s : TRUE] + g[s \ {CHOOSE x \in s : TRUE}]]
  <2> HIDE DEF f
  <2>2. ours = theirs
    BY <2>1
  <2>3. (Tabulates(g) <=> g = ours) /\ (IsSumTable(g, f, leaves) <=> g = theirs)
    BY DEF IsSumTable
  <2> HIDE DEF ours, theirs, Tabulates
  <2>4. QED BY <2>2, <2>3
<1>3. IsSumTable(SumTable(f, leaves), f, leaves)
  BY TableExists
<1> HIDE DEF f, Tabulates
<1>4. Tabulates(table)
  BY <1>2, <1>3
<1>5. leaves \in SUBSET leaves
  OBVIOUS
<1>6. table[leaves] = SumTable(f, leaves)[leaves]
  <2> HIDE DEF table
  <2>1. QED BY <1>2, <1>3, <1>4, <1>5, TablesAgree
<1>7. QED BY <1>1, <1>6, SumIsTableEntry DEF f

\* The facts about sets of leaves that the invariants use.
LEMMA LeafSums ==
  ASSUME NEW leaves \in SUBSET Leaf, IsFiniteSet(leaves)
  PROVE  /\ LeafSum({}) = 0
         /\ LeafSum(leaves) \in Nat
         /\ \A part \in SUBSET leaves : LeafSum(part) <= LeafSum(leaves)
         /\ \A leaf \in leaves : LeafSum(leaves) = leaf.amount + LeafSum(leaves \ {leaf})
<1>1. ASSUME NEW part \in SUBSET leaves
      PROVE  /\ IsFiniteSet(part) /\ AmountsOf(part) \in [part -> Nat]
             /\ LeafSum(part) = SumFunctionOnSet(AmountsOf(part), part)
             /\ AmountsOf(part) = [leaf \in part |-> AmountsOf(leaves)[leaf]]
  <2>1. IsFiniteSet(part)
    BY FS_Subset
  <2>2. \A leaf \in part : AmountOf(leaf) \in Nat
    BY RegistryAssumption DEF AmountOf, Leaf, Uint
  <2>3. AmountsOf(part) \in [part -> Nat] /\ AmountsOf(part) \in [part -> Int]
    BY <2>2 DEF AmountsOf
  <2>4. AmountsOf(part) = [leaf \in part |-> AmountsOf(leaves)[leaf]]
    BY DEF AmountsOf
  <2>5. QED BY <2>1, <2>3, <2>4, LeafSumIsSum
<1> DEFINE f == AmountsOf(leaves)
<1>2. f \in [leaves -> Nat] /\ f \in [leaves -> Int] /\ LeafSum(leaves) = SumFunctionOnSet(f, leaves)
  BY <1>1
<1> HIDE DEF f
<1>3. LeafSum({}) = 0
  <2>1. {} \in SUBSET leaves
    OBVIOUS
  <2>2. AmountsOf({}) \in [{} -> Int] /\ LeafSum({}) = SumFunctionOnSet(AmountsOf({}), {})
    BY <1>1, <2>1
  <2>3. QED BY <2>2, SumEmpty
<1>4. LeafSum(leaves) \in Nat
  BY <1>2, SumNat
<1>5. ASSUME NEW part \in SUBSET leaves PROVE LeafSum(part) <= LeafSum(leaves)
  <2>1. LeafSum(part) = SumFunctionOnSet([leaf \in part |-> f[leaf]], part)
    BY <1>1 DEF f
  <2>2. QED BY <1>2, <2>1, SumMonotone
<1>6. ASSUME NEW leaf \in leaves
      PROVE  LeafSum(leaves) = leaf.amount + LeafSum(leaves \ {leaf})
  <2>1. leaves \ {leaf} \in SUBSET leaves
    OBVIOUS
  <2>2. LeafSum(leaves \ {leaf})
          = SumFunctionOnSet([l \in leaves \ {leaf} |-> f[l]], leaves \ {leaf})
    BY <1>1, <2>1 DEF f
  <2>3. f[leaf] = leaf.amount
    BY DEF f, AmountsOf, AmountOf
  <2>4. SumFunctionOnSet(f, leaves)
          = f[leaf] + SumFunctionOnSet([l \in leaves \ {leaf} |-> f[l]], leaves \ {leaf})
    BY <1>2, SumOut
  <2>5. QED BY <1>2, <2>2, <2>3, <2>4
<1>7. QED BY <1>3, <1>4, <1>5, <1>6

(***************************************************************************)
(* Claims add up                                                           *)
(***************************************************************************)

SumsUp(id) == UniqueIndices(LeavesFor(id)) => claimedTotal[id] = LeafSum(ClaimedLeaves(id))

\* What the sums of one action depend on.
LeafSlice(id) == <<actions[id].merkleRoot, claimed[id], claimedTotal[id]>>

LEMMA SumsUpKept ==
  ASSUME NEW id \in ActionIds, SumsUp(id), LeafSlice(id)' = LeafSlice(id)
  PROVE  SumsUp(id)'
<1>1. LeavesFor(id)' = LeavesFor(id) /\ ClaimedLeaves(id)' = ClaimedLeaves(id)
  BY DEF LeafSlice, LeavesFor, ClaimedLeaves
<1>2. claimedTotal'[id] = claimedTotal[id]
  BY DEF LeafSlice
<1>3. QED BY <1>1, <1>2 DEF SumsUp

LEMMA LeavesForFacts ==
  ASSUME DistInv, NEW id \in ActionIds
  PROVE  /\ LeavesFor(id) \in SUBSET Leaf
         /\ IsFiniteSet(LeavesFor(id))
         /\ ClaimedLeaves(id) \in SUBSET LeavesFor(id)
<1>1. CASE actions[id].merkleRoot = NoRoot
  BY <1>1, FS_EmptySet DEF LeavesFor, ClaimedLeaves
<1>2. CASE actions[id].merkleRoot # NoRoot
  <2>1. actions[id].merkleRoot \in Roots
    BY <1>2, MapType DEF CorporateAction
  <2>2. LeavesOf[actions[id].merkleRoot] \in SUBSET Leaf /\ IsFiniteSet(LeavesOf[actions[id].merkleRoot])
    BY <2>1, DistributorAssumption, TreeAssumption
  <2>3. LeavesFor(id) \subseteq LeavesOf[actions[id].merkleRoot]
    BY <1>2 DEF LeavesFor
  <2>4. QED BY <2>2, <2>3, FS_Subset DEF ClaimedLeaves
<1>3. QED BY <1>1, <1>2

\* Before a root is published nothing is marked, so a new root starts at zero.
LEMMA IssuerSumsUp ==
  ASSUME DistInv, IssuerStep, UNCHANGED distVars, NEW k \in ActionIds, SumsUp(k)
  PROVE  SumsUp(k)'
<1>1. UNCHANGED <<claimed, claimedTotal>>
  BY DEF distVars, accountingVars
<1>2. ASSUME NEW caller \in Accounts, NEW args \in Announcements, AnnounceAction(caller, args)
      PROVE  actions'[k].merkleRoot = actions[k].merkleRoot
  <2>1. actionCount + 1 \in ActionIds => actions[actionCount + 1] = ZeroAction
    BY <1>2 DEF DistInv, RegistryInv, RegistryTypeOK, IdsDense, AnnounceAction, ActionIds
  <2>2. actions' = [actions EXCEPT ![actionCount + 1] = Recorded(actionCount + 1, args)]
    BY <1>2 DEF AnnounceAction
  <2>3. QED BY <2>1, <2>2, MapType DEF Recorded, ZeroAction
<1>3. ASSUME NEW caller \in Accounts, NEW id \in ActionIds, NEW root \in Roots \cup {NoRoot},
             NEW total \in Payouts, PublishRoot(caller, id, root, total)
      PROVE  SumsUp(k)'
  <2>1. CASE k # id
    <3>1. actions'[k] = actions[k]
      BY <1>3, <2>1, MapType DEF PublishRoot
    <3>2. QED BY <1>1, <3>1, SumsUpKept DEF LeafSlice
  <2>2. CASE k = id
    <3>1. claimed[k] = {} /\ claimedTotal[k] = 0
      BY <1>3, <2>2 DEF PublishRoot, Is, DistInv, Books
    <3>2. ClaimedLeaves(k)' = {}
      BY <1>1, <3>1 DEF ClaimedLeaves
    <3>3. LeafSum({}) = 0
      BY LeafSums, FS_EmptySet
    <3>4. QED BY <1>1, <3>1, <3>2, <3>3 DEF SumsUp
  <2>3. QED BY <2>1, <2>2
<1>4. ASSUME NEW caller \in Accounts, NEW id \in ActionIds, CancelAction(caller, id)
      PROVE  actions'[k].merkleRoot = actions[k].merkleRoot
  BY <1>4, MapType DEF CancelAction, SetStatus, CorporateAction
<1>5. QED BY <1>1, <1>2, <1>3, <1>4, SumsUpKept DEF IssuerStep, LeafSlice

\* A claim marks one more leaf and pays its amount.
LEMMA ClaimSumsUp ==
  ASSUME DistInv, NEW leaf \in Leaf, Claim(leaf), NEW k \in ActionIds, SumsUp(k)
  PROVE  SumsUp(k)'
<1> PICK id \in ActionIds : id = leaf.id
  BY DEF Leaf
<1>1. /\ actions' = actions
      /\ claimed' = [claimed EXCEPT ![id] = @ \cup {leaf.index}]
      /\ claimedTotal' = [claimedTotal EXCEPT ![id] = claimedTotal[id] + leaf.amount]
      /\ leaf.index \notin claimed[id]
      /\ leaf \in LeavesOf[actions[id].merkleRoot]
      /\ actions[id].status = "CLAIMABLE"
  BY DEF Claim, Marked, registryVars, Dividend, Is
<1>2. claimed \in [ActionIds -> SUBSET Indices] /\ claimedTotal \in [ActionIds -> Uint]
  BY DEF DistInv, MoneyTypeOK
<1>3. CASE k # id
  <2>1. LeafSlice(k)' = LeafSlice(k)
    BY <1>1, <1>2, <1>3 DEF LeafSlice
  <2>2. QED BY <2>1, SumsUpKept
<1>4. CASE k = id
  <2> SUFFICES ASSUME UniqueIndices(LeavesFor(k)') PROVE claimedTotal'[k] = LeafSum(ClaimedLeaves(k)')
    BY DEF SumsUp
  <2>1. LeavesFor(k)' = LeavesFor(k) /\ leaf \in LeavesFor(k)
    <3>1. actions[k].merkleRoot # NoRoot
      BY <1>1, <1>4 DEF DistInv, RegistryInv, PublishedSound, Published
    <3>2. QED BY <1>1, <1>4, <3>1 DEF LeavesFor
  <2>2. /\ leaf \in ClaimedLeaves(k)'
        /\ ClaimedLeaves(k)' \ {leaf} = ClaimedLeaves(k)
        /\ ClaimedLeaves(k)' \subseteq LeavesFor(k)
    <3>1. claimed'[k] = claimed[k] \cup {leaf.index} /\ leaf.index \notin claimed[k]
      BY <1>1, <1>2, <1>4
    <3>2. \A l \in LeavesFor(k) : l.index = leaf.index => l = leaf
      BY <2>1 DEF UniqueIndices
    <3>3. ClaimedLeaves(k)' = {l \in LeavesFor(k) : l.index \in claimed[k] \cup {leaf.index}}
      BY <2>1, <3>1 DEF ClaimedLeaves
    <3>4. QED BY <2>1, <3>1, <3>2, <3>3 DEF ClaimedLeaves
  <2>3. ClaimedLeaves(k)' \in SUBSET Leaf /\ IsFiniteSet(ClaimedLeaves(k)')
    BY <2>2, LeavesForFacts, FS_Subset
  <2>4. LeafSum(ClaimedLeaves(k)') = leaf.amount + LeafSum(ClaimedLeaves(k))
    <3> DEFINE C == ClaimedLeaves(k)'
    <3>1. C \in SUBSET Leaf /\ IsFiniteSet(C) /\ leaf \in C /\ C \ {leaf} = ClaimedLeaves(k)
      BY <2>2, <2>3
    <3> HIDE DEF C
    <3>2. LeafSum(C) = leaf.amount + LeafSum(C \ {leaf})
      BY <3>1, LeafSums
    <3>3. LeafSum(C) = leaf.amount + LeafSum(ClaimedLeaves(k))
      BY <3>1, <3>2
    <3>4. QED BY <3>3 DEF C
  <2>5. claimedTotal[k] = LeafSum(ClaimedLeaves(k))
    BY <2>1 DEF SumsUp
  <2>6. claimedTotal'[k] = claimedTotal[k] + leaf.amount
    BY <1>1, <1>2, <1>4
  <2>7. claimedTotal[k] \in Int /\ leaf.amount \in Int
    BY <1>2, RegistryAssumption DEF Leaf, Uint
  <2>8. QED BY <2>4, <2>5, <2>6, <2>7
<1>5. QED BY <1>3, <1>4
\* Every other step leaves root, bitmap and paid total of each action alone.
LEMMA StepSumsUp ==
  ASSUME DistInv, [Next]_vars, NEW k \in ActionIds, SumsUp(k)
  PROVE  SumsUp(k)'
<1>1. CASE IssuerStep /\ UNCHANGED distVars
  BY <1>1, IssuerSumsUp
<1>2. CASE \E leaf \in Leaves : Claim(leaf)
  BY <1>2, ClaimSumsUp, LeavesAreLeaf
<1>3. ASSUME UNCHANGED <<claimed, claimedTotal>>, RootTerms(actions'[k]) = RootTerms(actions[k])
      PROVE  SumsUp(k)'
  BY <1>3, SumsUpKept DEF LeafSlice, RootTerms
<1>4. ASSUME NEW id \in ActionIds, NEW from, NEW to \in Statuses,
             DistributorCall(Distributor, id, from, to)
      PROVE  RootTerms(actions'[k]) = RootTerms(actions[k])
  BY <1>4, CallEffect DEF DistInv
<1>5. "CLAIMABLE" \in Statuses /\ "FINALIZED" \in Statuses /\ "CANCELLED" \in Statuses
  BY DEF Statuses
<1>6. ASSUME NEW caller \in Accounts, NEW id \in ActionIds, NEW amount \in Amounts,
             Fund(caller, id, amount)
      PROVE  SumsUp(k)'
  <2>1. UNCHANGED <<claimed, claimedTotal>> /\ (MarkClaimable(Distributor, id) \/ actions' = actions)
    BY <1>6 DEF Fund, registryVars
  <2>2. QED BY <1>3, <1>4, <1>5, <2>1 DEF MarkClaimable
<1>7. ASSUME NEW caller \in Accounts, NEW id \in ActionIds, SweepUnclaimed(caller, id)
      PROVE  SumsUp(k)'
  <2>1. UNCHANGED <<claimed, claimedTotal>> /\ MarkFinalized(Distributor, id)
    BY <1>7 DEF SweepUnclaimed, accountingVars
  <2>2. QED BY <1>3, <1>4, <1>5, <2>1 DEF MarkFinalized
<1>8. ASSUME NEW caller \in Accounts, NEW id \in ActionIds, CancelPublishedAction(caller, id)
      PROVE  SumsUp(k)'
  <2>1. UNCHANGED <<claimed, claimedTotal>> /\ MarkCancelled(Distributor, id)
    BY <1>8 DEF CancelPublishedAction
  <2>2. QED BY <1>3, <1>4, <1>5, <2>1 DEF MarkCancelled
<1>9. CASE \/ \E paused \in BOOLEAN : SetDistributorPaused(paused)
           \/ GovernanceStep /\ UNCHANGED distVars
           \/ TokenStep \/ Tick \/ UNCHANGED vars
  <2>1. UNCHANGED <<actions, claimed, claimedTotal>>
    BY <1>9 DEF SetDistributorPaused, GovernanceStep, SetAssetIssuer, GrantDistributor,
                RevokeDistributor, SetRegistryPaused, TokenStep, StrayTransfer, Tick, NextBlock,
                distVars, registryVars, accountingVars, vars
  <2>2. QED BY <1>3, <2>1
<1>10. QED BY <1>1, <1>2, <1>6, <1>7, <1>8, <1>9 DEF Next, SettlementStep

\* What an action has paid is the sum of the leaves in its bitmap, for any
\* roots whose leaves have distinct indices: no leaf is ever paid twice or short.
THEOREM ClaimsAlwaysAddUp == Spec => []ClaimsAddUp
<1> DEFINE Inv == \A id \in ActionIds : SumsUp(id)
<1>1. Init => Inv
  <2> SUFFICES ASSUME Init, NEW id \in ActionIds PROVE SumsUp(id)
    OBVIOUS
  <2>1. ClaimedLeaves(id) = {} /\ claimedTotal[id] = 0
    BY DEF Init, ClaimedLeaves
  <2>2. LeafSum({}) = 0
    BY LeafSums, FS_EmptySet
  <2>3. QED BY <2>1, <2>2 DEF SumsUp
<1>2. DistInv /\ Inv /\ [Next]_vars => Inv'
  BY StepSumsUp
<1>3. Inv => ClaimsAddUp
  BY DEF ClaimsAddUp, SumsUp
<1>4. QED BY <1>1, <1>2, <1>3, DistributorInvariant, PTL DEF Spec

(***************************************************************************)
(* Honest leaves                                                           *)
(***************************************************************************)

\* An unclaimed leaf fits in what is left of the honest total, hence in the
\* action's escrow, hence in the pool.
LEMMA HonestPayable == DistInv /\ ClaimsAddUp /\ Solvent => HonestLeavesPayable
<1> SUFFICES ASSUME DistInv, ClaimsAddUp, Solvent, NEW id \in ActionIds,
                    Is(id, "CLAIMABLE"), Honest(id),
                    NEW leaf \in LeavesFor(id) \ ClaimedLeaves(id)
             PROVE  /\ claimedTotal[id] + leaf.amount <= funded[id]
                    /\ leaf.amount <= balance[TokenOf(id)][Distributor]
  BY DEF HonestLeavesPayable
<1> DEFINE C == ClaimedLeaves(id)
           L == LeavesFor(id)
<1>1. /\ L \in SUBSET Leaf /\ IsFiniteSet(L) /\ C \in SUBSET L
      /\ C \cup {leaf} \in SUBSET L /\ leaf \in Leaf
  BY LeavesForFacts
<1>2. claimedTotal[id] = LeafSum(C) /\ LeafSum(L) <= actions[id].totalPayout
  BY DEF ClaimsAddUp, Honest
<1>3. leaf \notin C
  OBVIOUS
<1> HIDE DEF C, L
<1>4. LeafSum(C \cup {leaf}) = leaf.amount + LeafSum(C)
  <2>1. C \cup {leaf} \in SUBSET Leaf /\ IsFiniteSet(C \cup {leaf}) /\ (C \cup {leaf}) \ {leaf} = C
    BY <1>1, <1>3, FS_Subset
  <2>2. LeafSum(C \cup {leaf}) = leaf.amount + LeafSum((C \cup {leaf}) \ {leaf})
    BY <2>1, LeafSums
  <2>3. QED BY <2>1, <2>2
<1>5. LeafSum(C \cup {leaf}) <= LeafSum(L) /\ LeafSum(L) \in Nat
  BY <1>1, LeafSums
<1>6. /\ claimedTotal[id] \in Nat /\ funded[id] \in Nat /\ leaf.amount \in Nat
      /\ actions[id].totalPayout \in Nat
  BY <1>1, MapType DEF CorporateAction, Leaf, Uint
<1>7. funded[id] = actions[id].totalPayout
  BY DEF DistInv, Books, Is
<1>8. claimedTotal[id] + leaf.amount <= funded[id]
  BY <1>2, <1>4, <1>5, <1>6, <1>7
<1>9. TokenOf(id) \in Tokens
  <2>1. IsCash(id) /\ actions[id].totalPayout > 0
    BY DEF DistInv, RegistryInv, PublishedSound, Published, Is
  <2>2. Exists(id)
    <3>1. 0 # 0 \/ actions[id] # ZeroAction
      BY <2>1 DEF ZeroAction
    <3>2. actions[id].id = id
      BY <3>1 DEF DistInv, RegistryInv, IdsDense
    <3>3. QED BY <3>2 DEF Exists, ActionIds
  <2>3. QED BY <2>1, <2>2 DEF DistInv, CashHasToken
<1>10. Escrow(id) <= SumFunctionOnSet(OwedIn(TokenOf(id)), ActionIds)
  <2>1. ASSUME NEW k \in ActionIds PROVE Escrow(k) \in Nat
    <3>1. funded[k] \in Nat /\ claimedTotal[k] \in Nat /\ Escrow(k) >= 0
      BY MapType DEF Uint, Solvent
    <3>2. QED BY <3>1 DEF Escrow
  <2>2. OwedIn(TokenOf(id)) \in [ActionIds -> Nat]
    BY <2>1 DEF OwedIn
  <2>3. IsFiniteSet(ActionIds)
    BY RegistryAssumption, FS_Interval DEF ActionIds
  <2>4. OwedIn(TokenOf(id))[id] = Escrow(id)
    BY DEF OwedIn
  <2>5. QED BY <2>2, <2>3, <2>4, SumNat
<1>11. Escrow(id) = funded[id] - claimedTotal[id]
  BY DEF Escrow, Is
<1>12. SumFunctionOnSet(OwedIn(TokenOf(id)), ActionIds) <= balance[TokenOf(id)][Distributor]
  BY <1>9 DEF Solvent
<1>13. /\ balance[TokenOf(id)][Distributor] \in Int
       /\ SumFunctionOnSet(OwedIn(TokenOf(id)), ActionIds) \in Int
  <2>1. balance[TokenOf(id)][Distributor] \in Uint
    BY <1>9, MapType DEF BalanceType, Addresses
  <2>2. ASSUME NEW k \in ActionIds PROVE Escrow(k) \in Int
    BY MapType DEF Escrow, Uint
  <2>3. OwedIn(TokenOf(id)) \in [ActionIds -> Int] /\ IsFiniteSet(ActionIds)
    BY <2>2, RegistryAssumption, FS_Interval DEF OwedIn, ActionIds
  <2>4. QED BY <2>1, <2>3, SumInt DEF Uint
<1>14. QED BY <1>6, <1>8, <1>10, <1>11, <1>12, <1>13

\* Under an honest root nobody can be starved, neither by earlier claims nor by
\* the other actions of the pool.
THEOREM HonestLeavesAlwaysPayable == Spec => []HonestLeavesPayable
BY ClaimsAlwaysAddUp, AlwaysSolvent, DistributorInvariant, HonestPayable, PTL
(***************************************************************************)
(* What readers see                                                        *)
(***************************************************************************)

shownBook == [id \in ActionIds |-> Shown(id)]

\* What a reader sees of one action.
View(id) == <<actions[id], funded[id], claimedTotal[id], claimed[id]>>

Entries ==
  [status : Statuses \cup {"NONE"}, kind : {"CASH", "INFO"}, goal : Uint,
   funded : Uint, claimed : Uint, paid : SUBSET Indices]

\* Entries are equal if their fields are.
LEMMA SameEntry ==
  ASSUME NEW x \in Entries, NEW y \in Entries,
         x.status = y.status, x.kind = y.kind, x.goal = y.goal,
         x.funded = y.funded, x.claimed = y.claimed, x.paid = y.paid
  PROVE  x = y
BY DEF Entries

LEMMA ShownTyped == DistInv => shownBook \in [ActionIds -> Entries]
<1> SUFFICES ASSUME DistInv, NEW id \in ActionIds PROVE Shown(id) \in Entries
  BY DEF shownBook
<1>1. /\ actions[id].status \in Statuses /\ actions[id].totalPayout \in Uint
      /\ funded[id] \in Uint /\ claimedTotal[id] \in Uint /\ claimed[id] \in SUBSET Indices
  BY DEF DistInv, RegistryInv, RegistryTypeOK, MoneyTypeOK, CorporateAction
<1>2. QED BY <1>1 DEF Shown, Entries

LEMMA ShownTypedNext == DistInv' => shownBook' \in [ActionIds -> Entries]
<1> SUFFICES ASSUME DistInv', NEW id \in ActionIds PROVE Shown(id)' \in Entries
  BY DEF shownBook
<1>1. /\ actions'[id].status \in Statuses /\ actions'[id].totalPayout \in Uint
      /\ funded'[id] \in Uint /\ claimedTotal'[id] \in Uint /\ claimed'[id] \in SUBSET Indices
  BY DEF DistInv, RegistryInv, RegistryTypeOK, MoneyTypeOK, CorporateAction
<1>2. QED BY <1>1 DEF Shown, Entries

\* A step that disturbs one action changes one entry of the book.
LEMMA OneEntry ==
  ASSUME NEW id \in ActionIds, \A k \in ActionIds : k # id => View(k)' = View(k)
  PROVE  shownBook' = [shownBook EXCEPT ![id] = Shown(id)']
<1>1. \A k \in ActionIds : k # id => Shown(k)' = Shown(k)
  BY DEF View, Shown, Exists, IsCash
<1>2. QED BY <1>1 DEF shownBook

LEMMA NoEntry ==
  ASSUME \A k \in ActionIds : View(k)' = View(k)
  PROVE  UNCHANGED shownBook
<1>1. \A k \in ActionIds : Shown(k)' = Shown(k)
  BY DEF View, Shown, Exists, IsCash
<1>2. QED BY <1>1 DEF shownBook

\* An announced id is the one it was announced under; the others hold nothing.
LEMMA ShownFacts ==
  ASSUME DistInv, NEW id \in ActionIds
  PROVE  /\ shownBook[id] = Shown(id)
         /\ Exists(id) <=> id <= actionCount
         /\ ~Exists(id) => Shown(id) = Book!Blank
         /\ actions[id].status # "ANNOUNCED" => Exists(id)
<1>1. IF id <= actionCount THEN actions[id].id = id ELSE actions[id] = ZeroAction
  BY DEF DistInv, RegistryInv, IdsDense
<1>2. Exists(id) <=> id <= actionCount
  BY <1>1 DEF Exists, ActionIds, ZeroAction
<1>3. actions[id].status # "ANNOUNCED" => Exists(id)
  BY <1>1, <1>2 DEF ZeroAction
<1>4. ASSUME ~Exists(id) PROVE Shown(id) = Book!Blank
  <2>1. actions[id] = ZeroAction
    BY <1>1, <1>2, <1>4
  <2>2. funded[id] = 0 /\ claimed[id] = {} /\ claimedTotal[id] = 0
    BY <2>1 DEF DistInv, Books, ZeroAction
  <2>3. QED BY <1>4, <2>1, <2>2 DEF Shown, Book!Blank, ZeroAction
<1>5. QED BY <1>2, <1>3, <1>4 DEF shownBook

LEMMA BookInitial == Init => Book!BookInit
<1> SUFFICES ASSUME Init PROVE Book!BookInit
  OBVIOUS
<1>1. DistInv /\ actionCount = 0
  BY InitDistInv DEF Init, RegistryInit
<1>2. ASSUME NEW id \in ActionIds PROVE Shown(id) = Book!Blank
  BY <1>1, ShownFacts DEF ActionIds
<1>3. QED BY <1>2 DEF Book!BookInit

\* The next id is announced into a blank entry, behind entries that are not blank.
LEMMA AnnounceShows ==
  ASSUME DistInv, DistInv', NEW caller \in Accounts, NEW args \in Announcements,
         AnnounceAction(caller, args), UNCHANGED distVars
  PROVE  \E id \in ActionIds : \E kind \in {"CASH", "INFO"} : Book!Announce(id, kind)
<1>0. actionCount + 1 \in ActionIds /\ actionCount \in Nat
  BY RegistryAssumption DEF DistInv, RegistryInv, RegistryTypeOK, AnnounceAction, ActionIds
<1> PICK n \in ActionIds : n = actionCount + 1
  BY <1>0
<1> DEFINE kind == IF args.actionType = "CASH_DIVIDEND" THEN "CASH" ELSE "INFO"
<1>1. /\ actions' = [actions EXCEPT ![n] = Recorded(n, args)]
      /\ UNCHANGED <<funded, claimed, claimedTotal>>
  BY DEF AnnounceAction, distVars, accountingVars
<1>2. ~Exists(n) /\ shownBook[n] = Book!Blank
  BY <1>0, ShownFacts DEF ActionIds
<1>3. \A k \in ActionIds : k < n => Exists(k) /\ shownBook[k] = Shown(k)
  BY <1>0, ShownFacts DEF ActionIds
<1>4. funded[n] = 0 /\ claimedTotal[n] = 0 /\ claimed[n] = {}
  BY <1>2, ShownFacts DEF Shown, Book!Blank
<1>5. Shown(n)' = [status |-> "ANNOUNCED", kind |-> kind, goal |-> 0, funded |-> 0,
                   claimed |-> 0, paid |-> {}]
  <2>1. actions'[n] = Recorded(n, args) /\ n # 0
    BY <1>1, MapType DEF ActionIds
  <2>2. /\ Recorded(n, args).id = n /\ Recorded(n, args).status = "ANNOUNCED"
        /\ Recorded(n, args).totalPayout = 0
        /\ Recorded(n, args).actionType = args.actionType
    BY DEF Recorded
  <2>3. QED BY <1>1, <1>4, <2>1, <2>2 DEF Shown, Exists, IsCash
<1>6. shownBook' = [shownBook EXCEPT ![n] = Shown(n)']
  <2>1. \A k \in ActionIds : k # n => View(k)' = View(k)
    BY <1>1, MapType DEF View
  <2>2. QED BY <2>1, OneEntry
<1>7. shownBook' = [shownBook EXCEPT ![n].status = "ANNOUNCED", ![n].kind = kind]
  <2> DEFINE b == shownBook
             entry == [b[n] EXCEPT !.status = "ANNOUNCED", !.kind = kind]
  <2>1. /\ b \in [ActionIds -> Entries] /\ Shown(n)' \in Entries
        /\ kind \in {"CASH", "INFO"} /\ "ANNOUNCED" \in Statuses
    BY ShownTyped, ShownTypedNext DEF shownBook, Statuses
  <2>2. b[n].goal = 0 /\ b[n].funded = 0 /\ b[n].claimed = 0 /\ b[n].paid = {}
    BY <1>2 DEF Book!Blank
  <2> HIDE DEF b, kind
  <2>3. /\ entry \in Entries
        /\ entry.status = "ANNOUNCED" /\ entry.kind = kind /\ entry.goal = 0
        /\ entry.funded = 0 /\ entry.claimed = 0 /\ entry.paid = {}
    BY <2>1, <2>2 DEF Entries
  <2>4. Shown(n)' = entry
    <3> HIDE DEF entry
    <3>1. QED BY <1>5, <2>1, <2>3, SameEntry
  <2>5. n \in DOMAIN b
    BY <2>1
  <2>6. [b EXCEPT ![n].status = "ANNOUNCED", ![n].kind = kind] = [b EXCEPT ![n] = entry]
    BY <2>5
  <2>7. QED BY <1>6, <2>4, <2>6 DEF b
<1>8. \A k \in ActionIds : k < n => ~Book!At(k, "NONE")
  <2>1. ASSUME NEW k \in ActionIds, k < n PROVE Shown(k).status # "NONE"
    <3>1. actions[k].status \in Statuses
      BY MapType DEF CorporateAction
    <3>2. QED BY <1>3, <2>1, <3>1 DEF Shown, Statuses
  <2>2. QED BY <2>1 DEF Book!At
<1>9. Book!At(n, "NONE")
  BY <1>2 DEF Book!At, Book!Blank, shownBook
<1>10. Book!Announce(n, kind)
  BY <1>7, <1>8, <1>9 DEF Book!Announce, shownBook
<1>11. QED BY <1>10
\* An operation on an announced action: what it showed before, and what it
\* shows after, field by field.
LEMMA EntryChange ==
  ASSUME DistInv, DistInv', NEW id \in ActionIds, Exists(id),
         Terms(actions'[id]) = Terms(actions[id]),
         \A k \in ActionIds : k # id => View(k)' = View(k)
  PROVE  /\ shownBook' = [shownBook EXCEPT ![id] = Shown(id)']
         /\ shownBook \in [ActionIds -> Entries] /\ Shown(id)' \in Entries
         /\ shownBook[id].status = actions[id].status
         /\ shownBook[id].kind = IF IsCash(id) THEN "CASH" ELSE "INFO"
         /\ shownBook[id].goal = actions[id].totalPayout
         /\ shownBook[id].funded = funded[id]
         /\ shownBook[id].claimed = claimedTotal[id]
         /\ shownBook[id].paid = claimed[id]
         /\ Shown(id)'.status = actions'[id].status
         /\ Shown(id)'.kind = shownBook[id].kind
         /\ Shown(id)'.goal = actions'[id].totalPayout
         /\ Shown(id)'.funded = funded'[id]
         /\ Shown(id)'.claimed = claimedTotal'[id]
         /\ Shown(id)'.paid = claimed'[id]
<1>1. actions'[id].id = actions[id].id /\ actions'[id].actionType = actions[id].actionType
  BY DEF Terms
<1>2. Exists(id)' /\ (IsCash(id)' <=> IsCash(id))
  BY <1>1 DEF Exists, IsCash
<1>3. shownBook[id] = Shown(id)
  BY DEF shownBook
<1>4. /\ Shown(id).status = actions[id].status
      /\ Shown(id).kind = IF IsCash(id) THEN "CASH" ELSE "INFO"
      /\ Shown(id).goal = actions[id].totalPayout /\ Shown(id).funded = funded[id]
      /\ Shown(id).claimed = claimedTotal[id] /\ Shown(id).paid = claimed[id]
  BY DEF Shown
<1>5. /\ Shown(id)'.status = actions'[id].status
      /\ Shown(id)'.kind = IF IsCash(id) THEN "CASH" ELSE "INFO"
      /\ Shown(id)'.goal = actions'[id].totalPayout /\ Shown(id)'.funded = funded'[id]
      /\ Shown(id)'.claimed = claimedTotal'[id] /\ Shown(id)'.paid = claimed'[id]
  BY <1>2 DEF Shown
<1>6. shownBook' = [shownBook EXCEPT ![id] = Shown(id)']
  BY OneEntry
<1>7. shownBook \in [ActionIds -> Entries] /\ Shown(id)' \in Entries
  BY ShownTyped, ShownTypedNext DEF shownBook
<1>8. QED BY <1>3, <1>4, <1>5, <1>6, <1>7

LEMMA PublishShows ==
  ASSUME DistInv, DistInv', NEW caller \in Accounts, NEW id \in ActionIds,
         NEW root \in Roots \cup {NoRoot}, NEW total \in Payouts,
         PublishRoot(caller, id, root, total), UNCHANGED distVars
  PROVE  total \in Uint /\ Book!PublishGoal(id, total)
<1> DEFINE b == shownBook
           entry == [b[id] EXCEPT !.status = "ROOT_PUBLISHED", !.goal = total]
<1>1. /\ Exists(id) /\ IsCash(id) /\ actions[id].status = "ANNOUNCED"
      /\ total \in Uint /\ total > 0
      /\ UNCHANGED <<funded, claimed, claimedTotal>>
  BY RegistryAssumption DEF PublishRoot, Is, Uint, distVars, accountingVars
<1>2. /\ actions'[id].status = "ROOT_PUBLISHED" /\ actions'[id].totalPayout = total
      /\ Terms(actions'[id]) = Terms(actions[id])
      /\ \A k \in ActionIds : k # id => actions'[k] = actions[k]
  BY MapType DEF PublishRoot, CorporateAction, Terms
<1>3. \A k \in ActionIds : k # id => View(k)' = View(k)
  BY <1>1, <1>2 DEF View
<1>4. /\ b' = [b EXCEPT ![id] = Shown(id)']
      /\ b \in [ActionIds -> Entries] /\ Shown(id)' \in Entries
      /\ b[id].status = "ANNOUNCED" /\ b[id].kind = "CASH"
      /\ Shown(id)'.status = "ROOT_PUBLISHED" /\ Shown(id)'.kind = b[id].kind
      /\ Shown(id)'.goal = total /\ Shown(id)'.funded = b[id].funded
      /\ Shown(id)'.claimed = b[id].claimed /\ Shown(id)'.paid = b[id].paid
  BY <1>1, <1>2, <1>3, EntryChange
<1> HIDE DEF b
<1>5. /\ entry \in Entries
      /\ entry.status = "ROOT_PUBLISHED" /\ entry.kind = b[id].kind /\ entry.goal = total
      /\ entry.funded = b[id].funded /\ entry.claimed = b[id].claimed
      /\ entry.paid = b[id].paid
  BY <1>1, <1>4 DEF Entries, Statuses
<1>6. Shown(id)' = entry
  <2> HIDE DEF entry
  <2>1. QED BY <1>4, <1>5, SameEntry
<1>7. [b EXCEPT ![id].status = "ROOT_PUBLISHED", ![id].goal = total] = [b EXCEPT ![id] = entry]
  BY <1>4
<1>8. QED BY <1>1, <1>4, <1>6, <1>7 DEF Book!PublishGoal, Book!At, b, shownBook

\* Cancelling an announcement and voiding a published root show the same.
LEMMA VoidShows ==
  ASSUME DistInv, DistInv', NEW id \in ActionIds, Exists(id),
         actions[id].status \in {"ANNOUNCED", "ROOT_PUBLISHED"},
         actions'[id].status = "CANCELLED",
         Terms(actions'[id]) = Terms(actions[id]),
         actions'[id].totalPayout = actions[id].totalPayout,
         UNCHANGED <<claimed, claimedTotal>>,
         \A k \in ActionIds : k # id => actions'[k] = actions[k] /\ funded'[k] = funded[k]
  PROVE  Book!Void(id)
<1> DEFINE b == shownBook
           entry == [b[id] EXCEPT !.status = "CANCELLED", !.funded = 0]
<1>1. funded'[id] = 0
  BY DEF DistInv, Books
<1>2. \A k \in ActionIds : k # id => View(k)' = View(k)
  BY DEF View
<1>3. /\ b' = [b EXCEPT ![id] = Shown(id)']
      /\ b \in [ActionIds -> Entries] /\ Shown(id)' \in Entries
      /\ b[id].status \in {"ANNOUNCED", "ROOT_PUBLISHED"}
      /\ Shown(id)'.status = "CANCELLED" /\ Shown(id)'.kind = b[id].kind
      /\ Shown(id)'.goal = b[id].goal /\ Shown(id)'.funded = 0
      /\ Shown(id)'.claimed = b[id].claimed /\ Shown(id)'.paid = b[id].paid
  BY <1>1, <1>2, EntryChange
<1> HIDE DEF b
<1>4. /\ entry \in Entries
      /\ entry.status = "CANCELLED" /\ entry.kind = b[id].kind /\ entry.goal = b[id].goal
      /\ entry.funded = 0 /\ entry.claimed = b[id].claimed /\ entry.paid = b[id].paid
  BY <1>3, RegistryAssumption DEF Entries, Statuses, Uint
<1>5. Shown(id)' = entry
  <2> HIDE DEF entry
  <2>1. QED BY <1>3, <1>4, SameEntry
<1>6. [b EXCEPT ![id].status = "CANCELLED", ![id].funded = 0] = [b EXCEPT ![id] = entry]
  BY <1>3
<1>7. QED BY <1>3, <1>5, <1>6 DEF Book!Void, b, shownBook

LEMMA FundShows ==
  ASSUME DistInv, DistInv', NEW caller \in Accounts, NEW id \in ActionIds,
         NEW amount \in Amounts, Fund(caller, id, amount)
  PROVE  \E m \in Uint : Book!Deposit(id, m)
<1> DEFINE b == shownBook
<1>1. /\ Exists(id) /\ actions[id].status = "ROOT_PUBLISHED"
      /\ UNCHANGED <<claimed, claimedTotal>>
  BY DEF Fund, Dividend, Is
<1>2. PICK m \in Uint :
        /\ funded[id] + m <= actions[id].totalPayout
        /\ funded'[id] = funded[id] + m
        /\ \A k \in ActionIds : k # id => funded'[k] = funded[k]
        /\ actions'[id].status =
              IF funded[id] + m = actions[id].totalPayout
              THEN "CLAIMABLE" ELSE "ROOT_PUBLISHED"
        /\ Terms(actions'[id]) = Terms(actions[id])
        /\ RootTerms(actions'[id]) = RootTerms(actions[id])
        /\ \A k \in ActionIds : k # id => actions'[k] = actions[k]
  BY FundEffect
<1> DEFINE total == b[id].funded + m
           status == IF total = b[id].goal THEN "CLAIMABLE" ELSE b[id].status
           entry == [b[id] EXCEPT !.funded = total, !.status = status]
<1>3. actions'[id].totalPayout = actions[id].totalPayout
  BY <1>2 DEF RootTerms
<1>4. \A k \in ActionIds : k # id => View(k)' = View(k)
  BY <1>1, <1>2 DEF View
<1>5. /\ b' = [b EXCEPT ![id] = Shown(id)']
      /\ b \in [ActionIds -> Entries] /\ Shown(id)' \in Entries
      /\ b[id].status = "ROOT_PUBLISHED"
      /\ total <= b[id].goal
      /\ Shown(id)'.status = status /\ Shown(id)'.kind = b[id].kind
      /\ Shown(id)'.goal = b[id].goal /\ Shown(id)'.funded = total
      /\ Shown(id)'.claimed = b[id].claimed /\ Shown(id)'.paid = b[id].paid
  <2>1. Exists(id) /\ Terms(actions'[id]) = Terms(actions[id])
    BY <1>1, <1>2
  <2>2. QED BY <1>1, <1>2, <1>3, <1>4, <2>1, EntryChange
<1>6. Book!At(id, "ROOT_PUBLISHED")
  BY <1>5 DEF Book!At, shownBook
<1>7. total \in Uint /\ status \in Statuses \cup {"NONE"}
  BY <1>5 DEF Entries
<1> HIDE DEF b
<1>8. /\ entry \in Entries
      /\ entry.status = status /\ entry.kind = b[id].kind /\ entry.goal = b[id].goal
      /\ entry.funded = total /\ entry.claimed = b[id].claimed /\ entry.paid = b[id].paid
  <2> HIDE DEF total, status
  <2>1. QED BY <1>5, <1>7 DEF Entries
<1>9. Shown(id)' = entry
  <2> HIDE DEF entry, total, status
  <2>1. QED BY <1>5, <1>8, SameEntry
<1>10. [b EXCEPT ![id].funded = total, ![id].status = status] = [b EXCEPT ![id] = entry]
  <2> HIDE DEF total, status
  <2>1. QED BY <1>5
<1>11. b' = [b EXCEPT ![id].funded = total,
                      ![id].status = IF total = b[id].goal THEN "CLAIMABLE" ELSE @]
  BY <1>5, <1>9, <1>10
<1>12. QED BY <1>5, <1>6, <1>11 DEF Book!Deposit, b, shownBook

LEMMA ClaimShows ==
  ASSUME DistInv, DistInv', NEW leaf \in Leaf, Claim(leaf)
  PROVE  \E paid \in [index : Indices, amount : Uint] : Book!Pay(leaf.id, paid)
<1> DEFINE b == shownBook
<1> PICK id \in ActionIds, index \in Indices, amount \in Uint :
      id = leaf.id /\ index = leaf.index /\ amount = leaf.amount
  BY DEF Leaf
<1> DEFINE total == b[id].claimed + amount
           paid == b[id].paid \cup {index}
           entry == [b[id] EXCEPT !.paid = paid, !.claimed = total]
           pair == [index |-> index, amount |-> amount]
<1>1. /\ Exists(id) /\ actions[id].status = "CLAIMABLE"
      /\ index \notin claimed[id]
      /\ claimed' = [claimed EXCEPT ![id] = claimed[id] \cup {index}]
      /\ claimedTotal[id] + amount <= funded[id]
      /\ claimedTotal' = [claimedTotal EXCEPT ![id] = claimedTotal[id] + amount]
      /\ UNCHANGED <<actions, funded>>
  BY DEF Claim, Dividend, Is, Marked, WithinFunding, registryVars
<1>2. claimed \in [ActionIds -> SUBSET Indices] /\ claimedTotal \in [ActionIds -> Uint]
  BY DEF DistInv, MoneyTypeOK
<1>3. \A k \in ActionIds : k # id => View(k)' = View(k)
  BY <1>1, <1>2 DEF View
<1>4. Terms(actions'[id]) = Terms(actions[id])
  BY <1>1
<1>5. /\ b' = [b EXCEPT ![id] = Shown(id)']
      /\ b \in [ActionIds -> Entries] /\ Shown(id)' \in Entries
      /\ b[id].status = "CLAIMABLE" /\ index \notin b[id].paid
      /\ total <= b[id].funded
      /\ Shown(id)'.status = b[id].status /\ Shown(id)'.kind = b[id].kind
      /\ Shown(id)'.goal = b[id].goal /\ Shown(id)'.funded = b[id].funded
      /\ Shown(id)'.claimed = total /\ Shown(id)'.paid = paid
  BY <1>1, <1>2, <1>3, <1>4, EntryChange
<1>6. total \in Uint /\ paid \in SUBSET Indices
  BY <1>5 DEF Entries
<1> HIDE DEF b
<1>7. /\ entry \in Entries
      /\ entry.status = b[id].status /\ entry.kind = b[id].kind /\ entry.goal = b[id].goal
      /\ entry.funded = b[id].funded /\ entry.claimed = total /\ entry.paid = paid
  <2> HIDE DEF total, paid
  <2>1. QED BY <1>5, <1>6 DEF Entries
<1>8. Shown(id)' = entry
  <2> HIDE DEF entry, total, paid
  <2>1. QED BY <1>5, <1>7, SameEntry
<1>9. [b EXCEPT ![id].paid = paid, ![id].claimed = total] = [b EXCEPT ![id] = entry]
  <2> HIDE DEF total, paid
  <2>1. QED BY <1>5
<1>10. b' = [b EXCEPT ![id].paid = @ \cup {index}, ![id].claimed = total]
  BY <1>5, <1>8, <1>9
<1>11. pair \in [index : Indices, amount : Uint] /\ pair.index = index /\ pair.amount = amount
  OBVIOUS
<1> HIDE DEF pair
<1>12. Book!Pay(id, pair)
  BY <1>5, <1>10, <1>11 DEF Book!Pay, Book!At, b, shownBook
<1>13. QED BY <1>11, <1>12

LEMMA SweepShows ==
  ASSUME DistInv, DistInv', NEW caller \in Accounts, NEW id \in ActionIds,
         SweepUnclaimed(caller, id)
  PROVE  Book!Finalize(id)
<1> DEFINE b == shownBook
           entry == [b[id] EXCEPT !.status = "FINALIZED"]
<1>1. /\ Exists(id)
      /\ DistributorCall(Distributor, id, "CLAIMABLE", "FINALIZED")
      /\ UNCHANGED <<funded, claimed, claimedTotal>>
  BY DEF SweepUnclaimed, Dividend, MarkFinalized, accountingVars
<1>2. /\ actions[id].status = "CLAIMABLE" /\ actions'[id].status = "FINALIZED"
      /\ Terms(actions'[id]) = Terms(actions[id])
      /\ actions'[id].totalPayout = actions[id].totalPayout
      /\ \A k \in ActionIds : k # id => actions'[k] = actions[k]
  BY <1>1, CallEffect DEF DistInv, Statuses, RootTerms
<1>3. \A k \in ActionIds : k # id => View(k)' = View(k)
  BY <1>1, <1>2 DEF View
<1>4. /\ b' = [b EXCEPT ![id] = Shown(id)']
      /\ b \in [ActionIds -> Entries] /\ Shown(id)' \in Entries
      /\ b[id].status = "CLAIMABLE"
      /\ Shown(id)'.status = "FINALIZED" /\ Shown(id)'.kind = b[id].kind
      /\ Shown(id)'.goal = b[id].goal /\ Shown(id)'.funded = b[id].funded
      /\ Shown(id)'.claimed = b[id].claimed /\ Shown(id)'.paid = b[id].paid
  BY <1>1, <1>2, <1>3, EntryChange
<1> HIDE DEF b
<1>5. /\ entry \in Entries
      /\ entry.status = "FINALIZED" /\ entry.kind = b[id].kind /\ entry.goal = b[id].goal
      /\ entry.funded = b[id].funded /\ entry.claimed = b[id].claimed
      /\ entry.paid = b[id].paid
  BY <1>4 DEF Entries, Statuses
<1>6. Shown(id)' = entry
  <2> HIDE DEF entry
  <2>1. QED BY <1>4, <1>5, SameEntry
<1>7. [b EXCEPT ![id].status = "FINALIZED"] = [b EXCEPT ![id] = entry]
  BY <1>4
<1>8. QED BY <1>4, <1>6, <1>7 DEF Book!Finalize, Book!At, b, shownBook

LEMMA CancelShows ==
  ASSUME DistInv, DistInv', NEW caller \in Accounts, NEW id \in ActionIds,
         CancelAction(caller, id), UNCHANGED distVars
  PROVE  Book!Void(id)
<1>1. /\ Exists(id) /\ SetStatus(id, "ANNOUNCED", "CANCELLED")
      /\ UNCHANGED <<funded, claimed, claimedTotal>>
  BY DEF CancelAction, distVars
<1>2. /\ actions[id].status = "ANNOUNCED" /\ actions'[id].status = "CANCELLED"
      /\ Terms(actions'[id]) = Terms(actions[id])
      /\ actions'[id].totalPayout = actions[id].totalPayout
      /\ \A k \in ActionIds : k # id => actions'[k] = actions[k]
  BY <1>1, MapType DEF SetStatus, Is, CorporateAction, Terms
<1>3. QED BY <1>1, <1>2, VoidShows

LEMMA RefundShows ==
  ASSUME DistInv, DistInv', NEW caller \in Accounts, NEW id \in ActionIds,
         CancelPublishedAction(caller, id)
  PROVE  Book!Void(id)
<1>1. /\ Exists(id)
      /\ DistributorCall(Distributor, id, "ROOT_PUBLISHED", "CANCELLED")
      /\ funded' = [funded EXCEPT ![id] = 0]
      /\ UNCHANGED <<claimed, claimedTotal>>
  BY DEF CancelPublishedAction, Dividend, MarkCancelled
<1>2. /\ actions[id].status = "ROOT_PUBLISHED" /\ actions'[id].status = "CANCELLED"
      /\ Terms(actions'[id]) = Terms(actions[id])
      /\ actions'[id].totalPayout = actions[id].totalPayout
      /\ \A k \in ActionIds : k # id => actions'[k] = actions[k]
  BY <1>1, CallEffect DEF DistInv, Statuses, RootTerms
<1>3. \A k \in ActionIds : k # id => actions'[k] = actions[k] /\ funded'[k] = funded[k]
  BY <1>1, <1>2, MapType
<1>4. QED BY <1>1, <1>2, <1>3, VoidShows

(***************************************************************************)
(* Every step                                                              *)
(***************************************************************************)

LEMMA StepShows ==
  ASSUME DistInv, DistInv', [Next]_vars
  PROVE  [Book!BookNext]_shownBook
<1>1. CASE IssuerStep /\ UNCHANGED distVars
  <2>1. ASSUME NEW caller \in Accounts, NEW args \in Announcements,
               AnnounceAction(caller, args)
        PROVE  Book!BookNext
    BY <1>1, <2>1, AnnounceShows DEF Book!BookNext
  <2>2. ASSUME NEW caller \in Accounts, NEW id \in ActionIds,
               NEW root \in Roots \cup {NoRoot}, NEW total \in Payouts,
               PublishRoot(caller, id, root, total)
        PROVE  Book!BookNext
    BY <1>1, <2>2, PublishShows DEF Book!BookNext
  <2>3. ASSUME NEW caller \in Accounts, NEW id \in ActionIds, CancelAction(caller, id)
        PROVE  Book!BookNext
    BY <1>1, <2>3, CancelShows DEF Book!BookNext
  <2>4. QED BY <1>1, <2>1, <2>2, <2>3 DEF IssuerStep
<1>2. CASE SettlementStep
  <2>1. ASSUME NEW caller \in Accounts, NEW id \in ActionIds, NEW amount \in Amounts,
               Fund(caller, id, amount)
        PROVE  Book!BookNext
    BY <2>1, FundShows DEF Book!BookNext
  <2>2. ASSUME NEW leaf \in Leaves, Claim(leaf)
        PROVE  Book!BookNext
    <3>1. leaf \in Leaf /\ leaf.id \in ActionIds
      BY LeavesAreLeaf DEF Leaf
    <3>2. \E paid \in [index : Indices, amount : Uint] : Book!Pay(leaf.id, paid)
      BY <2>2, <3>1, ClaimShows
    <3>3. QED BY <3>1, <3>2 DEF Book!BookNext
  <2>3. ASSUME NEW caller \in Accounts, NEW id \in ActionIds, SweepUnclaimed(caller, id)
        PROVE  Book!BookNext
    BY <2>3, SweepShows DEF Book!BookNext
  <2>4. ASSUME NEW caller \in Accounts, NEW id \in ActionIds,
               CancelPublishedAction(caller, id)
        PROVE  Book!BookNext
    BY <2>4, RefundShows DEF Book!BookNext
  <2>5. ASSUME NEW paused \in BOOLEAN, SetDistributorPaused(paused)
        PROVE  UNCHANGED shownBook
    <3>1. UNCHANGED <<actions, funded, claimed, claimedTotal>>
      BY <2>5 DEF SetDistributorPaused, registryVars, accountingVars
    <3>2. QED BY <3>1, NoEntry DEF View
  <2>6. QED BY <1>2, <2>1, <2>2, <2>3, <2>4, <2>5 DEF SettlementStep
<1>3. CASE (GovernanceStep /\ UNCHANGED distVars) \/ TokenStep \/ Tick \/ UNCHANGED vars
  <2>1. UNCHANGED <<actions, funded, claimed, claimedTotal>>
    BY <1>3 DEF GovernanceStep, SetAssetIssuer, GrantDistributor, RevokeDistributor,
                SetRegistryPaused, TokenStep, StrayTransfer, Tick, NextBlock,
                distVars, registryVars, accountingVars, vars
  <2>2. QED BY <2>1, NoEntry DEF View
<1>4. QED BY <1>1, <1>2, <1>3 DEF Next

\* Every step of the two contracts is one step of the action book or shows
\* nothing, for any roots, fees, amounts and number of actions: what a reader of
\* the chain has to follow is the book and no more.
THEOREM BookRefinement == Spec => ImplementsBook
<1>1. DistInv /\ DistInv' /\ [Next]_vars =>
        [Book!BookNext]_[id \in ActionIds |-> Shown(id)]
  BY StepShows DEF shownBook
<1>2. QED
  BY <1>1, BookInitial, DistributorInvariant, PTL
     DEF Spec, ImplementsBook, Book!BookSpec
=============================================================================
