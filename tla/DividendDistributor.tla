------------------------ MODULE DividendDistributor ------------------------
(***************************************************************************)
(* The distributor contract, the value authority, composed with the        *)
(* registry it settles against and with the payout tokens it holds.        *)
(* Every external function of contracts/src/DividendDistributor.sol is one *)
(* action, together with the registry calls and token transfers it makes.  *)
(*                                                                         *)
(* All actions that pay in the same token share one pooled balance of this *)
(* contract.  A Merkle root is represented by what it commits to: the set  *)
(* of leaves for which a proof verifies (keccak256 has no collision).      *)
(***************************************************************************)
EXTENDS CorporateActionRegistry, FiniteSetsExt

CONSTANTS
  Distributor,     \* the contract's own address
  Sink,            \* where a fee-on-transfer token sends its fee
  Indices,         \* leaf indices
  LeavesOf,        \* root -> the leaves it commits to
  FeeBps,          \* token -> transfer fee in basis points (0 for a plain ERC-20)
  InitialBalance,  \* token -> holdings before the system starts
  Amounts,         \* amounts a caller passes to fund, or sends to the contract
  MaxTime          \* bound: the timestamp saturates here

Addresses == Accounts \cup {Distributor}

\* StandardMerkleTree leaf: the action id is hashed in with the claim.
Leaf == [id : ActionIds, index : Indices, account : Addresses, amount : Uint]

ASSUME DistributorAssumption ==
  /\ Distributors = {Distributor}
  /\ Distributor \notin Accounts
  /\ Sink \notin Addresses
  /\ LeavesOf \in [Roots -> SUBSET Leaf]
  /\ FeeBps \in [Tokens -> 0..10000]
  /\ Amounts \subseteq Uint
  /\ MaxTime \in Nat

\* A Merkle tree has finitely many leaves.
ASSUME TreeAssumption == \A root \in Roots : IsFiniteSet(LeavesOf[root])

ASSUME BalanceAssumption ==
  /\ InitialBalance \in [Tokens -> [Addresses \cup {Sink} -> Uint]]
  /\ \A t \in Tokens : InitialBalance[t][Distributor] = 0

VARIABLES
  claimed,       \* _claimed: action id -> consumed claim indices
  funded,        \* _funded: action id -> cumulative amount received
  claimedTotal,  \* _claimedTotal: action id -> cumulative amount paid
  distPaused,    \* Pausable._paused of this contract
  balance,       \* token -> address -> balance
  now            \* block.timestamp

accountingVars == <<claimed, funded, claimedTotal>>
distVars == <<claimed, funded, claimedTotal, distPaused, balance, now>>
vars == <<registryVars, distVars>>

(***************************************************************************)
(* Payout tokens                                                           *)
(***************************************************************************)

Fee(token, amount) == (amount * FeeBps[token]) \div 10000

\* ERC-20 _update: the sender is debited in full, the receiver credited net
\* of the fee.  Written as three updates so that a transfer to oneself works.
Moved(token, from, to, amount) ==
  LET fee      == Fee(token, amount)
      debited  == [balance[token] EXCEPT ![from] = @ - amount]
      credited == [debited EXCEPT ![to] = @ + (amount - fee)]
  IN  [balance EXCEPT ![token] = [credited EXCEPT ![Sink] = @ + fee]]

\* A transfer reverts when the sender is short; no balance exceeds a uint256.
Transfer(token, from, to, amount) ==
  /\ balance[token][from] >= amount
  /\ \A a \in {to, Sink} : Moved(token, from, to, amount)[token][a] \in Uint
  /\ balance' = Moved(token, from, to, amount)

\* Mutant: the requested amount is credited.
ReceivedGross(token, amount) == amount

\* What balanceOf(this) grew by: the amount credited by fund.
Received(token, amount) == amount - Fee(token, amount)

(***************************************************************************)
(* Operations                                                              *)
(***************************************************************************)

TokenOf(id) == actions[id].payoutToken

\* actionView(id) and the first two checks of every operation.
Dividend(id, status) ==
  /\ ~distPaused
  /\ Exists(id)
  /\ IsCash(id)
  /\ Is(id, status)

\* Mutant: any deposit opens the claims.
FundingCompleteEarly(id, newFunded) == newFunded > 0

FundingComplete(id, newFunded) == newFunded >= actions[id].totalPayout

Fund(caller, id, amount) ==
  /\ Dividend(id, "ROOT_PUBLISHED")
  /\ amount # 0
  /\ Transfer(TokenOf(id), caller, Distributor, amount)
  /\ LET newFunded == funded[id] + Received(TokenOf(id), amount)
     IN  /\ newFunded <= actions[id].totalPayout
         /\ funded' = [funded EXCEPT ![id] = newFunded]
         /\ \/ FundingComplete(id, newFunded) /\ MarkClaimable(Distributor, id)
            \/ ~FundingComplete(id, newFunded) /\ UNCHANGED registryVars
  /\ UNCHANGED <<claimed, claimedTotal, distPaused, now>>

\* Mutant: no bit is set.
MarkedNothing(leaf) == claimed
\* _claimed[id].set(index)
Marked(leaf) == [claimed EXCEPT ![leaf.id] = @ \cup {leaf.index}]

\* Mutant: the cap is off by one.
WithinFundingStrictly(id, newClaimed) == newClaimed < funded[id]

\* The per-action solvency cap.
WithinFunding(id, newClaimed) == newClaimed <= funded[id]

\* Anyone may submit; the leaf decides who is paid.
Claim(leaf) ==
  LET id == leaf.id
      newClaimed == claimedTotal[id] + leaf.amount
  IN  /\ Dividend(id, "CLAIMABLE")
      /\ now >= actions[id].payableAt
      /\ leaf.index \notin claimed[id]
      /\ leaf \in LeavesOf[actions[id].merkleRoot]
      /\ claimed' = Marked(leaf)
      /\ WithinFunding(id, newClaimed)
      /\ claimedTotal' = [claimedTotal EXCEPT ![id] = newClaimed]
      /\ Transfer(TokenOf(id), Distributor, leaf.account, leaf.amount)
      /\ UNCHANGED <<registryVars, funded, distPaused, now>>

\* Mutant: a sweep at the deadline itself.
SweepableFromDeadline(id) == actions[id].claimDeadline # 0 /\ now >= actions[id].claimDeadline

Sweepable(id) == actions[id].claimDeadline # 0 /\ now > actions[id].claimDeadline

\* Mutant: what was claimed is swept once more.
RemainingGross(id) == funded[id]

Remaining(id) == funded[id] - claimedTotal[id]

\* Finalizes first; _funded keeps its value.
SweepUnclaimed(caller, id) ==
  /\ Dividend(id, "CLAIMABLE")
  /\ Sweepable(id)
  /\ caller = IssuerOf(id)
  /\ MarkFinalized(Distributor, id)
  /\ Transfer(TokenOf(id), Distributor, caller, Remaining(id))
  /\ UNCHANGED <<accountingVars, distPaused, now>>

\* Mutant: the deposit is refunded but stays on the books.
CancelKeepingDeposit(caller, id) ==
  /\ Dividend(id, "ROOT_PUBLISHED")
  /\ caller = IssuerOf(id)
  /\ MarkCancelled(Distributor, id)
  /\ Transfer(TokenOf(id), Distributor, caller, funded[id])
  /\ UNCHANGED <<accountingVars, distPaused, now>>

\* Refunds whatever was deposited to the asset's current issuer.
CancelPublishedAction(caller, id) ==
  /\ Dividend(id, "ROOT_PUBLISHED")
  /\ caller = IssuerOf(id)
  /\ funded' = [funded EXCEPT ![id] = 0]
  /\ MarkCancelled(Distributor, id)
  /\ Transfer(TokenOf(id), Distributor, caller, funded[id])
  /\ UNCHANGED <<claimed, claimedTotal, distPaused, now>>

SetDistributorPaused(paused) ==
  /\ distPaused # paused
  /\ distPaused' = paused
  /\ UNCHANGED <<registryVars, accountingVars, balance, now>>

\* A plain ERC-20 transfer to the contract's address: no function of the
\* contract runs, nothing is credited to any action.
StrayTransfer(sender, token, amount) ==
  /\ Transfer(token, sender, Distributor, amount)
  /\ UNCHANGED <<registryVars, accountingVars, distPaused, now>>

\* A new block: its timestamp is at least the previous one's.
Tick ==
  /\ NextBlock
  /\ now' \in {now, now + 1} \cap 0..MaxTime
  /\ UNCHANGED <<accountingVars, distPaused, balance>>

(***************************************************************************)
(* Specification                                                           *)
(***************************************************************************)

Init ==
  /\ RegistryInit
  /\ claimed = [id \in ActionIds |-> {}]
  /\ funded = [id \in ActionIds |-> 0]
  /\ claimedTotal = [id \in ActionIds |-> 0]
  /\ distPaused = FALSE
  /\ balance = InitialBalance
  /\ now = 0

Leaves == UNION {LeavesOf[root] : root \in Roots}

SettlementStep ==
  \/ \E caller \in Accounts, id \in ActionIds, amount \in Amounts : Fund(caller, id, amount)
  \/ \E leaf \in Leaves : Claim(leaf)
  \/ \E caller \in Accounts, id \in ActionIds : SweepUnclaimed(caller, id)
  \/ \E caller \in Accounts, id \in ActionIds : CancelPublishedAction(caller, id)
  \/ \E paused \in BOOLEAN : SetDistributorPaused(paused)

TokenStep ==
  \E sender \in Accounts, token \in Tokens, amount \in Amounts :
     StrayTransfer(sender, token, amount)

\* The issuer and the admin act on the registry directly; its lifecycle calls
\* come only from the settlement steps above.
Next ==
  \/ IssuerStep /\ UNCHANGED distVars
  \/ GovernanceStep /\ UNCHANGED distVars
  \/ SettlementStep
  \/ TokenStep
  \/ Tick

Spec == Init /\ [][Next]_vars

\* Time passes, a pause of the distributor is lifted eventually, and since a
\* claim needs no permission every leaf is submitted again and again by its
\* holder or a relayer.  Nothing is assumed of issuers or of the admin.
Fairness ==
  /\ WF_vars(Tick /\ now' > now)
  /\ WF_vars(SetDistributorPaused(FALSE))
  /\ \A leaf \in Leaves : SF_vars(Claim(leaf))

FairSpec == Spec /\ Fairness

(***************************************************************************)
(* Derived notions                                                         *)
(***************************************************************************)

\* What this contract holds for an action on behalf of its issuer or holders.
\* _funded and _claimedTotal keep their values after a sweep, so the status is
\* part of it.
Escrow(id) ==
  IF actions[id].status \in {"ROOT_PUBLISHED", "CLAIMABLE"}
  THEN funded[id] - claimedTotal[id]
  ELSE 0

\* What each action is owed in token t.
OwedIn(t) == [id \in ActionIds |-> IF TokenOf(id) = t THEN Escrow(id) ELSE 0]

\* The leaves of an action's root that can be claimed under its own id.
LeavesFor(id) ==
  IF actions[id].merkleRoot = NoRoot THEN {}
  ELSE {leaf \in LeavesOf[actions[id].merkleRoot] : leaf.id = id}

AmountOf(leaf) == leaf.amount

LeafSum(leaves) == MapThenSumSet(AmountOf, leaves)

UniqueIndices(leaves) ==
  \A l1, l2 \in leaves : l1.index = l2.index => l1 = l2

ClaimedLeaves(id) == {leaf \in LeavesFor(id) : leaf.index \in claimed[id]}

\* A root the snapshot tooling builds: one leaf per index, and the published
\* total covers them.  Nothing on chain enforces it.
Honest(id) ==
  UniqueIndices(LeavesFor(id)) /\ LeafSum(LeavesFor(id)) <= actions[id].totalPayout

(***************************************************************************)
(* Properties                                                              *)
(***************************************************************************)

TypeOK ==
  /\ RegistryTypeOK
  /\ claimed \in [ActionIds -> SUBSET Indices]
  /\ funded \in [ActionIds -> Uint]
  /\ claimedTotal \in [ActionIds -> Uint]
  /\ distPaused \in BOOLEAN
  /\ balance \in [Tokens -> [Addresses \cup {Sink} -> Uint]]
  /\ now \in 0..MaxTime

\* Solvency of the pool: no action is overdrawn at the expense of another, and
\* for every payout token the contract holds at least the escrow of all the
\* actions that share it, whatever roots were published, whatever the token's
\* fee, and however operations interleave.
Solvent ==
  /\ \A id \in ActionIds : Escrow(id) >= 0
  /\ \A t \in Tokens : SumFunctionOnSet(OwedIn(t), ActionIds) <= balance[t][Distributor]

\* The registry's status and the distributor's books, two contracts' storage,
\* never disagree: an action is CLAIMABLE only when fully funded, funding never
\* passes the target, claims never pass funding, and a CANCELLED action was
\* voided before any claim and keeps no deposit.
BooksMatchStatus ==
  \A id \in ActionIds :
     LET a == actions[id]
     IN  /\ claimedTotal[id] <= funded[id]
         /\ a.status = "ROOT_PUBLISHED" => funded[id] < a.totalPayout
         /\ a.status \in {"CLAIMABLE", "FINALIZED"} => funded[id] = a.totalPayout
         /\ a.status \in {"ANNOUNCED", "CANCELLED"} => funded[id] = 0
         /\ a.status \notin {"CLAIMABLE", "FINALIZED"} => claimed[id] = {} /\ claimedTotal[id] = 0

\* No leaf is ever paid twice or short: what an action has paid is exactly the
\* sum of the leaves marked in its bitmap.
ClaimsAddUp ==
  \A id \in ActionIds :
     UniqueIndices(LeavesFor(id)) => claimedTotal[id] = LeafSum(ClaimedLeaves(id))

\* Under an honest root nobody can be starved: while an action is CLAIMABLE,
\* every leaf still unclaimed fits in what is left of the action's funding and
\* in the pooled balance, whoever claimed before and whatever other actions do.
HonestLeavesPayable ==
  \A id \in ActionIds :
     Is(id, "CLAIMABLE") /\ Honest(id) =>
       \A leaf \in LeavesFor(id) \ ClaimedLeaves(id) :
          /\ claimedTotal[id] + leaf.amount <= funded[id]
          /\ leaf.amount <= balance[TokenOf(id)][Distributor]

\* Money leaves an action's escrow only in its window: claims move only while
\* CLAIMABLE and from payableAt on, a consumed index stays consumed, funding
\* shrinks only by cancelling, and a sweep comes strictly after the deadline.
ClaimWindow ==
  [][\A id \in ActionIds :
       /\ claimed[id] \subseteq claimed'[id]
       /\ claimedTotal'[id] # claimedTotal[id] =>
            /\ claimedTotal'[id] > claimedTotal[id]
            /\ Is(id, "CLAIMABLE")
            /\ now >= actions[id].payableAt
       /\ funded'[id] < funded[id] => actions'[id].status = "CANCELLED"
       /\ actions'[id].status = "FINALIZED" /\ ~Is(id, "FINALIZED") =>
            actions[id].claimDeadline # 0 /\ now > actions[id].claimDeadline]_vars

\* Once an action is CLAIMABLE under an honest root, every leaf of it is paid
\* unless the issuer sweeps after the deadline first, and what then stays in
\* escrow is only the part of the total no leaf commits to.
HonestClaimsSettle ==
  \A id \in ActionIds :
     Is(id, "CLAIMABLE") /\ Honest(id) ~>
       \/ Is(id, "FINALIZED")
       \/ Escrow(id) = actions[id].totalPayout - LeafSum(LeavesFor(id))

(***************************************************************************)
(* The promise: isolated vaults                                            *)
(***************************************************************************)

VaultPhase(id) ==
  CASE Is(id, "ANNOUNCED") -> "idle"
    [] Is(id, "ROOT_PUBLISHED") -> "filling"
    [] Is(id, "CLAIMABLE") -> "paying"
    [] OTHER -> "spent"

vaultPhase == [id \in ActionIds |-> VaultPhase(id)]
vaultCoin ==
  [id \in ActionIds |-> IF actions[id].merkleRoot = NoRoot THEN NoAddress ELSE TokenOf(id)]
vaultGoal == [id \in ActionIds |-> actions[id].totalPayout]
vaultPot == [id \in ActionIds |-> Escrow(id)]
vaultPool == [t \in Tokens |-> balance[t][Distributor]]

Vault == INSTANCE IsolatedVaults WITH
  Vaults <- ActionIds, Coins <- Tokens, NoCoin <- NoAddress, Quantities <- Uint,
  phase <- vaultPhase, coin <- vaultCoin, goal <- vaultGoal,
  pot <- vaultPot, pool <- vaultPool

\* The pooled contract behaves as if every action had a vault of its own: each
\* step fills, pays or closes one vault and moves the pool by the same amount.
ImplementsVaults == Vault!Spec

(***************************************************************************)
(* What the two contracts show to a reader                                 *)
(***************************************************************************)

Shown(id) ==
  [status |-> IF Exists(id) THEN actions[id].status ELSE "NONE",
   kind |-> IF Exists(id) /\ ~IsCash(id) THEN "INFO" ELSE "CASH",
   goal |-> actions[id].totalPayout,
   funded |-> funded[id], claimed |-> claimedTotal[id], paid |-> claimed[id]]

Book == INSTANCE ActionBook WITH
  Ids <- ActionIds, Kinds <- {"CASH", "INFO"}, Goals <- Uint, Amounts <- Uint,
  Leaves <- [index : Indices, amount : Uint],
  book <- [id \in ActionIds |-> Shown(id)]

\* Every step of the contracts is one step of the action book or shows nothing:
\* announcing, publishing, depositing, paying a leaf once, finalizing and
\* voiding are all that a program reading the chain ever has to follow, and a
\* refund and its status arrive together.
ImplementsBook == Book!BookSpec
=============================================================================
