-------------------------- MODULE SplitCollateral --------------------------
(***************************************************************************)
(* A consumer of the registry: SplitAwareCollateral prices an asset as its *)
(* keeper posts it and rescales the price once for each split the registry *)
(* records, with the ratio the keeper read in the action's metadata.  The  *)
(* registry is ActionBook; its INFO actions are the splits.                *)
(***************************************************************************)
EXTENDS ActionBook, FiniteSets, Functions

CONSTANTS
  Accounts,  \* addresses that may be the keeper
  AssetOf,   \* action id -> asset
  RatioOf,   \* action id -> [new, old], both positive, as its metadata has it
  Prices     \* prices a keeper posts

\* adjustPrice reverts on a zero ratio; a price is a uint256.
MarketAssumption ==
  /\ IsFiniteSet(Ids)
  /\ RatioOf \in [Ids -> [new : Nat \ {0}, old : Nat \ {0}]]
  /\ Prices \subseteq Nat

VARIABLES
  keeper,
  price,    \* asset -> price per share
  applied,  \* actions whose split has been applied
  basis     \* asset -> the price last posted and the splits applied by then

marketVars == <<keeper, price, applied, basis>>
Assets == {AssetOf[id] : id \in Ids}

\* The registry shows an asset's splits in any status.
Splits(asset) ==
  {id \in Ids : ~At(id, "NONE") /\ book[id].kind = "INFO" /\ AssetOf[id] = asset}

\* Mutant: the ratio upside down.
AdjustPriceInverted(p, r) == (p * r.new) \div r.old

\* mulDiv rounds down.
AdjustPrice(p, r) == (p * r.old) \div r.new

SetKeeper(caller, next) ==
  /\ caller = keeper
  /\ keeper' = next
  /\ UNCHANGED <<book, price, applied, basis>>

SetPrice(caller, asset, p) ==
  /\ caller = keeper
  /\ price' = [price EXCEPT ![asset] = p]
  /\ basis' = [basis EXCEPT ![asset] = [price |-> p, splits |-> applied]]
  /\ UNCHANGED <<book, keeper, applied>>

\* getAction reverts on an unknown id.
ApplySplit(caller, id) ==
  /\ caller = keeper
  /\ id \in Splits(AssetOf[id])
  /\ id \notin applied
  /\ applied' = applied \cup {id}
  /\ price' = [price EXCEPT ![AssetOf[id]] = AdjustPrice(@, RatioOf[id])]
  /\ UNCHANGED <<book, keeper, basis>>

MarketInit ==
  /\ keeper \in Accounts
  /\ price = [asset \in Assets |-> 0]
  /\ applied = {}
  /\ basis = [asset \in Assets |-> [price |-> 0, splits |-> {}]]

MarketNext ==
  \/ \E caller, next \in Accounts : SetKeeper(caller, next)
  \/ \E caller \in Accounts, asset \in Assets, p \in Prices : SetPrice(caller, asset, p)
  \/ \E caller \in Accounts, id \in Ids : ApplySplit(caller, id)
  \/ /\ \E id \in Ids : Void(id) \/ \E kind \in Kinds : Announce(id, kind)
     /\ UNCHANGED marketVars

MarketSpec == BookInit /\ MarketInit /\ [][MarketNext]_<<book, marketVars>>

(***************************************************************************)
(* Property                                                                *)
(***************************************************************************)

NewPart == [id \in Ids |-> RatioOf[id].new]
OldPart == [id \in Ids |-> RatioOf[id].old]
LargerPart == [id \in Ids |-> IF NewPart[id] > OldPart[id] THEN NewPart[id] ELSE OldPart[id]]

\* The product of a factor per split over a set of splits.
Product(factor, splits) == FoldFunctionOnSet(LAMBDA a, b : a * b, 1, factor, splits)

\* The price of an asset is the last one posted, divided by the ratio of every
\* split of that asset applied since: each once, in any order, through changes
\* of keeper and splits of other assets.  Rounding only takes, and less than
\* one unit per split (SplitAwareCollateral.sol:56-74, SplitAdjuster.sol:27-30).
PriceFollowsSplits ==
  \A asset \in Assets :
    LET since == (applied \ basis[asset].splits) \cap Splits(asset)
        exact == basis[asset].price * Product(OldPart, since)
        shown == price[asset] * Product(NewPart, since)
    IN  /\ shown <= exact
        /\ exact - shown <= Cardinality(since) * Product(LargerPart, since)
        /\ since = {} => shown = exact
=============================================================================
