---------------------- MODULE CorporateActionRegistry ----------------------
(***************************************************************************)
(* The registry contract: the state authority of corporate actions.  Every *)
(* external function of contracts/src/CorporateActionRegistry.sol that     *)
(* writes storage is one action here, because a transaction is atomic; a   *)
(* revert is a step that is not enabled.                                   *)
(*                                                                         *)
(* The configured action source is consulted by announceAction and may     *)
(* refuse for reasons of its own.  Here any announcement may be refused    *)
(* (no step is forced), which covers every source; the sources themselves  *)
(* are the subject of another module.                                      *)
(***************************************************************************)
EXTENDS Integers

CONSTANTS
  Assets,         \* tokenized stocks
  Accounts,       \* externally owned accounts: issuers, holders, funders
  Issuers,        \* accounts the admin may appoint as issuer of an asset
  Distributors,   \* addresses the admin may ever grant DISTRIBUTOR_ROLE
  Tokens,         \* payout tokens
  NoAddress,      \* address(0)
  Roots,          \* Merkle roots an issuer may publish
  NoRoot,         \* bytes32(0)
  Payouts,        \* totalPayout arguments an issuer may publish
  Announcements,  \* argument records of announceAction
  MaxUint,        \* largest uint256
  MaxActions,     \* bound: number of actions ever announced
  MaxBlock        \* bound: the L2 block number saturates here

ActionIds == 1..MaxActions
ActionTypes == {"CASH_DIVIDEND", "STOCK_SPLIT", "STOCK_DIVIDEND"}
Uint == 0..MaxUint
Statuses == {"ANNOUNCED", "ROOT_PUBLISHED", "CLAIMABLE", "FINALIZED", "CANCELLED"}

AnnouncementArgs ==
  [asset : Assets, actionType : ActionTypes, ratePerShare : Nat,
   recordBlock : Nat, payableAt : Nat, claimDeadline : Nat,
   payoutToken : Tokens \cup {NoAddress}]

CorporateAction ==
  [id : Nat, asset : Assets \cup {NoAddress}, actionType : ActionTypes,
   ratePerShare : Nat, recordBlock : Nat, payableAt : Nat, claimDeadline : Nat,
   payoutToken : Tokens \cup {NoAddress}, merkleRoot : Roots \cup {NoRoot},
   totalPayout : Uint, status : Statuses]

ASSUME RegistryAssumption ==
  /\ MaxActions \in Nat /\ MaxBlock \in Nat /\ MaxUint \in Nat
  /\ NoAddress \notin Assets \cup Accounts \cup Tokens \cup Distributors
  /\ Issuers \subseteq Accounts
  /\ NoRoot \notin Roots
  /\ Payouts \subseteq Uint
  /\ Announcements \subseteq AnnouncementArgs

VARIABLES
  actionCount,      \* _actionCount
  actions,          \* _actions; an id never announced holds the zero struct
  assetIssuer,      \* _assetIssuer
  distributorRole,  \* members of DISTRIBUTOR_ROLE
  registryPaused,   \* Pausable._paused
  l2Block           \* what _recordChainBlock() returns

registryVars ==
  <<actionCount, actions, assetIssuer, distributorRole, registryPaused, l2Block>>

(***************************************************************************)
(* Helpers                                                                 *)
(***************************************************************************)

\* The zero struct a mapping returns for an id that was never written.
ZeroAction ==
  [id |-> 0, asset |-> NoAddress, actionType |-> "CASH_DIVIDEND",
   ratePerShare |-> 0, recordBlock |-> 0, payableAt |-> 0, claimDeadline |-> 0,
   payoutToken |-> NoAddress, merkleRoot |-> NoRoot, totalPayout |-> 0,
   status |-> "ANNOUNCED"]

\* _requireAction
Exists(id) == actions[id].id # 0

Is(id, status) == actions[id].status = status

IsCash(id) == actions[id].actionType = "CASH_DIVIDEND"

IssuerOf(id) == assetIssuer[actions[id].asset]

\* The parameter checks of announceAction.
WellFormed(args) ==
  \/ /\ args.actionType = "CASH_DIVIDEND"
     /\ args.ratePerShare # 0
     /\ args.payoutToken # NoAddress
     /\ args.payableAt # 0
     /\ args.claimDeadline = 0 \/ args.claimDeadline > args.payableAt
  \/ /\ args.actionType # "CASH_DIVIDEND"
     /\ args.ratePerShare = 0
     /\ args.payoutToken = NoAddress

Recorded(id, args) ==
  [id |-> id, asset |-> args.asset, actionType |-> args.actionType,
   ratePerShare |-> args.ratePerShare, recordBlock |-> args.recordBlock,
   payableAt |-> args.payableAt, claimDeadline |-> args.claimDeadline,
   payoutToken |-> args.payoutToken, merkleRoot |-> NoRoot,
   totalPayout |-> 0, status |-> "ANNOUNCED"]

\* Mutant: the record block itself counts as past.
RecordTakenInclusive(id) == l2Block >= actions[id].recordBlock

\* The balance set at the record block is final.
RecordTaken(id) == l2Block > actions[id].recordBlock

\* Mutant: the caller's status check is forgotten.
SetStatusUnchecked(id, from, to) ==
  /\ Exists(id)
  /\ actions' = [actions EXCEPT ![id].status = to]

\* _setStatus behind the existence and status checks of every caller of it.
SetStatus(id, from, to) ==
  /\ Exists(id)
  /\ Is(id, from)
  /\ actions' = [actions EXCEPT ![id].status = to]

(***************************************************************************)
(* Issuer operations                                                       *)
(***************************************************************************)

AnnounceAction(caller, args) ==
  /\ ~registryPaused
  /\ caller = assetIssuer[args.asset]
  /\ WellFormed(args)
  /\ actionCount < MaxActions
  /\ actionCount' = actionCount + 1
  /\ actions' = [actions EXCEPT ![actionCount + 1] = Recorded(actionCount + 1, args)]
  /\ UNCHANGED <<assetIssuer, distributorRole, registryPaused, l2Block>>

PublishRoot(caller, id, root, total) ==
  /\ ~registryPaused
  /\ Exists(id)
  /\ caller = IssuerOf(id)
  /\ IsCash(id)
  /\ Is(id, "ANNOUNCED")
  /\ RecordTaken(id)
  /\ root # NoRoot
  /\ total # 0
  /\ actions' = [actions EXCEPT ![id].merkleRoot = root,
                                ![id].totalPayout = total,
                                ![id].status = "ROOT_PUBLISHED"]
  /\ UNCHANGED <<actionCount, assetIssuer, distributorRole, registryPaused, l2Block>>

\* Deliberately not gated by the pause.
CancelAction(caller, id) ==
  /\ Exists(id)
  /\ caller = IssuerOf(id)
  /\ SetStatus(id, "ANNOUNCED", "CANCELLED")
  /\ UNCHANGED <<actionCount, assetIssuer, distributorRole, registryPaused, l2Block>>

(***************************************************************************)
(* Lifecycle calls reserved to DISTRIBUTOR_ROLE                            *)
(***************************************************************************)

DistributorCall(caller, id, from, to) ==
  /\ caller \in distributorRole
  /\ SetStatus(id, from, to)
  /\ UNCHANGED <<actionCount, assetIssuer, distributorRole, registryPaused, l2Block>>

MarkClaimable(caller, id) == DistributorCall(caller, id, "ROOT_PUBLISHED", "CLAIMABLE")

MarkFinalized(caller, id) == DistributorCall(caller, id, "CLAIMABLE", "FINALIZED")

MarkCancelled(caller, id) == DistributorCall(caller, id, "ROOT_PUBLISHED", "CANCELLED")

(***************************************************************************)
(* Governance, and the chain                                               *)
(***************************************************************************)

SetAssetIssuer(asset, issuer) ==
  /\ assetIssuer' = [assetIssuer EXCEPT ![asset] = issuer]
  /\ UNCHANGED <<actionCount, actions, distributorRole, registryPaused, l2Block>>

\* AccessControl.grantRole / revokeRole on DISTRIBUTOR_ROLE.
GrantDistributor(account) ==
  /\ distributorRole' = distributorRole \cup {account}
  /\ UNCHANGED <<actionCount, actions, assetIssuer, registryPaused, l2Block>>

RevokeDistributor(account) ==
  /\ distributorRole' = distributorRole \ {account}
  /\ UNCHANGED <<actionCount, actions, assetIssuer, registryPaused, l2Block>>

\* _pause and _unpause revert when already in the requested state.
SetRegistryPaused(paused) ==
  /\ registryPaused # paused
  /\ registryPaused' = paused
  /\ UNCHANGED <<actionCount, actions, assetIssuer, distributorRole, l2Block>>

\* Block heights only grow.  Beyond MaxBlock no guard tells them apart.
NextBlock ==
  /\ l2Block' = IF l2Block < MaxBlock THEN l2Block + 1 ELSE l2Block
  /\ UNCHANGED <<actionCount, actions, assetIssuer, distributorRole, registryPaused>>

(***************************************************************************)
(* Specification                                                           *)
(***************************************************************************)

\* The constructor: no action, no issuer, no distributor linked yet.
RegistryInit ==
  /\ actionCount = 0
  /\ actions = [id \in ActionIds |-> ZeroAction]
  /\ assetIssuer = [a \in Assets |-> NoAddress]
  /\ distributorRole = {}
  /\ registryPaused = FALSE
  /\ l2Block = 0

IssuerStep ==
  \/ \E caller \in Accounts, args \in Announcements : AnnounceAction(caller, args)
  \/ \E caller \in Accounts, id \in ActionIds, root \in Roots \cup {NoRoot}, total \in Payouts :
        PublishRoot(caller, id, root, total)
  \/ \E caller \in Accounts, id \in ActionIds : CancelAction(caller, id)

GovernanceStep ==
  \/ \E asset \in Assets, issuer \in Issuers : SetAssetIssuer(asset, issuer)
  \/ \E account \in Distributors : GrantDistributor(account)
  \/ \E account \in Distributors : RevokeDistributor(account)
  \/ \E paused \in BOOLEAN : SetRegistryPaused(paused)

DistributorStep ==
  \E caller \in Distributors, id \in ActionIds :
     \/ MarkClaimable(caller, id)
     \/ MarkFinalized(caller, id)
     \/ MarkCancelled(caller, id)

RegistryNext == IssuerStep \/ GovernanceStep \/ DistributorStep \/ NextBlock

RegistrySpec == RegistryInit /\ [][RegistryNext]_registryVars

(***************************************************************************)
(* Properties                                                              *)
(***************************************************************************)

RegistryTypeOK ==
  /\ actionCount \in 0..MaxActions
  /\ actions \in [ActionIds -> CorporateAction]
  /\ assetIssuer \in [Assets -> Issuers \cup {NoAddress}]
  /\ distributorRole \in SUBSET Distributors
  /\ registryPaused \in BOOLEAN
  /\ l2Block \in 0..MaxBlock

\* Ids are dense and monotonic: exactly the ids up to _actionCount hold a
\* record, each under its own id, and no call ever wrote past them.
IdsDense ==
  \A id \in ActionIds :
     IF id <= actionCount THEN actions[id].id = id ELSE actions[id] = ZeroAction

Published == {"ROOT_PUBLISHED", "CLAIMABLE", "FINALIZED"}

\* Whatever the order of announcements, issuer changes, pauses and calls from
\* any DISTRIBUTOR_ROLE holder: an action past ANNOUNCED is a cash dividend
\* with a root, a funding target and a record block that already lies in the
\* past (the balance set the root was built from is final), and an action
\* still ANNOUNCED carries none of them.
PublishedSound ==
  \A id \in ActionIds :
     /\ actions[id].status \in Published =>
          /\ IsCash(id)
          /\ actions[id].merkleRoot # NoRoot
          /\ actions[id].totalPayout > 0
          /\ actions[id].recordBlock < l2Block
     /\ Is(id, "ANNOUNCED") => actions[id].merkleRoot = NoRoot

\* The documented transition graph of ActionStatus.
Transitions ==
  {<<"ANNOUNCED", "ROOT_PUBLISHED">>, <<"ANNOUNCED", "CANCELLED">>,
   <<"ROOT_PUBLISHED", "CLAIMABLE">>, <<"ROOT_PUBLISHED", "CANCELLED">>,
   <<"CLAIMABLE", "FINALIZED">>}

\* What a holder relied on when it read the announcement or the root.
Terms(a) ==
  <<a.id, a.asset, a.actionType, a.ratePerShare, a.recordBlock, a.payableAt,
    a.claimDeadline, a.payoutToken>>
RootTerms(a) == <<a.merkleRoot, a.totalPayout>>

\* Forward-only lifecycle: once an action exists its terms never change, its
\* root and total never change once published, and its status moves only
\* along the documented graph (FINALIZED and CANCELLED are final).
LifecycleForward ==
  [][\A id \in ActionIds : Exists(id) =>
        /\ Terms(actions'[id]) = Terms(actions[id])
        /\ actions[id].merkleRoot # NoRoot => RootTerms(actions'[id]) = RootTerms(actions[id])
        /\ actions'[id].status # actions[id].status =>
             <<actions[id].status, actions'[id].status>> \in Transitions]_registryVars
=============================================================================
