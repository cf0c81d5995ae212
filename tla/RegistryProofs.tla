--------------------------- MODULE RegistryProofs ---------------------------
(***************************************************************************)
(* Proofs about the registry on its own: its lifecycle calls may come from *)
(* any holder of DISTRIBUTOR_ROLE, in any order.                           *)
(***************************************************************************)
EXTENDS CorporateActionRegistry, TLAPS

\* IdsDense says which ids exist, which PublishedSound and LifecycleForward
\* need to tell a record from the zero struct that announceAction overwrites.
RegistryInv == RegistryTypeOK /\ IdsDense /\ PublishedSound

LEMMA RegistryInitInv == RegistryInit => RegistryInv
<1> SUFFICES ASSUME RegistryInit PROVE RegistryInv
  OBVIOUS
<1>1. ZeroAction \in CorporateAction
  BY RegistryAssumption DEF ZeroAction, CorporateAction, ActionTypes, Statuses, Uint
<1>2. RegistryTypeOK
  <2>1. actionCount \in 0..MaxActions /\ l2Block \in 0..MaxBlock
    BY RegistryAssumption DEF RegistryInit
  <2>2. actions \in [ActionIds -> CorporateAction]
    BY <1>1 DEF RegistryInit
  <2>3. assetIssuer \in [Assets -> Issuers \cup {NoAddress}]
    BY DEF RegistryInit
  <2>4. distributorRole \in SUBSET Distributors /\ registryPaused \in BOOLEAN
    BY DEF RegistryInit
  <2>5. QED BY <2>1, <2>2, <2>3, <2>4 DEF RegistryTypeOK
<1>3. IdsDense
  BY RegistryAssumption DEF RegistryInit, IdsDense, ZeroAction, ActionIds
<1>4. PublishedSound
  BY DEF RegistryInit, PublishedSound, ZeroAction, Published, Is
<1>5. QED BY <1>2, <1>3, <1>4 DEF RegistryInv

(***************************************************************************)
(* One lemma per kind of write to _actions.                                *)
(***************************************************************************)

\* Announcing overwrites the zero struct of the next id only.
LEMMA AnnounceKeeps ==
  ASSUME RegistryInv, NEW caller \in Accounts, NEW args \in Announcements,
         AnnounceAction(caller, args)
  PROVE  RegistryInv'
<1> DEFINE n == actionCount + 1
<1>1. n \in ActionIds /\ actionCount' = n /\ actionCount' \in 0..MaxActions
  BY RegistryAssumption DEF RegistryInv, RegistryTypeOK, AnnounceAction, ActionIds
<1>2. Recorded(n, args) \in CorporateAction
  <2>1. args \in AnnouncementArgs /\ 0 \in Uint /\ n \in Nat
    BY <1>1, RegistryAssumption DEF ActionIds, Uint
  <2>2. QED BY <2>1 DEF Recorded, CorporateAction, AnnouncementArgs, Statuses
<1>3. actions' = [actions EXCEPT ![n] = Recorded(n, args)]
  BY DEF AnnounceAction
<1>4. RegistryTypeOK'
  BY <1>1, <1>2, <1>3 DEF RegistryInv, RegistryTypeOK, AnnounceAction
<1>5. IdsDense'
  BY <1>1, <1>3 DEF RegistryInv, RegistryTypeOK, IdsDense, Recorded, ActionIds
<1>6. PublishedSound'
  BY <1>1, <1>3 DEF RegistryInv, RegistryTypeOK, PublishedSound, Recorded, AnnounceAction,
                    Published, Is, IsCash
<1>7. QED BY <1>4, <1>5, <1>6 DEF RegistryInv

\* Publishing fixes root and total of an announced dividend whose record block
\* has passed.
LEMMA PublishKeeps ==
  ASSUME RegistryInv, NEW caller \in Accounts, NEW id \in ActionIds,
         NEW root \in Roots \cup {NoRoot}, NEW total \in Payouts,
         PublishRoot(caller, id, root, total)
  PROVE  RegistryInv'
<1>1. total \in Uint /\ total > 0
  BY RegistryAssumption DEF PublishRoot, Uint
<1>2. RegistryTypeOK'
  <2> DEFINE b == [actions[id] EXCEPT !.merkleRoot = root, !.totalPayout = total,
                                      !.status = "ROOT_PUBLISHED"]
  <2>1. actions[id] \in CorporateAction
    BY DEF RegistryInv, RegistryTypeOK
  <2>2. b \in CorporateAction
    BY <1>1, <2>1 DEF CorporateAction, Statuses
  <2>3. actions' = [actions EXCEPT ![id] = b]
    BY DEF PublishRoot, RegistryInv, RegistryTypeOK
  <2> HIDE DEF b
  <2>4. QED BY <2>2, <2>3 DEF RegistryInv, RegistryTypeOK, PublishRoot
<1>3. IdsDense'
  <2>1. id <= actionCount
    BY DEF RegistryInv, IdsDense, PublishRoot, Exists, ZeroAction
  <2>2. /\ actions' \in [ActionIds -> CorporateAction]
        /\ actions'[id].id = actions[id].id
        /\ \A k \in ActionIds : k # id => actions'[k] = actions[k]
    BY <1>2 DEF RegistryInv, RegistryTypeOK, PublishRoot, CorporateAction
  <2>3. actionCount' = actionCount
    BY DEF PublishRoot
  <2>4. QED BY <2>1, <2>2, <2>3 DEF RegistryInv, IdsDense
<1>4. PublishedSound'
  BY <1>1 DEF RegistryInv, RegistryTypeOK, PublishedSound, PublishRoot, RecordTaken, CorporateAction,
              Published, Is, IsCash
<1>5. QED BY <1>2, <1>3, <1>4 DEF RegistryInv

\* A status change along the documented graph keeps the invariant, whoever
\* makes it.
LEMMA StatusKeeps ==
  ASSUME RegistryInv, NEW id \in ActionIds, NEW from, NEW to,
         <<from, to>> \in Transitions, to # "ROOT_PUBLISHED",
         SetStatus(id, from, to),
         UNCHANGED <<actionCount, assetIssuer, distributorRole, registryPaused, l2Block>>
  PROVE  RegistryInv'
<1>1. /\ to \in Statuses /\ to # "ANNOUNCED"
      /\ to \in Published => from \in Published
  BY DEF Transitions, Statuses, Published
<1>2. RegistryTypeOK'
  BY <1>1 DEF RegistryInv, RegistryTypeOK, SetStatus, CorporateAction
<1>3. IdsDense'
  <2>1. id <= actionCount
    BY DEF RegistryInv, IdsDense, SetStatus, Exists, ZeroAction
  <2>2. /\ actions'[id].id = actions[id].id
        /\ \A k \in ActionIds : k # id => actions'[k] = actions[k]
    BY DEF RegistryInv, RegistryTypeOK, SetStatus, CorporateAction
  <2>3. QED BY <2>1, <2>2 DEF RegistryInv, IdsDense
<1>4. PublishedSound'
  BY <1>1 DEF RegistryInv, RegistryTypeOK, PublishedSound, SetStatus, CorporateAction,
              Is, IsCash
<1>5. QED BY <1>2, <1>3, <1>4 DEF RegistryInv

\* Steps that do not write _actions: governance, and the next block.
LEMMA OtherKeeps ==
  ASSUME RegistryInv, GovernanceStep \/ NextBlock
  PROVE  RegistryInv'
<1>1. UNCHANGED <<actions, actionCount>> /\ l2Block' >= l2Block
  BY DEF RegistryInv, RegistryTypeOK, GovernanceStep, SetAssetIssuer, GrantDistributor,
         RevokeDistributor, SetRegistryPaused, NextBlock
<1>2. RegistryTypeOK'
  BY RegistryAssumption
     DEF RegistryInv, RegistryTypeOK, GovernanceStep, SetAssetIssuer, GrantDistributor,
         RevokeDistributor, SetRegistryPaused, NextBlock
<1>3. IdsDense'
  BY <1>1 DEF RegistryInv, IdsDense
<1>4. PublishedSound'
  <2>1. \A id \in ActionIds : actions[id].recordBlock \in Nat
    BY DEF RegistryInv, RegistryTypeOK, CorporateAction
  <2>2. l2Block \in Int /\ l2Block' \in Int
    BY <1>2 DEF RegistryInv, RegistryTypeOK
  <2>3. QED BY <1>1, <2>1, <2>2 DEF RegistryInv, PublishedSound, Is, IsCash
<1>5. QED BY <1>2, <1>3, <1>4 DEF RegistryInv

LEMMA CancelKeeps ==
  ASSUME RegistryInv, NEW caller \in Accounts, NEW id \in ActionIds, CancelAction(caller, id)
  PROVE  RegistryInv'
<1>1. <<"ANNOUNCED", "CANCELLED">> \in Transitions
  BY DEF Transitions
<1>2. QED BY <1>1, StatusKeeps DEF CancelAction

LEMMA DistributorCallKeeps ==
  ASSUME RegistryInv, NEW caller, NEW id \in ActionIds,
         \/ MarkClaimable(caller, id)
         \/ MarkFinalized(caller, id)
         \/ MarkCancelled(caller, id)
  PROVE  RegistryInv'
<1>1. /\ <<"ROOT_PUBLISHED", "CLAIMABLE">> \in Transitions
      /\ <<"CLAIMABLE", "FINALIZED">> \in Transitions
      /\ <<"ROOT_PUBLISHED", "CANCELLED">> \in Transitions
  BY DEF Transitions
<1>2. CASE MarkClaimable(caller, id)
  BY <1>1, <1>2, StatusKeeps DEF MarkClaimable, DistributorCall
<1>3. CASE MarkFinalized(caller, id)
  BY <1>1, <1>3, StatusKeeps DEF MarkFinalized, DistributorCall
<1>4. CASE MarkCancelled(caller, id)
  BY <1>1, <1>4, StatusKeeps DEF MarkCancelled, DistributorCall
<1>5. QED BY <1>2, <1>3, <1>4

LEMMA IssuerStepKeeps ==
  ASSUME RegistryInv, IssuerStep
  PROVE  RegistryInv'
BY AnnounceKeeps, PublishKeeps, CancelKeeps DEF IssuerStep

LEMMA RegistryStepKeeps ==
  ASSUME RegistryInv, [RegistryNext]_registryVars
  PROVE  RegistryInv'
<1>1. CASE IssuerStep
  BY <1>1, IssuerStepKeeps
<1>2. CASE GovernanceStep \/ NextBlock
  BY <1>2, OtherKeeps
<1>3. CASE DistributorStep
  BY <1>3, DistributorCallKeeps DEF DistributorStep
<1>4. CASE UNCHANGED registryVars
  BY <1>4 DEF registryVars, RegistryInv, RegistryTypeOK, IdsDense, PublishedSound, Is, IsCash
<1>5. QED BY <1>1, <1>2, <1>3, <1>4 DEF RegistryNext

(***************************************************************************)
(* Theorems                                                                *)
(***************************************************************************)

LEMMA RegistryInvariant == RegistrySpec => []RegistryInv
<1>1. RegistryInv /\ [RegistryNext]_registryVars => RegistryInv'
  BY RegistryStepKeeps
<1>2. QED BY RegistryInitInv, <1>1, PTL DEF RegistrySpec

\* Every storage slot of the registry keeps its type.
THEOREM RegistryTypeCorrect == RegistrySpec => []RegistryTypeOK
<1>1. RegistryInv => RegistryTypeOK
  BY DEF RegistryInv
<1>2. QED BY RegistryInvariant, <1>1, PTL

\* An action past ANNOUNCED is a dividend with a root, a target and a record
\* block in the past, for any issuers, distributors, announcements and chain
\* heights.
THEOREM RegistryPublishedSound == RegistrySpec => []PublishedSound
<1>1. RegistryInv => PublishedSound
  BY DEF RegistryInv
<1>2. QED BY RegistryInvariant, <1>1, PTL

\* What one step may do to the record of an existing action.
Forward(id) ==
  Exists(id) =>
    /\ Terms(actions'[id]) = Terms(actions[id])
    /\ actions[id].merkleRoot # NoRoot => RootTerms(actions'[id]) = RootTerms(actions[id])
    /\ actions'[id].status # actions[id].status =>
         <<actions[id].status, actions'[id].status>> \in Transitions

LEMMA StepForward ==
  ASSUME RegistryInv, [RegistryNext]_registryVars, NEW k \in ActionIds
  PROVE  Forward(k)
<1> USE DEF Forward, Exists, Terms, RootTerms, Is
<1>1. ASSUME NEW caller \in Accounts, NEW args \in Announcements, AnnounceAction(caller, args)
      PROVE  Forward(k)
  <2>1. actions'[k] = IF k = actionCount + 1 THEN Recorded(k, args) ELSE actions[k]
    BY <1>1 DEF AnnounceAction, RegistryInv, RegistryTypeOK
  <2>2. k = actionCount + 1 => actions[k].id = 0
    BY DEF RegistryInv, RegistryTypeOK, IdsDense, ActionIds, ZeroAction
  <2>3. QED BY <2>1, <2>2
<1>2. ASSUME NEW caller \in Accounts, NEW id \in ActionIds, NEW root \in Roots \cup {NoRoot},
             NEW total \in Payouts, PublishRoot(caller, id, root, total)
      PROVE  Forward(k)
  <2>1. actions[id].merkleRoot = NoRoot /\ actions[id].status = "ANNOUNCED"
    BY <1>2 DEF PublishRoot, RegistryInv, PublishedSound
  <2>2. CASE k = id
    BY <1>2, <2>1, <2>2
       DEF PublishRoot, RegistryInv, RegistryTypeOK, CorporateAction, Transitions
  <2>3. CASE k # id
    BY <1>2, <2>3 DEF PublishRoot, RegistryInv, RegistryTypeOK
  <2>4. QED BY <2>2, <2>3
<1>3. ASSUME NEW id \in ActionIds, NEW from, NEW to, <<from, to>> \in Transitions,
             SetStatus(id, from, to)
      PROVE  Forward(k)
  BY <1>3 DEF SetStatus, RegistryInv, RegistryTypeOK, CorporateAction
<1>4. CASE IssuerStep
  <2>1. ASSUME NEW caller \in Accounts, NEW id \in ActionIds, CancelAction(caller, id)
        PROVE  Forward(k)
    <3>1. <<"ANNOUNCED", "CANCELLED">> \in Transitions
      BY DEF Transitions
    <3>2. QED BY <1>3, <2>1, <3>1 DEF CancelAction
  <2>2. QED BY <1>1, <1>2, <1>4, <2>1 DEF IssuerStep
<1>5. CASE DistributorStep
  <2>1. /\ <<"ROOT_PUBLISHED", "CLAIMABLE">> \in Transitions
        /\ <<"CLAIMABLE", "FINALIZED">> \in Transitions
        /\ <<"ROOT_PUBLISHED", "CANCELLED">> \in Transitions
    BY DEF Transitions
  <2>2. QED BY <1>3, <1>5, <2>1
            DEF DistributorStep, MarkClaimable, MarkFinalized, MarkCancelled, DistributorCall
<1>6. CASE GovernanceStep \/ NextBlock \/ UNCHANGED registryVars
  BY <1>6 DEF GovernanceStep, SetAssetIssuer, GrantDistributor, RevokeDistributor,
              SetRegistryPaused, NextBlock, registryVars
<1>7. QED BY <1>4, <1>5, <1>6 DEF RegistryNext

\* The lifecycle is forward-only and the terms a holder relied on never change.
THEOREM RegistryLifecycleForward == RegistrySpec => LifecycleForward
<1>1. RegistryInv /\ [RegistryNext]_registryVars =>
        [\A id \in ActionIds : Forward(id)]_registryVars
  BY StepForward
<1>2. RegistrySpec => [][\A id \in ActionIds : Forward(id)]_registryVars
  BY <1>1, RegistryInvariant, PTL DEF RegistrySpec
<1>3. QED BY <1>2 DEF LifecycleForward, Forward
=============================================================================
