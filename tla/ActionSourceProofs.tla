------------------------- MODULE ActionSourceProofs -------------------------
(***************************************************************************)
(* Proofs about the provenance gate: the registry behind a source is still *)
(* the registry, and nothing enters it that was not vouched for, for any   *)
(* number of assets, requests and answers.                                 *)
(***************************************************************************)
EXTENDS ActionSource, RegistryProofs

\* What RecordedActionsVouched rests on: a live attestation goes back to a call
\* of attest() or to an answer "true", a waiting request waits under the hash of
\* the fields it was made for, and every answer is one the script could give to
\* what was sent.
Requests == [fields : Announcements, data : Payloads]

Given(id, r) ==
  id <= Len(requested) /\ (r = "true" => VendorMatches(requested[id].data))

Backed ==
  /\ adminAttested \subseteq everAttested
  /\ \A id \in RequestIds : pending[id] # NoRequest =>
        /\ id <= Len(requested)
        /\ pending[id] = requested[id].fields
  /\ \A id \in RequestIds, r \in Responses : <<id, r>> \in answers => Given(id, r)
  /\ \A k \in oracleAttested : k[1] = k[2].asset /\ Confirmed(k[2])

SourceInv == RegistryInv /\ SourceTypeOK /\ RecordedActionsVouched /\ Backed

(***************************************************************************)
(* The registry's part of a step.                                          *)
(***************************************************************************)

LEMMA StepIsRegistryStep == [Next]_vars => [RegistryNext]_registryVars
<1>1. SourceStep => UNCHANGED registryVars
  BY DEF SourceStep, Attest, RevokeAttestation, SetAutoAttest, SetRequestData,
         RequestAttestation, Answer, HandleOracleFulfillment, SetActionSource
<1>2. ASSUME NEW caller \in Accounts, NEW args \in Announcements, Announce(caller, args)
      PROVE  RegistryNext
  BY <1>2 DEF Announce, RegistryNext, IssuerStep
<1>3. OtherRegistryStep => RegistryNext
  BY DEF OtherRegistryStep, RegistryNext, IssuerStep
<1>4. QED BY <1>1, <1>2, <1>3 DEF Next, vars

\* A source in front of the registry adds no behaviour to it: every theorem
\* about the registry on its own holds behind either source, and across a swap.
THEOREM GateRefinesRegistry == Spec => RegistrySpec
<1>1. Init => RegistryInit
  BY DEF Init
<1>2. QED BY <1>1, StepIsRegistryStep, PTL DEF Spec, RegistrySpec

\* Reading the recorded fields back gives what announceAction was called with.
LEMMA RecordedFields ==
  ASSUME NEW n, NEW args \in AnnouncementArgs
  PROVE  FieldsOf(Recorded(n, args)) = args
BY DEF FieldsOf, Recorded, AnnouncementArgs

\* A step that announces nothing leaves the fields of every action alone.
LEMMA OtherStepFields ==
  ASSUME RegistryInv, OtherRegistryStep
  PROVE  /\ actionCount' = actionCount
         /\ \A id \in ActionIds : id <= actionCount =>
               FieldsOf(actions'[id]) = FieldsOf(actions[id])
<1>1. actionCount' = actionCount
  BY DEF OtherRegistryStep, PublishRoot, CancelAction, GovernanceStep, SetAssetIssuer,
         GrantDistributor, RevokeDistributor, SetRegistryPaused, DistributorStep,
         MarkClaimable, MarkFinalized, MarkCancelled, DistributorCall, NextBlock
<1>2. [RegistryNext]_registryVars
  BY DEF OtherRegistryStep, RegistryNext, IssuerStep
<1>3. ASSUME NEW id \in ActionIds, id <= actionCount
      PROVE  FieldsOf(actions'[id]) = FieldsOf(actions[id])
  <2>1. Exists(id)
    BY <1>3 DEF RegistryInv, IdsDense, Exists, ActionIds
  <2>2. Terms(actions'[id]) = Terms(actions[id])
    BY <1>2, <2>1, StepForward DEF Forward
  <2>3. QED BY <2>2 DEF Terms, FieldsOf
<1>4. QED BY <1>1, <1>3

(***************************************************************************)
(* One lemma per part of Next.                                             *)
(***************************************************************************)

\* A confirmation is never taken back: requests and answers only accumulate.
LEMMA ConfirmedStays ==
  ASSUME SourceTypeOK, Backed, NEW args, Confirmed(args),
         answers \subseteq answers',
         \A id \in RequestIds : id <= Len(requested) => requested'[id] = requested[id]
  PROVE  Confirmed(args)'
<1>1. PICK id \in RequestIds : /\ <<id, "true">> \in answers /\ requested[id].fields = args
                                /\ VendorMatches(requested[id].data)
  BY DEF Confirmed
<1>2. id <= Len(requested)
  BY <1>1 DEF Backed, Responses, Given
<1>3. <<id, "true">> \in answers' /\ requested'[id] = requested[id]
  BY <1>1, <1>2
<1>4. VendorMatches(requested[id].data)' <=> VendorMatches(requested[id].data)
  BY <1>3 DEF VendorMatches, TypeMatches, Distance
<1>5. QED BY <1>1, <1>3, <1>4 DEF Confirmed

LEMMA SourceInitInv == Init => SourceInv
<1> SUFFICES ASSUME Init PROVE SourceInv
  OBVIOUS
<1>1. RegistryInv
  BY RegistryInitInv DEF Init
<1>2. SourceTypeOK
  <2>1. <<>> \in Seq(Requests) /\ Len(<<>>) <= MaxRequests
    BY SourceAssumption
  <2>2. pending \in [RequestIds -> Announcements \cup {NoRequest}]
    BY DEF Init
  <2>3. provenance \in [ActionIds -> {"none", "auto"} \cup Sources]
    BY DEF Init
  <2>4. /\ adminAttested \subseteq Keys /\ everAttested \subseteq Keys
        /\ oracleAttested \subseteq Keys /\ answers \subseteq RequestIds \X Responses
    BY DEF Init
  <2>5. QED BY <1>1, <2>1, <2>2, <2>3, <2>4 DEF Init, SourceTypeOK, RegistryInv, Requests
<1>3. RecordedActionsVouched
  BY RegistryAssumption DEF Init, RecordedActionsVouched, VouchedFor, RegistryInit, ActionIds
<1>4. Backed
  BY DEF Init, Backed
<1>5. QED BY <1>1, <1>2, <1>3, <1>4 DEF SourceInv

\* Calls of the sources and steps of the script only add to what was vouched.
LEMMA VouchedStays ==
  ASSUME SourceInv, UNCHANGED <<registryVars, provenance>>,
         everAttested \subseteq everAttested', answers \subseteq answers',
         \A id \in RequestIds : id <= Len(requested) => requested'[id] = requested[id]
  PROVE  RecordedActionsVouched'
<1>1. \A args : Confirmed(args) => Confirmed(args)'
  BY ConfirmedStays DEF SourceInv
<1>2. ASSUME NEW id \in ActionIds
      PROVE  VouchedFor(id)'
  <2>1. /\ actions'[id] = actions[id] /\ provenance'[id] = provenance[id]
        /\ actionCount' = actionCount
    BY DEF registryVars
  <2>2. VouchedFor(id)
    BY DEF SourceInv, RecordedActionsVouched
  <2>3. FieldsOf(actions[id])' = FieldsOf(actions[id])
    BY <2>1 DEF FieldsOf
  <2>4. Confirmed(FieldsOf(actions[id])) => Confirmed(FieldsOf(actions[id]))'
    BY ONLY <1>1, <2>3
  <2>5. QED BY <2>1, <2>2, <2>3, <2>4 DEF VouchedFor
<1>3. QED BY <1>2 DEF RecordedActionsVouched

LEMMA AdminCallKeeps ==
  ASSUME SourceInv,
         \/ \E k \in AttestKeys : Attest(k[1], k[2])
         \/ \E k \in AttestKeys : RevokeAttestation(k[1], k[2])
         \/ \E enabled \in BOOLEAN : SetAutoAttest(enabled)
  PROVE  SourceTypeOK' /\ Backed' /\ RecordedActionsVouched'
<1>1. \A k \in AttestKeys : k \in Keys /\ Key(k[1], k[2]) = k /\ <<k[1], k[2]>> = k
  BY SourceAssumption DEF Keys, Key
<1>2. /\ UNCHANGED <<registryVars, actionSource, oracleVars, provenance>>
      /\ autoAttest' \in BOOLEAN
      /\ everAttested \subseteq everAttested' /\ everAttested' \subseteq Keys
      /\ adminAttested' \subseteq everAttested'
  BY <1>1 DEF Attest, RevokeAttestation, SetAutoAttest, Put, SourceInv, SourceTypeOK, Backed
<1>3. SourceTypeOK'
  BY <1>2 DEF SourceInv, SourceTypeOK, RegistryTypeOK, registryVars, oracleVars
<1>4. Backed'
  BY <1>2 DEF SourceInv, Backed, Given, Confirmed, oracleVars
<1>5. RecordedActionsVouched'
  BY <1>2, VouchedStays DEF oracleVars
<1>6. QED BY <1>3, <1>4, <1>5

LEMMA RequestKeeps ==
  ASSUME SourceInv, NEW args \in Announcements, RequestAttestation(args)
  PROVE  SourceTypeOK' /\ Backed' /\ RecordedActionsVouched'
<1> DEFINE n == Len(requested) + 1
<1> DEFINE request == [fields |-> args, data |-> requestData]
<1>1. /\ requested \in Seq(Requests) /\ requested' = Append(requested, request)
      /\ Len(requested) < MaxRequests /\ request \in Requests
  BY DEF SourceInv, SourceTypeOK, RequestAttestation, Requests
<1>2. /\ n \in RequestIds /\ Len(requested') = n /\ n <= MaxRequests
      /\ requested' \in Seq(Requests)
      /\ requested'[n] = request
      /\ \A id \in RequestIds : id <= Len(requested) => requested'[id] = requested[id]
  BY <1>1, SourceAssumption DEF RequestIds
<1>3. /\ pending \in [RequestIds -> Announcements \cup {NoRequest}]
      /\ pending' = [pending EXCEPT ![n] = args]
  BY DEF SourceInv, SourceTypeOK, RequestAttestation, DataHash
<1>4. SourceTypeOK'
  <2>1. pending' \in [RequestIds -> Announcements \cup {NoRequest}]
    BY <1>3
  <2>2. UNCHANGED <<actionCount, actions, assetIssuer, distributorRole, registryPaused,
                    l2Block, actionSource, autoAttest, adminAttested, everAttested,
                    requestData, oracleAttested, answers, provenance>>
    BY DEF RequestAttestation, registryVars, adminVars
  <2>3. QED BY <1>2, <2>1, <2>2 DEF SourceInv, SourceTypeOK, RegistryTypeOK, Requests
<1>5. Backed'
  <2>1. \A id \in RequestIds : pending'[id] # NoRequest =>
           id <= Len(requested') /\ pending'[id] = requested'[id].fields
    BY <1>1, <1>2, <1>3 DEF SourceInv, Backed, RequestIds
  <2>2. \A x : Confirmed(x) => Confirmed(x)'
    BY <1>2, ConfirmedStays DEF SourceInv, RequestAttestation
  <2>3. ASSUME NEW id \in RequestIds, NEW r \in Responses, <<id, r>> \in answers'
        PROVE  Given(id, r)'
    <3>1. Given(id, r)
      BY <2>3 DEF SourceInv, Backed, RequestAttestation
    <3>2. id <= Len(requested') /\ requested'[id] = requested[id]
      BY <1>1, <1>2, <3>1 DEF Given, RequestIds
    <3>3. QED BY <3>1, <3>2 DEF Given
  <2>4. \A k \in oracleAttested' : k[1] = k[2].asset /\ Confirmed(k[2])'
    BY <2>2 DEF SourceInv, Backed, RequestAttestation
  <2>5. adminAttested' \subseteq everAttested'
    BY DEF SourceInv, Backed, RequestAttestation, adminVars
  <2>6. QED BY <2>1, <2>3, <2>4, <2>5 DEF Backed
<1>6. RecordedActionsVouched'
  BY <1>2, VouchedStays DEF RequestAttestation, adminVars
<1>7. QED BY <1>4, <1>5, <1>6

LEMMA AnswerKeeps ==
  ASSUME SourceInv, NEW n \in RequestIds, NEW response \in Responses, Answer(n, response)
  PROVE  SourceTypeOK' /\ Backed' /\ RecordedActionsVouched'
<1>1. /\ answers' = answers \cup {<<n, response>>} /\ n <= Len(requested)
      /\ UNCHANGED <<actionCount, actions, assetIssuer, distributorRole, registryPaused,
                     l2Block, actionSource, autoAttest, adminAttested, everAttested,
                     requestData, oracleAttested, pending, requested, provenance>>
  BY DEF Answer, registryVars, adminVars
<1>2. SourceTypeOK'
  BY <1>1 DEF SourceInv, SourceTypeOK, RegistryTypeOK
<1>3. Backed'
  <2>1. \A x : Confirmed(x) => Confirmed(x)'
    BY <1>1, ConfirmedStays DEF SourceInv
  <2>2. ASSUME NEW id \in RequestIds, NEW r \in Responses
        PROVE  Given(id, r)' <=> Given(id, r)
    BY <1>1 DEF Given
  <2>3. Given(n, response)
    BY DEF Answer, PossibleAnswers, Given
  <2>4. \A id \in RequestIds, r \in Responses : <<id, r>> \in answers' => Given(id, r)'
    BY <1>1, <2>2, <2>3 DEF SourceInv, Backed
  <2>5. QED BY <1>1, <2>1, <2>4 DEF SourceInv, Backed
<1>4. RecordedActionsVouched'
  BY <1>1, VouchedStays DEF registryVars
<1>5. QED BY <1>2, <1>3, <1>4

\* Only an answer "true" to a waiting request sets a verdict, for the fields
\* that request was made for.
LEMMA FulfillKeeps ==
  ASSUME SourceInv, NEW n \in RequestIds, NEW response \in Responses,
         HandleOracleFulfillment(n, response)
  PROVE  SourceTypeOK' /\ Backed' /\ RecordedActionsVouched'
<1> DEFINE h == pending[n]
<1>1. /\ <<n, response>> \in answers /\ h # NoRequest
      /\ pending' = [pending EXCEPT ![n] = NoRequest]
      /\ oracleAttested' = Put(oracleAttested, <<h.asset, h>>, response = "true")
      /\ UNCHANGED <<actionCount, actions, assetIssuer, distributorRole, registryPaused,
                     l2Block, actionSource, autoAttest, adminAttested, everAttested,
                     requestData, requested, answers, provenance>>
  BY DEF HandleOracleFulfillment, registryVars, adminVars, Key, Authentic
<1>2. h \in Announcements /\ h = requested[n].fields
  BY <1>1 DEF SourceInv, SourceTypeOK, Backed
<1>3. h.asset \in Assets
  BY <1>2, RegistryAssumption DEF AnnouncementArgs
<1>4. SourceTypeOK'
  <2>1. pending' \in [RequestIds -> Announcements \cup {NoRequest}]
    BY <1>1 DEF SourceInv, SourceTypeOK
  <2>2. oracleAttested' \subseteq Keys
    BY <1>1, <1>2, <1>3 DEF SourceInv, SourceTypeOK, Put, Keys
  <2>3. QED BY <1>1, <2>1, <2>2 DEF SourceInv, SourceTypeOK, RegistryTypeOK
<1>5. Backed'
  <2>1. response = "true" => Confirmed(h)
    BY <1>1, <1>2 DEF Confirmed, SourceInv, Backed, Given
  <2>2. ASSUME NEW k \in oracleAttested'
        PROVE  k[1] = k[2].asset /\ Confirmed(k[2])
    <3>1. k \in oracleAttested \/ (k = <<h.asset, h>> /\ response = "true")
      BY <1>1 DEF Put
    <3>2. QED BY <2>1, <3>1 DEF SourceInv, Backed
  <2>3. \A x : Confirmed(x)' <=> Confirmed(x)
    BY <1>1 DEF Confirmed
  <2>4. \A id \in RequestIds : pending'[id] # NoRequest => pending'[id] = pending[id]
    BY <1>1 DEF SourceInv, SourceTypeOK
  <2>5. \A id \in RequestIds, r \in Responses : <<id, r>> \in answers' => Given(id, r)'
    BY <1>1 DEF SourceInv, Backed, Given
  <2>6. QED BY <1>1, <2>2, <2>3, <2>4, <2>5 DEF SourceInv, Backed
<1>6. RecordedActionsVouched'
  BY <1>1, VouchedStays DEF registryVars
<1>7. QED BY <1>4, <1>5, <1>6

\* The announcement that passes the gate carries the fields that were vouched
\* for, under the asset they name.
LEMMA AnnounceKeepsVouched ==
  ASSUME SourceInv, NEW caller \in Accounts, NEW args \in Announcements,
         Announce(caller, args)
  PROVE  SourceTypeOK' /\ Backed' /\ RecordedActionsVouched'
<1> DEFINE n == actionCount + 1
<1>1. /\ n \in ActionIds /\ actionCount' = n
      /\ actions' = [actions EXCEPT ![n] = Recorded(n, args)]
      /\ provenance' = [provenance EXCEPT ![n] = Voucher]
      /\ UNCHANGED <<actionSource, autoAttest, adminAttested, everAttested, requestData,
                     oracleAttested, pending, requested, answers>>
  BY RegistryAssumption DEF Announce, AnnounceAction, SourceInv, RegistryInv, RegistryTypeOK,
                            ActionIds, adminVars, oracleVars
<1>2. args \in AnnouncementArgs
  BY RegistryAssumption
<1>3. RegistryInv'
  BY AnnounceKeeps DEF Announce, SourceInv
<1>4. SourceTypeOK'
  <2>1. Voucher \in {"none", "auto"} \cup Sources
    BY DEF Voucher, SourceInv, SourceTypeOK
  <2>2. provenance' \in [ActionIds -> {"none", "auto"} \cup Sources]
    BY <1>1, <2>1 DEF SourceInv, SourceTypeOK
  <2>3. QED BY <1>1, <1>3, <2>2 DEF SourceInv, SourceTypeOK, RegistryInv
<1>5. \A x : Confirmed(x)' <=> Confirmed(x)
  BY <1>1 DEF Confirmed
<1>6. Backed'
  BY <1>1, <1>5 DEF SourceInv, Backed, Given
<1>7. RecordedActionsVouched'
  <2>1. ASSUME NEW id \in ActionIds, id # n
        PROVE  VouchedFor(id)'
    <3>1. actions'[id] = actions[id] /\ provenance'[id] = provenance[id]
      BY <1>1, <2>1 DEF SourceInv, SourceTypeOK, RegistryTypeOK
    <3>2. id > actionCount <=> id > n
      BY <2>1 DEF SourceInv, RegistryInv, RegistryTypeOK, ActionIds
    <3>3. FieldsOf(actions[id])' = FieldsOf(actions[id])
      BY <3>1 DEF FieldsOf
    <3>4. Confirmed(FieldsOf(actions[id])) => Confirmed(FieldsOf(actions[id]))'
      BY <1>1, <3>1 DEF Confirmed, FieldsOf
    <3>5. VouchedFor(id)
      BY DEF SourceInv, RecordedActionsVouched
    <3>6. QED BY <1>1, <3>1, <3>2, <3>3, <3>4, <3>5 DEF VouchedFor
  <2>2. ASSUME NEW id \in ActionIds, id = n
        PROVE  VouchedFor(id)'
    <3>1. actions'[id] = Recorded(n, args) /\ provenance'[id] = Voucher
      BY <1>1, <2>2 DEF SourceInv, SourceTypeOK, RegistryTypeOK
    <3>2. FieldsOf(actions'[id]) = args /\ actions'[id].asset = args.asset
      BY <1>2, <3>1, RecordedFields DEF Recorded
    <3>3. ~(id > actionCount')
      BY <1>1, <2>2 DEF ActionIds
    <3>4. Voucher = "oracle" => Confirmed(args)
      <4>1. Vouched(args) /\ (Voucher = "oracle" => actionSource = "oracle")
        BY DEF Announce, Voucher
      <4>2. Voucher = "oracle" => <<args.asset, args>> \in oracleAttested
        BY <4>1 DEF Vouched, Key, DataHash
      <4>3. QED BY <4>2 DEF SourceInv, Backed
    <3>5. Voucher = "admin" => <<args.asset, args>> \in everAttested
      <4>1. Vouched(args) /\ (Voucher = "admin" => actionSource = "admin" /\ ~autoAttest)
        BY DEF Announce, Voucher, SourceInv, SourceTypeOK, Sources
      <4>2. QED BY <4>1 DEF Vouched, Key, DataHash, SourceInv, Backed
    <3>6. Voucher # "none"
      BY DEF Voucher, SourceInv, SourceTypeOK, Sources
    <3>7. Confirmed(args) => Confirmed(FieldsOf(actions[id]))'
      BY <1>1, <3>2 DEF Confirmed, FieldsOf
    <3>8. QED BY <1>1, <3>1, <3>2, <3>3, <3>4, <3>5, <3>6, <3>7 DEF VouchedFor, FieldsOf
  <2>3. QED BY <2>1, <2>2 DEF RecordedActionsVouched
<1>8. QED BY <1>4, <1>6, <1>7

LEMMA OtherRegistryKeeps ==
  ASSUME SourceInv, OtherRegistryStep
  PROVE  SourceTypeOK' /\ Backed' /\ RecordedActionsVouched'
<1>1. UNCHANGED <<actionSource, autoAttest, adminAttested, everAttested, requestData,
                  oracleAttested, pending, requested, answers, provenance>>
  BY DEF OtherRegistryStep, adminVars, oracleVars
<1>2. RegistryInv'
  <2>1. [RegistryNext]_registryVars
    BY DEF OtherRegistryStep, RegistryNext, IssuerStep
  <2>2. QED BY <2>1, RegistryStepKeeps DEF SourceInv
<1>3. SourceTypeOK'
  BY <1>1, <1>2 DEF SourceInv, SourceTypeOK, RegistryInv
<1>4. Backed'
  BY <1>1 DEF SourceInv, Backed, Given, Confirmed
<1>5. RecordedActionsVouched'
  <2>1. /\ actionCount' = actionCount
        /\ \A id \in ActionIds : id <= actionCount =>
              FieldsOf(actions'[id]) = FieldsOf(actions[id])
    BY OtherStepFields DEF SourceInv
  <2>2. ASSUME NEW id \in ActionIds
        PROVE  VouchedFor(id)'
    <3>1. VouchedFor(id)
      BY DEF SourceInv, RecordedActionsVouched
    <3>2. CASE id <= actionCount
      <4>1. FieldsOf(actions'[id]) = FieldsOf(actions[id])
        BY <2>1, <3>2
      <4>2. actions'[id].asset = actions[id].asset
        BY <4>1 DEF FieldsOf
      <4>3. Confirmed(FieldsOf(actions[id])) => Confirmed(FieldsOf(actions[id]))'
        BY <1>1, <4>1 DEF Confirmed, FieldsOf
      <4>4. FieldsOf(actions[id])' = FieldsOf(actions[id])
        BY <4>1 DEF FieldsOf
      <4>5. QED BY <1>1, <2>1, <3>1, <4>2, <4>3, <4>4 DEF VouchedFor
    <3>3. CASE ~(id <= actionCount)
      <4>1. provenance[id] = "none"
        BY <3>1, <3>3 DEF VouchedFor, SourceInv, RegistryInv, RegistryTypeOK, ActionIds
      <4>2. QED BY <1>1, <2>1, <3>1, <4>1 DEF VouchedFor
    <3>4. QED BY <3>2, <3>3
  <2>3. QED BY <2>2 DEF RecordedActionsVouched
<1>6. QED BY <1>3, <1>4, <1>5

LEMMA SourceStepKeeps ==
  ASSUME SourceInv, [Next]_vars
  PROVE  SourceInv'
<1>1. RegistryInv'
  BY StepIsRegistryStep, RegistryStepKeeps DEF SourceInv
<1>2. CASE SourceStep
  <2>1. ASSUME NEW source \in Sources, SetActionSource(source)
        PROVE  SourceTypeOK' /\ Backed' /\ RecordedActionsVouched'
    BY <2>1 DEF SetActionSource, SourceInv, SourceTypeOK, RegistryTypeOK, Backed, Given, Confirmed,
                RecordedActionsVouched, VouchedFor, FieldsOf, registryVars, adminVars, oracleVars
  <2>2. ASSUME NEW data \in Payloads \cup {NoPayload}, SetRequestData(data)
        PROVE  SourceTypeOK' /\ Backed' /\ RecordedActionsVouched'
    BY <2>2 DEF SetRequestData, SourceInv, SourceTypeOK, RegistryTypeOK, Backed, Given, Confirmed,
                RecordedActionsVouched, VouchedFor, FieldsOf, registryVars, adminVars
  <2>3. QED BY <1>1, <1>2, <2>1, <2>2, AdminCallKeeps, RequestKeeps, AnswerKeeps, FulfillKeeps
           DEF SourceStep, SourceInv
<1>3. ASSUME NEW caller \in Accounts, NEW args \in Announcements, Announce(caller, args)
      PROVE  SourceInv'
  BY <1>1, <1>3, AnnounceKeepsVouched DEF SourceInv
<1>4. CASE OtherRegistryStep
  BY <1>1, <1>4, OtherRegistryKeeps DEF SourceInv
<1>5. CASE UNCHANGED vars
  BY <1>1, <1>5 DEF vars, SourceInv, SourceTypeOK, RegistryTypeOK, Backed, Given, Confirmed,
              RecordedActionsVouched, VouchedFor, FieldsOf, registryVars, adminVars, oracleVars
<1>6. QED BY <1>2, <1>3, <1>4, <1>5 DEF Next

(***************************************************************************)
(* Theorems                                                                *)
(***************************************************************************)

LEMMA SourceInvariant == Spec => []SourceInv
<1>1. SourceInv /\ [Next]_vars => SourceInv'
  BY SourceStepKeeps
<1>2. QED BY SourceInitInv, <1>1, PTL DEF Spec

\* Nothing is recorded that the source in force did not vouch for, whatever the
\* order of requests, answers, revocations and swaps, and however many: behind
\* the oracle source, a request made for exactly the recorded fields was answered
\* yes about data the vendor confirms.  That the data are those fields is left to
\* the admin who configures them, and is not claimed.
THEOREM GateHolds == Spec => []RecordedActionsVouched
<1>1. SourceInv => RecordedActionsVouched
  BY DEF SourceInv
<1>2. QED BY SourceInvariant, <1>1, PTL

\* What one step may do to the oracle source's books.
VerdictStep ==
  /\ \A id \in 1..Len(requested) : pending[id] = NoRequest => pending'[id] = NoRequest
  /\ oracleAttested' # oracleAttested =>
       \E id \in RequestIds : pending[id] # NoRequest /\ pending'[id] = NoRequest

\* A verdict changes only by an answer to a request that was still waiting,
\* and an answered request never waits again.
THEOREM VerdictsAreConsumed == Spec => VerdictsConsumeRequests
<1>1. SourceInv /\ [Next]_vars => [VerdictStep]_vars
  <2> SUFFICES ASSUME SourceInv, Next PROVE VerdictStep
    BY DEF vars
  <2>1. ASSUME UNCHANGED <<oracleAttested, pending>>
        PROVE  VerdictStep
    BY <2>1 DEF VerdictStep
  <2>2. pending \in [RequestIds -> Announcements \cup {NoRequest}]
        /\ Len(requested) \in Nat
    BY DEF SourceInv, SourceTypeOK
  <2>3. ASSUME NEW args \in Announcements, RequestAttestation(args)
        PROVE  VerdictStep
    BY <2>2, <2>3 DEF RequestAttestation, VerdictStep, RequestIds
  <2>4. ASSUME NEW n \in RequestIds, NEW response \in Responses,
               HandleOracleFulfillment(n, response)
        PROVE  VerdictStep
    <3>1. pending[n] # NoRequest /\ pending' = [pending EXCEPT ![n] = NoRequest]
      BY <2>4 DEF HandleOracleFulfillment
    <3>2. pending'[n] = NoRequest
      BY <2>2, <3>1
    <3>3. \A id \in 1..Len(requested) : pending[id] = NoRequest => pending'[id] = NoRequest
      BY <2>2, <3>1 DEF RequestIds, SourceInv, SourceTypeOK
    <3>4. QED BY <3>1, <3>2, <3>3 DEF VerdictStep
  <2>5. QED BY <2>1, <2>3, <2>4
           DEF Next, SourceStep, Attest, RevokeAttestation, SetAutoAttest, SetRequestData,
               Answer, SetActionSource, Announce, OtherRegistryStep, oracleVars
<1>2. Spec => [][VerdictStep]_vars
  BY <1>1, SourceInvariant, PTL DEF Spec
<1>3. QED BY <1>2 DEF VerdictsConsumeRequests, VerdictStep
=============================================================================
