---------------------------- MODULE ActionSource ----------------------------
(***************************************************************************)
(* The provenance gate in front of announceAction.  The registry consults  *)
(* whichever action source is configured; this module composes it with the *)
(* two sources of contracts/src/oracle/: AdminActionSource, where an       *)
(* attester vouches for the hash of an announcement, and                   *)
(* FunctionsActionSource, where the verdict of an off-chain script arrives *)
(* through a request and a later callback.                                 *)
(*                                                                         *)
(* A dataHash is the record of fields it is computed from, keccak256 being *)
(* injective for every purpose here.  What is sent to the script is the    *)
(* requestData the admin configured, whatever fields the request hashes:   *)
(* nothing in the contract ties one to the other.  The off-chain side (the *)
(* script of functions/corporate-action-source.js and the router that      *)
(* carries its answers) answers a request at most once, in any order,      *)
(* perhaps never, and may deliver one answer again.                        *)
(***************************************************************************)
EXTENDS CorporateActionRegistry, Sequences

CONSTANTS
  AttestKeys,     \* bound: the (asset, dataHash) pairs an attester ever handles
  Tickers,        \* symbols the vendor lists securities by
  VendorRecords,  \* the corporate actions in the vendor's feed
  Payloads,       \* requestData an admin may configure: the script's arguments
  NoPayload,      \* requestData that is empty
  RateTolerance,  \* RATE_TOLERANCE, in units of ratePerShare
  NoRequest,      \* an empty slot of _pending
  MaxRequests     \* bound: requests ever sent to the router

Sources == {"admin", "oracle"}
Keys == Assets \X Announcements
RequestIds == 1..MaxRequests
Responses == {"true", "false", "error"}

\* args[0..6] of the script declare an announcement, args[7] its ticker.  The
\* optional ones, ex-date and split ratio, only add reasons to say no.
ScriptArgs == [fields : AnnouncementArgs, ticker : Tickers]

ASSUME SourceAssumption ==
  /\ AttestKeys \subseteq Keys
  /\ VendorRecords \subseteq [ticker : Tickers, actionType : ActionTypes, ratePerShare : Nat]
  /\ Payloads \subseteq ScriptArgs /\ NoPayload \notin Payloads
  /\ RateTolerance \in Nat /\ MaxRequests \in Nat
  /\ NoRequest \notin Announcements

VARIABLES
  actionSource,     \* CorporateActionRegistry._actionSource
  autoAttest,       \* AdminActionSource.autoAttest
  adminAttested,    \* AdminActionSource._attested, the keys that are true
  everAttested,     \* history: the pairs attest() was ever called with
  requestData,      \* FunctionsActionSource.requestData
  oracleAttested,   \* FunctionsActionSource._attested, the keys that are true
  pending,          \* FunctionsActionSource._pending, the dataHash of each id
  requested,        \* the requests in order: fields hashed, data sent to the script
  answers,          \* <<id, response>>: what the script answered so far
  provenance        \* history: what vouched for each recorded action

adminVars == <<autoAttest, adminAttested, everAttested>>
oracleVars == <<requestData, oracleAttested, pending, requested, answers>>
vars == <<registryVars, actionSource, adminVars, oracleVars, provenance>>

(***************************************************************************)
(* Operators                                                               *)
(***************************************************************************)

\* Mutant: the key is the hash alone, so any asset's attestation will do.
KeyOfHash(asset, dataHash) == <<dataHash.asset, dataHash>>

Key(asset, dataHash) == <<asset, dataHash>>

Authentic(response) == response = "true"

DataHash(args) == args

Distance(x, y) == IF x < y THEN y - x ELSE x - y

\* The type the script reads from a record; any dividend passes for cash.
TypeMatches(recorded, declared) ==
  \/ recorded = declared
  \/ declared = "CASH_DIVIDEND" /\ recorded = "STOCK_DIVIDEND"

\* What the script compares of its arguments with a vendor record: the ticker,
\* the type, and the rate of a cash dividend within the tolerance.
VendorMatches(data) ==
  \E r \in VendorRecords :
     /\ r.ticker = data.ticker
     /\ TypeMatches(r.actionType, data.fields.actionType)
     /\ data.fields.actionType = "CASH_DIVIDEND" =>
          Distance(r.ratePerShare, data.fields.ratePerShare) <= RateTolerance

\* The verdicts the script may return: an error at any time, "no" at any time
\* (the vendor does not answer, the ex-date given is another), "yes" on a match.
PossibleAnswers(data) ==
  {"false", "error"} \cup (IF VendorMatches(data) THEN {"true"} ELSE {})

\* validateAnnouncement of the source that is configured.
Vouched(args) ==
  LET key == Key(args.asset, DataHash(args)) IN
    \/ actionSource = "admin" /\ (autoAttest \/ key \in adminAttested)
    \/ actionSource = "oracle" /\ key \in oracleAttested

Voucher == IF actionSource = "admin" /\ autoAttest THEN "auto" ELSE actionSource

\* Set or clear one entry of a mapping of booleans.
Put(keys, key, value) == IF value THEN keys \cup {key} ELSE keys \ {key}

(***************************************************************************)
(* AdminActionSource: calls of ATTESTER_ROLE and of its admin              *)
(***************************************************************************)

Attest(asset, dataHash) ==
  /\ adminAttested' = Put(adminAttested, Key(asset, dataHash), TRUE)
  /\ everAttested' = everAttested \cup {<<asset, dataHash>>}
  /\ UNCHANGED <<registryVars, actionSource, autoAttest, oracleVars, provenance>>

RevokeAttestation(asset, dataHash) ==
  /\ adminAttested' = Put(adminAttested, Key(asset, dataHash), FALSE)
  /\ UNCHANGED <<registryVars, actionSource, autoAttest, everAttested, oracleVars, provenance>>

SetAutoAttest(enabled) ==
  /\ autoAttest' = enabled
  /\ UNCHANGED <<registryVars, actionSource, adminAttested, everAttested, oracleVars, provenance>>

(***************************************************************************)
(* FunctionsActionSource, and the off-chain script behind its router       *)
(***************************************************************************)

SetRequestData(data) ==
  /\ requestData' = data
  /\ UNCHANGED <<registryVars, actionSource, adminVars, oracleAttested, pending,
                 requested, answers, provenance>>

\* A call of REQUESTER_ROLE: the fields are hashed, the data configured at that
\* moment is sent.  The router returns an id it never returned before.
RequestAttestation(args) ==
  /\ requestData # NoPayload
  /\ Len(requested) < MaxRequests
  /\ requested' = Append(requested, [fields |-> args, data |-> requestData])
  /\ pending' = [pending EXCEPT ![Len(requested) + 1] = DataHash(args)]
  /\ UNCHANGED <<registryVars, actionSource, adminVars, requestData, oracleAttested,
                 answers, provenance>>

\* The script runs once per request, on the data that request sent.
Answer(id, response) ==
  /\ id <= Len(requested)
  /\ \A r \in Responses : <<id, r>> \notin answers
  /\ response \in PossibleAnswers(requested[id].data)
  /\ answers' = answers \cup {<<id, response>>}
  /\ UNCHANGED <<registryVars, actionSource, adminVars, requestData, oracleAttested,
                 pending, requested, provenance>>

\* Mutant: the entry of _pending is not deleted.
FulfillKeepingPending(id, response) ==
  /\ <<id, response>> \in answers
  /\ pending[id] # NoRequest
  /\ oracleAttested' =
       Put(oracleAttested, Key(pending[id].asset, pending[id]), Authentic(response))
  /\ UNCHANGED <<registryVars, actionSource, adminVars, requestData, pending, requested,
                 answers, provenance>>

\* The callback, called by the router with an answer, perhaps not for the
\* first time: an id no longer pending reverts.
HandleOracleFulfillment(id, response) ==
  /\ <<id, response>> \in answers
  /\ pending[id] # NoRequest
  /\ pending' = [pending EXCEPT ![id] = NoRequest]
  /\ oracleAttested' =
       Put(oracleAttested, Key(pending[id].asset, pending[id]), Authentic(response))
  /\ UNCHANGED <<registryVars, actionSource, adminVars, requestData, requested, answers,
                 provenance>>

(***************************************************************************)
(* The registry's side                                                     *)
(***************************************************************************)

\* Existing actions are left alone.
SetActionSource(source) ==
  /\ actionSource' = source
  /\ UNCHANGED <<registryVars, adminVars, oracleVars, provenance>>

Announce(caller, args) ==
  /\ Vouched(args)
  /\ AnnounceAction(caller, args)
  /\ provenance' = [provenance EXCEPT ![actionCount + 1] = Voucher]
  /\ UNCHANGED <<actionSource, adminVars, oracleVars>>

\* Every other operation of the registry ignores the source.
OtherRegistryStep ==
  /\ \/ \E caller \in Accounts, id \in ActionIds, root \in Roots \cup {NoRoot},
           total \in Payouts : PublishRoot(caller, id, root, total)
     \/ \E caller \in Accounts, id \in ActionIds : CancelAction(caller, id)
     \/ GovernanceStep
     \/ DistributorStep
     \/ NextBlock
  /\ UNCHANGED <<actionSource, adminVars, oracleVars, provenance>>

(***************************************************************************)
(* Specification                                                           *)
(***************************************************************************)

Init ==
  /\ RegistryInit
  /\ actionSource \in Sources
  /\ autoAttest \in BOOLEAN
  /\ adminAttested = {}
  /\ everAttested = {}
  /\ requestData = NoPayload
  /\ oracleAttested = {}
  /\ pending = [id \in RequestIds |-> NoRequest]
  /\ requested = <<>>
  /\ answers = {}
  /\ provenance = [id \in ActionIds |-> "none"]

SourceStep ==
  \/ \E k \in AttestKeys : Attest(k[1], k[2])
  \/ \E k \in AttestKeys : RevokeAttestation(k[1], k[2])
  \/ \E enabled \in BOOLEAN : SetAutoAttest(enabled)
  \/ \E data \in Payloads \cup {NoPayload} : SetRequestData(data)
  \/ \E args \in Announcements : RequestAttestation(args)
  \/ \E id \in RequestIds, response \in Responses : Answer(id, response)
  \/ \E id \in RequestIds, response \in Responses : HandleOracleFulfillment(id, response)
  \/ \E source \in Sources : SetActionSource(source)

Next ==
  \/ SourceStep
  \/ \E caller \in Accounts, args \in Announcements : Announce(caller, args)
  \/ OtherRegistryStep

Spec == Init /\ [][Next]_vars

(***************************************************************************)
(* Properties                                                              *)
(***************************************************************************)

SourceTypeOK ==
  /\ RegistryTypeOK
  /\ actionSource \in Sources
  /\ autoAttest \in BOOLEAN /\ requestData \in Payloads \cup {NoPayload}
  /\ adminAttested \subseteq Keys /\ everAttested \subseteq Keys
  /\ oracleAttested \subseteq Keys
  /\ pending \in [RequestIds -> Announcements \cup {NoRequest}]
  /\ requested \in Seq([fields : Announcements, data : Payloads])
  /\ Len(requested) <= MaxRequests
  /\ answers \subseteq RequestIds \X Responses
  /\ provenance \in [ActionIds -> {"none", "auto"} \cup Sources]

\* The fields announceAction was called with, read back from storage.
FieldsOf(a) ==
  [asset |-> a.asset, actionType |-> a.actionType, ratePerShare |-> a.ratePerShare,
   recordBlock |-> a.recordBlock, payableAt |-> a.payableAt,
   claimDeadline |-> a.claimDeadline, payoutToken |-> a.payoutToken]

\* The oracle's word for these fields: a request that hashed exactly them was
\* answered yes, and the script had grounds for it in what that request sent.
Confirmed(args) ==
  \E id \in RequestIds :
     /\ <<id, "true">> \in answers
     /\ requested[id].fields = args
     /\ VendorMatches(requested[id].data)

\* What stands behind one entry of the registry.
VouchedFor(id) ==
  /\ provenance[id] = "oracle" => Confirmed(FieldsOf(actions[id]))
  /\ provenance[id] = "admin" =>
       <<actions[id].asset, FieldsOf(actions[id])>> \in everAttested
  /\ provenance[id] = "none" <=> id > actionCount

\* Whatever the order of requests, late or repeated answers, changes of the data
\* sent, revocations and swaps of the source: an action that entered under the
\* oracle source carries exactly the fields of a request that was answered yes,
\* and the vendor knew what that request asked about, though what it asked about
\* was the admin's choice and not these fields; one that entered under the admin
\* source with autoAttest off carries fields an attester vouched for, for that
\* asset.  Only the actions announced carry a provenance.
RecordedActionsVouched == \A id \in ActionIds : VouchedFor(id)

\* A verdict of the oracle source changes only by an answer to a request that
\* was waiting, and that request never waits again: an answer delivered twice,
\* or after a newer one, cannot bring an old verdict back.
VerdictsConsumeRequests ==
  [][/\ \A id \in 1..Len(requested) : pending[id] = NoRequest => pending'[id] = NoRequest
     /\ oracleAttested' # oracleAttested =>
          \E id \in RequestIds : pending[id] # NoRequest /\ pending'[id] = NoRequest]_vars

\* What the script's header and requestAttestation's comment promise: the fields
\* in a vouched hash are those the script was sent when it said yes.
OnlyVerifiedFields ==
  \A k \in oracleAttested :
    \E id \in RequestIds : <<id, "true">> \in answers /\ requested[id].data.fields = k[2]
=============================================================================
