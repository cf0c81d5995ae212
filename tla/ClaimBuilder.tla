---------------------------- MODULE ClaimBuilder ----------------------------
(***************************************************************************)
(* The SDK's side of a claim (packages/sdk/src): an entry of a proofs file *)
(* becomes the arguments of the distributor's claim, which anyone may      *)
(* submit for anyone.  The issuer has published and funded the file the    *)
(* tool wrote; the copy at hand may have been edited since, or replaced.   *)
(***************************************************************************)
EXTENDS Entitlements

VARIABLES
  posted,  \* the root the issuer published, {} before
  escrow,  \* what is left of the deposit
  used     \* the claims bitmap

claimVars == <<posted, escrow, used>>

\* Mutant: the entry's gross amount is claimed.
EligibleClaimForGross(f, account) ==
  LET entry == f.claims[account]
  IN  [index |-> entry.index, account |-> account, amount |-> entry.gross]

\* eligibleClaimFor
EligibleClaimFor(f, account) ==
  LET entry == f.claims[account]
  IN  [index |-> entry.index, account |-> account, amount |-> entry.amount]

AllEligibleClaims(f) == {EligibleClaimFor(f, account) : account \in DOMAIN f.claims}

\* claimArgsFromEligible and encodeClaim: the leaf a claim names.
ClaimArgs(claim) == <<claim.index, claim.account, claim.amount>>

\* verifyProof: the proof beside an entry leads to the root exactly if the
\* entry's leaf is one of those the root commits to.
VerifyProof(root, leaf) == leaf \in root

\* What the distributor demands of a claim.
Payable(claim) ==
  VerifyProof(posted, ClaimArgs(claim)) /\ claim.index \notin used /\ claim.amount <= escrow

Post ==
  /\ stage = "generated"
  /\ posted = {}
  /\ posted' = file.root
  /\ escrow' = file.totalPayout
  /\ UNCHANGED <<vars, used>>

\* claimForAccount and claimFromEligible; any other claim reverts.
Claim ==
  /\ \E claim \in AllEligibleClaims(file) :
       /\ Payable(claim)
       /\ used' = used \cup {claim.index}
       /\ escrow' = escrow - claim.amount
  /\ UNCHANGED <<vars, posted>>

ClaimInit == posted = {} /\ escrow = 0 /\ used = {}

ClaimNext == (Next /\ UNCHANGED claimVars) \/ Post \/ Claim

ClaimSpec == (Init /\ ClaimInit) /\ [][ClaimNext]_<<vars, claimVars>>

(***************************************************************************)
(* Property                                                                *)
(***************************************************************************)

\* Claims built from the tool's own file can always be made, in any order and
\* by anyone, until each holder the snapshot found eligible has been paid what
\* is left of its share and nothing remains; any other file pays nobody else
\* and nothing else (proofs.ts:65-104, merkle.ts:41-84, client.ts:174-200).
EveryHolderPaid ==
  posted # {} =>
    LET open == {h \in Eligible : Index(h) \notin used} IN
      /\ escrow = SumFunction([h \in open |-> NetFromGross(Gross(h), bps)])
      /\ used \subseteq {Index(h) : h \in Eligible}
      /\ Generated => \A h \in open : Payable(EligibleClaimFor(file, h))
=============================================================================
