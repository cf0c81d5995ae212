---------------------------- MODULE Entitlements ----------------------------
(***************************************************************************)
(* The pure half of the snapshot tool (tooling/snapshot/src): Transfer     *)
(* logs are folded into balances, exclusions and withholding applied, each *)
(* holder given an index and an amount, a root built over the leaves, and  *)
(* the artifact written.  The artifact then travels as a file: it may be   *)
(* edited, or another producer's may be read in its place by verify.ts.    *)
(*                                                                         *)
(* Addresses are numbers, so that they have the order the tool sorts by; a *)
(* Merkle root is the set of leaves it commits to, and a claim carries the *)
(* proof of its leaf, which verifies exactly for a member of that set.  A  *)
(* file lists a holder once: addresses that differ in the case of their    *)
(* letters only are left out.                                              *)
(***************************************************************************)
EXTENDS Integers, FiniteSets, SequencesExt, FiniteSetsExt

CONSTANTS
  MaxAddress,    \* addresses are 0..MaxAddress, 0 is address(0)
  Histories,     \* the transfer logs a scan may return
  Rates,         \* ratePerShare
  Withholdings,  \* withholdingBps, at most Denominator
  Exclusions,    \* sets of holders given with --exclude
  One,           \* 1e18: shares ratePerShare is quoted for, positive
  Denominator,   \* BPS_DENOM, positive
  NotGiven,      \* what a file that leaves out an optional field has in its place
  ForeignFiles,  \* files of other producers that a reader may be handed
  MaxAmount      \* bound: amounts an edited artifact may hold

Zero == 0
Addresses == 0..MaxAddress
Holders == 1..MaxAddress

\* ProofsFile: grossAmount, totalGross and withholdingBps are optional.
Given == Nat \cup {NotGiven}
ClaimEntry == [index : Nat, gross : Given, amount : Nat]
IsArtifact(f) ==
  /\ DOMAIN f.claims \subseteq Holders
  /\ f \in [claims : [DOMAIN f.claims -> ClaimEntry], root : SUBSET (Nat \X Holders \X Nat),
            totalPayout : Nat, totalGross : Given, withholdingBps : Given, holderCount : Nat]

\* What the theorems assume of them; an ASSUME of MCSnapshot evaluates it.
FoldAssumption ==
  /\ MaxAddress \in Nat
  /\ \A history \in Histories :
       history \in Seq([from : 0..MaxAddress, to : 0..MaxAddress, value : Nat])
  /\ Rates \subseteq Nat /\ One \in Nat \ {0}
  /\ Withholdings \subseteq 0..Denominator /\ Denominator \in Nat \ {0}
  /\ NotGiven \notin Nat /\ \A f \in ForeignFiles : IsArtifact(f)
  /\ MaxAmount \in Nat

VARIABLES
  logs,      \* the decoded Transfer events
  rate,
  bps,
  excluded,
  stage,     \* "logs", then "refused" or "generated", then perhaps "altered"
  file       \* the artifact, once there is one

vars == <<logs, rate, bps, excluded, stage, file>>

(***************************************************************************)
(* From logs to claims                                                     *)
(***************************************************************************)

\* Mutant: the entry is set, not added to.
CreditOverwriting(balances, account, delta) ==
  IF account = Zero THEN balances ELSE [balances EXCEPT ![account] = delta]

Credit(balances, account, delta) ==
  IF account = Zero THEN balances ELSE [balances EXCEPT ![account] = @ + delta]

\* foldTransfers
Apply(balances, t) == Credit(Credit(balances, t.from, -t.value), t.to, t.value)

FoldTransfers(transfers) ==
  FoldLeft(Apply, [h \in Holders |-> 0], transfers)

Balance == FoldTransfers(logs)

Eligible == {h \in Holders \ excluded : Balance[h] > 0}

\* Mutant: the position in the balance map is kept when others are dropped.
IndexAmongAll(h) == h - 1

\* The position in the list of eligible holders, sorted by address.
Index(h) == Cardinality({g \in Eligible : g < h})

Gross(h) == (Balance[h] * rate) \div One

NetFromGross(gross, withheld) == (gross * (Denominator - withheld)) \div Denominator

ClaimOf(h) ==
  [index |-> Index(h), gross |-> Gross(h), amount |-> NetFromGross(Gross(h), bps)]

Leaves(claims) == {<<claims[h].index, h, claims[h].amount>> : h \in DOMAIN claims}

AmountSum(claims) == SumFunction([h \in DOMAIN claims |-> claims[h].amount])
GrossSum(claims) ==
  SumFunction([h \in {g \in DOMAIN claims : claims[g].gross # NotGiven} |-> claims[h].gross])

\* A file whose totals are those of its claims.
TotalledFile(claims, root, withheld) ==
  [claims |-> claims, root |-> root, totalPayout |-> AmountSum(claims),
   totalGross |-> GrossSum(claims), withholdingBps |-> withheld,
   holderCount |-> Cardinality(DOMAIN claims)]

Artifact(claims, withheld) == TotalledFile(claims, Leaves(claims), withheld)

NoFile == Artifact(<<>>, 0)

\* generateSnapshot: an empty eligible set throws.
Generate ==
  /\ stage = "logs"
  /\ \/ /\ Eligible = {}
        /\ stage' = "refused"
        /\ UNCHANGED file
     \/ /\ Eligible # {}
        /\ stage' = "generated"
        /\ file' = Artifact([h \in Eligible |-> ClaimOf(h)], bps)
  /\ UNCHANGED <<logs, rate, bps, excluded>>

(***************************************************************************)
(* The file on its way to a reader                                         *)
(***************************************************************************)

Amounts == 0..MaxAmount

\* Claims are dropped, or a field of one is changed or left out.
EditedClaims(claims) ==
  {Restrict(claims, D) : D \in SUBSET DOMAIN claims}
    \cup {[claims EXCEPT ![h].amount = x] : h \in DOMAIN claims, x \in Amounts}
    \cup {[claims EXCEPT ![h].index = x] : h \in DOMAIN claims, x \in Addresses}
    \cup {[claims EXCEPT ![h].gross = NotGiven] : h \in DOMAIN claims}

\* What the file says of itself is changed or left out.
EditedHeads(f) ==
  {[f EXCEPT !.totalPayout = x] : x \in Amounts}
    \cup {[f EXCEPT !.totalGross = x] : x \in Amounts \cup {NotGiven}}
    \cup {[f EXCEPT !.holderCount = x] : x \in Addresses}
    \cup {[f EXCEPT !.withholdingBps = x] : x \in Withholdings \cup {NotGiven, Denominator + 1}}

\* By hand: the head alone; or the claims alone, or with the totals brought in line,
\* the root as it was or the new claims' own.
Edit ==
  /\ stage = "generated"
  /\ stage' = "altered"
  /\ \/ file' \in EditedHeads(file)
     \/ \E claims \in EditedClaims(file.claims) :
          \/ file' = [file EXCEPT !.claims = claims]
          \/ \E root \in {file.root, Leaves(claims)} :
                file' = TotalledFile(claims, root, file.withholdingBps)
  /\ UNCHANGED <<logs, rate, bps, excluded>>

\* Another producer's file is read instead.
Replace ==
  /\ stage = "generated"
  /\ stage' = "altered"
  /\ file' \in ForeignFiles
  /\ UNCHANGED <<logs, rate, bps, excluded>>

\* Another producer numbers the same holders by a rule of its own.
Renumber ==
  /\ stage = "generated"
  /\ stage' = "altered"
  /\ \E number \in [DOMAIN file.claims -> Addresses] :
        file' = Artifact([h \in DOMAIN file.claims |->
                            [file.claims[h] EXCEPT !.index = number[h]]],
                         file.withholdingBps)
  /\ UNCHANGED <<logs, rate, bps, excluded>>

(***************************************************************************)
(* verify.ts                                                               *)
(***************************************************************************)

\* Mutant: every proof is checked, but the root is not derived again.
AcceptedByProofs(f) ==
  /\ \A h \in DOMAIN f.claims :
        <<f.claims[h].index, h, f.claims[h].amount>> \in f.root
  /\ AmountSum(f.claims) = f.totalPayout

\* verifyLeaf: a proof leads to the root exactly for one of its leaves.
Proven(f, h) == <<f.claims[h].index, h, f.claims[h].amount>> \in f.root

\* Every proof, and net amounts as the declared withholding implies, where a claim
\* says its gross and the file its withholding.
ClaimsHold(f) ==
  \A h \in DOMAIN f.claims :
    /\ f.claims[h].gross # NotGiven /\ f.withholdingBps # NotGiven =>
         f.claims[h].amount = NetFromGross(f.claims[h].gross, f.withholdingBps)
    /\ Proven(f, h)

WithholdingInRange(f) == f.withholdingBps # NotGiven => f.withholdingBps \in 0..Denominator

\* The root is derived again from the claims; a file without claims has none.
RootRederived(f) == DOMAIN f.claims # {} => Leaves(f.claims) = f.root

TotalsAddUp(f) ==
  /\ AmountSum(f.claims) = f.totalPayout
  /\ f.totalGross # NotGiven => GrossSum(f.claims) = f.totalGross

\* verifyProofs
Accepted(f) ==
  /\ f.holderCount = Cardinality(DOMAIN f.claims)
  /\ WithholdingInRange(f) /\ ClaimsHold(f) /\ RootRederived(f) /\ TotalsAddUp(f)

(***************************************************************************)
(* Specification                                                           *)
(***************************************************************************)

Init ==
  /\ logs \in Histories
  /\ rate \in Rates /\ bps \in Withholdings /\ excluded \in Exclusions
  /\ stage = "logs"
  /\ file = NoFile

Next == Generate \/ Edit \/ Replace \/ Renumber

Spec == Init /\ [][Next]_vars

(***************************************************************************)
(* Properties                                                              *)
(***************************************************************************)

Generated == stage = "generated"

\* What a holder's balance is: everything received less everything sent.
Received(h) == SumFunction([i \in DOMAIN logs |-> IF logs[i].to = h THEN logs[i].value ELSE 0])
Sent(h) == SumFunction([i \in DOMAIN logs |-> IF logs[i].from = h THEN logs[i].value ELSE 0])

\* The fold is the balance, whatever order the logs come in (the parallel
\* scanner merges its windows in the order they arrive), self-transfers, mints
\* and burns included (balances.ts).
FoldIsBalance ==
  /\ \A h \in Holders : Balance[h] = Received(h) - Sent(h)
  /\ FoldTransfers(Reverse(logs)) = Balance

\* ... and rounding never promises more than the pro-rata share of what the
\* eligible holders hold, and falls short of it by less than one unit per holder
\* and rounding: funding totalPayout is neither short nor wasteful.
TotalWithinProRata ==
  Generated =>
    LET owed == SumFunction([h \in Eligible |-> Balance[h] * rate])
        kept == Denominator - bps
        n == Cardinality(Eligible) IN
      /\ One * file.totalGross <= owed
      /\ One * file.totalGross > owed - n * One
      /\ Denominator * file.totalPayout <= file.totalGross * kept
      /\ Denominator * file.totalPayout > file.totalGross * kept - n * Denominator

\* What the artifact pays follows from the logs alone: each holder's balance is
\* the fold of them, and the totals are those balances' pro-rata share
\* (balances.ts, eligibility.ts, snapshot.ts).
SharesFollowLogs == FoldIsBalance /\ TotalWithinProRata

LeafSum(root) == SumFunction([leaf \in root |-> leaf[3]])

\* The root the tool publishes is one the distributor can pay in full: every
\* eligible holder, and nobody else, has exactly one leaf, the leaves use
\* distinct bitmap slots without a gap, and they add up to totalPayout.
ArtifactPayable ==
  Generated =>
    /\ {leaf[2] : leaf \in file.root} = {h \in Holders : Balance[h] > 0 /\ h \notin excluded}
    /\ {leaf[1] : leaf \in file.root} = 0..(Cardinality(file.root) - 1)
    /\ Cardinality(file.root) = file.holderCount
    /\ LeafSum(file.root) = file.totalPayout

\* verify accepts what the tool wrote.  Whatever else it is handed, edited or of
\* another producer: a file it accepts that lists claims lists exactly the leaves
\* of its root, which add up to totalPayout.  A file it accepts that lists none
\* promises nothing, but its root may commit to anything: the root is not looked at
\* (verify.ts:166).
VerifyIsExact ==
  /\ Generated => Accepted(file)
  /\ stage = "altered" /\ Accepted(file) =>
       IF DOMAIN file.claims = {}
       THEN file.totalPayout = 0 /\ file.holderCount = 0
       ELSE /\ {<<file.claims[h].index, h, file.claims[h].amount>> : h \in DOMAIN file.claims} = file.root
            /\ LeafSum(file.root) = file.totalPayout

\* INTEGRATION.md calls index "the holder's unique 0-based position": an
\* artifact the verifier accepts gives no two holders one bitmap slot.
AcceptedIndicesUnique ==
  Accepted(file) =>
    \A g, h \in DOMAIN file.claims : file.claims[g].index = file.claims[h].index => g = h
=============================================================================
