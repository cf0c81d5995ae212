--------------------------- MODULE IssuerConsole ---------------------------
(***************************************************************************)
(* The issuer's wallet and the two programs that send through it: the      *)
(* console (announce, publish and fund, whose transactions nobody waits    *)
(* for) and a script over the SDK's ParvalonClient.  The chain mines the   *)
(* wallet's transactions in the order they were sent, among announcements  *)
(* and deposits of others; a transaction may revert.                       *)
(***************************************************************************)
EXTENDS Integers, Sequences, SequencesExt

CONSTANTS
  Total,       \* the total payout typed into the form
  Share,       \* what the script publishes and deposits
  MaxActions,  \* bound: actions ever announced
  MaxTxs,      \* bound: transactions ever sent from the wallet
  MaxScripted  \* bound: transactions the script sends

ConsoleAssumption == Total \in Nat /\ Share \in Nat /\ MaxActions \in Nat

VARIABLES
  actions,    \* the registry and the distributor: owner, status, goal, funded by action id
  allowance,  \* what the distributor may take from the issuer
  txs,        \* the wallet's transactions, oldest first, and what became of them
  script,     \* the client: has it a wallet, awaitApproval, and the deposit it is at
  console     \* step, actionId (0: null) and the handler at work

consoleVars == <<actions, allowance, txs, script, console>>
ledger == <<actions, allowance>>
ActionIds == 1 .. MaxActions

(***************************************************************************)
(* Calls                                                                   *)
(***************************************************************************)

\* What the encoders make of a call; announcements and sweeps carry no amount.
Tx(by, call, id, amount) ==
  [by |-> by, call |-> call, id |-> id, amount |-> amount, state |-> "pending"]

Send(tx) == Len(txs) < MaxTxs /\ txs' = Append(txs, tx)

Scripted == SelectSeq(txs, LAMBDA tx : tx.by = "script")

\* Every write of the client throws when it was constructed without a wallet.
ScriptSends(call, id, amount) ==
  /\ script.wallet /\ Len(Scripted) < MaxScripted
  /\ Send(Tx("script", call, id, amount))

(***************************************************************************)
(* The console                                                             *)
(***************************************************************************)

Handling(handler) == console.handler = handler
At(step) == console.step = step /\ Handling("none")

\* guard(): an error ends the handler and leaves the step.
GiveUp ==
  /\ ~Handling("none")
  /\ console' = [console EXCEPT !.handler = "none"]
  /\ UNCHANGED <<ledger, txs, script>>

\* onAnnounce: the wallet's hash, then the number of actions at that moment.
Announce ==
  /\ At(0)
  /\ Send(Tx("console", "announce", 0, 0))
  /\ console' = [console EXCEPT !.handler = "counting"]
  /\ UNCHANGED <<ledger, script>>

ReadCount ==
  /\ Handling("counting")
  /\ console' = [step |-> 1, id |-> Len(actions), handler |-> "none"]
  /\ UNCHANGED <<ledger, txs, script>>

SnapshotGenerated ==
  /\ At(1)
  /\ console' = [console EXCEPT !.step = 2]
  /\ UNCHANGED <<ledger, txs, script>>

Publish ==
  /\ At(2)
  /\ Send(Tx("console", "publish", console.id, Total))
  /\ console' = [console EXCEPT !.step = 3]
  /\ UNCHANGED <<ledger, script>>

\* Mutant: the deposit is sent also when the wallet refused the approval.
ApproveIfWilling ==
  /\ At(3)
  /\ UNCHANGED txs \/ Send(Tx("console", "approve", 0, Total))
  /\ console' = [console EXCEPT !.handler = "funding"]
  /\ UNCHANGED <<ledger, script>>

\* onFund: approve, then fund, from one handler.
Approve ==
  /\ At(3)
  /\ Send(Tx("console", "approve", 0, Total))
  /\ console' = [console EXCEPT !.handler = "funding"]
  /\ UNCHANGED <<ledger, script>>

Fund ==
  /\ Handling("funding")
  /\ Send(Tx("console", "fund", console.id, Total))
  /\ console' = [console EXCEPT !.step = 4, !.handler = "none"]
  /\ UNCHANGED <<ledger, script>>

StartAnother ==
  /\ At(4)
  /\ console' = [step |-> 0, id |-> 0, handler |-> "none"]
  /\ UNCHANGED <<ledger, txs, script>>

(***************************************************************************)
(* The script                                                              *)
(***************************************************************************)

AnnounceAction == ScriptSends("announce", 0, 0)
PublishRoot(id) == ScriptSends("publish", id, Share)
CancelAction(id) == ScriptSends("cancel", id, 0)
SweepUnclaimed(id) == ScriptSends("sweep", id, 0)

\* A write that is one transaction; its hash is returned at once.
Write ==
  /\ script.funding = 0
  /\ AnnounceAction \/ \E id \in ActionIds : PublishRoot(id) \/ CancelAction(id) \/ SweepUnclaimed(id)
  /\ UNCHANGED <<ledger, script, console>>

\* fundWithApproval: the receipt is awaited, whatever it says, unless told not to.
FundWithApproval(id) ==
  /\ script.funding = 0
  /\ ScriptSends("approve", 0, Share)
  /\ script' = [script EXCEPT !.funding = id]
  /\ UNCHANGED <<ledger, console>>

DepositScripted ==
  /\ script.funding # 0
  /\ script.awaits => Last(Scripted).state # "pending"
  /\ ScriptSends("fund", script.funding, Share)
  /\ script' = [script EXCEPT !.funding = 0]
  /\ UNCHANGED <<ledger, console>>

\* The wait, or the wallet, fails.
ScriptThrows ==
  /\ script.funding # 0
  /\ script' = [script EXCEPT !.funding = 0]
  /\ UNCHANGED <<ledger, txs, console>>

(***************************************************************************)
(* The chain                                                               *)
(***************************************************************************)

Blank(owner) == [owner |-> owner, status |-> "ANNOUNCED", goal |-> 0, funded |-> 0]

Own(id, status) ==
  id \in DOMAIN actions /\ actions[id].status = status /\ actions[id].owner = "issuer"

Fundable(id, amount) ==
  /\ id \in DOMAIN actions /\ actions[id].status = "ROOT_PUBLISHED"
  /\ actions[id].funded + amount <= actions[id].goal

Deposited(id, amount) ==
  LET total == actions[id].funded + amount IN
  [actions EXCEPT ![id].funded = total,
                  ![id].status = IF total = actions[id].goal THEN "CLAIMABLE" ELSE @]

\* What a transaction needs; a sweep needs its deadline to have passed besides.
Accepted(tx) ==
  CASE tx.call = "announce" -> Len(actions) < MaxActions
    [] tx.call = "publish" -> Own(tx.id, "ANNOUNCED")
    [] tx.call = "cancel" -> Own(tx.id, "ANNOUNCED")
    [] tx.call = "sweep" -> Own(tx.id, "CLAIMABLE")
    [] tx.call = "approve" -> TRUE
    [] tx.call = "fund" -> Fundable(tx.id, tx.amount) /\ tx.amount <= allowance

Execute(tx) ==
  /\ allowance' = CASE tx.call = "approve" -> tx.amount
                     [] tx.call = "fund" -> allowance - tx.amount
                     [] OTHER -> allowance
  /\ actions' =
       CASE tx.call = "announce" -> Append(actions, Blank("issuer"))
         [] tx.call = "publish" -> [actions EXCEPT ![tx.id].status = "ROOT_PUBLISHED",
                                                   ![tx.id].goal = tx.amount]
         [] tx.call = "cancel" -> [actions EXCEPT ![tx.id].status = "CANCELLED"]
         [] tx.call = "sweep" -> [actions EXCEPT ![tx.id].status = "FINALIZED"]
         [] tx.call = "approve" -> actions
         [] tx.call = "fund" -> Deposited(tx.id, tx.amount)

\* How it fails: a deposit that only lacks its allowance is told apart.
Failure(tx) ==
  IF tx.call = "fund" /\ Fundable(tx.id, tx.amount) THEN "unapproved" ELSE "reverted"

Mine ==
  \E k \in DOMAIN txs :
    /\ txs[k].state = "pending"
    /\ \A j \in 1 .. (k - 1) : txs[j].state # "pending"
    /\ \/ Accepted(txs[k]) /\ Execute(txs[k]) /\ txs' = [txs EXCEPT ![k].state = "success"]
       \/ /\ ~Accepted(txs[k]) \/ txs[k].call = "sweep"
          /\ txs' = [txs EXCEPT ![k].state = Failure(txs[k])] /\ UNCHANGED ledger
    /\ UNCHANGED <<script, console>>

\* Another issuer announces, or somebody pays into this one's action.
OtherAnnounces ==
  /\ Len(actions) < MaxActions
  /\ actions' = Append(actions, Blank("other"))
  /\ UNCHANGED <<allowance, txs, script, console>>

OtherFunds ==
  \E id \in DOMAIN actions :
    /\ Fundable(id, 1)
    /\ actions' = Deposited(id, 1)
    /\ UNCHANGED <<allowance, txs, script, console>>

ConsoleInit ==
  /\ actions = << >> /\ allowance = 0 /\ txs = << >>
  /\ script \in [wallet : BOOLEAN, awaits : BOOLEAN, funding : {0}]
  /\ console = [step |-> 0, id |-> 0, handler |-> "none"]

ConsoleNext ==
  \/ GiveUp \/ Announce \/ ReadCount \/ SnapshotGenerated \/ Publish \/ Approve \/ Fund \/ StartAnother
  \/ Write \/ (\E id \in ActionIds : FundWithApproval(id)) \/ DepositScripted \/ ScriptThrows
  \/ Mine \/ OtherAnnounces \/ OtherFunds

\* A transaction that was broadcast is mined in the end.
ConsoleSpec == ConsoleInit /\ [][ConsoleNext]_consoleVars /\ WF_consoleVars(Mine)

(***************************************************************************)
(* Properties                                                              *)
(***************************************************************************)

\* Neither the console nor a client told not to wait knows its approval mined,
\* and both use one allowance; yet through refused signatures, retries and
\* deposits of others a deposit is refused for want of an allowance only if the
\* other program approved or deposited after this one's approval
\* (IssuerConsole.tsx:111-129, writes.ts:171-201).
DepositsApproved ==
  \A k \in DOMAIN txs :
    txs[k].state = "unapproved" =>
      \E j \in 1 .. (k - 1) :
        /\ txs[j].by # txs[k].by /\ txs[j].call \in {"approve", "fund"}
        /\ \A i \in j .. k : txs[i].by = txs[k].by => txs[i].call # "approve"

\* What the console's last step says (IssuerConsole.tsx:266): the action it
\* names is claimable, or becomes so once the wallet's transactions are mined.
ClaimableWhenSaid ==
  \A id \in 0 .. MaxActions :
    console.step = 4 /\ console.id = id
      ~> id \in DOMAIN actions /\ actions[id].status = "CLAIMABLE"
=============================================================================
