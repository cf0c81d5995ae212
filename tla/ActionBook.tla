----------------------------- MODULE ActionBook -----------------------------
(***************************************************************************)
(* What the two contracts show to a program that reads them: one record    *)
(* per corporate action.  It is the abstract specification of              *)
(* DividendDistributor (see ImplementsBook there) and the chain every      *)
(* off-chain component of this project is checked against.  Time, pauses,  *)
(* issuers and the pooled balance only forbid steps, so they are left out: *)
(* any step of a component that holds against this book holds against the  *)
(* contracts.                                                              *)
(***************************************************************************)
EXTENDS Integers

CONSTANTS
  Ids,      \* action ids, an initial segment of 1, 2, ...
  Kinds,    \* subset of {"CASH", "INFO"}: dividends and informational actions
  Goals,    \* totals an issuer may publish
  Amounts,  \* what one fund call may bring in
  Leaves    \* [index, amount] pairs the published roots commit to

VARIABLE book

Blank ==
  [status |-> "NONE", kind |-> "CASH", goal |-> 0, funded |-> 0, claimed |-> 0, paid |-> {}]

At(id, status) == book[id].status = status

Announce(id, kind) ==
  /\ At(id, "NONE")
  /\ \A k \in Ids : k < id => ~At(k, "NONE")
  /\ book' = [book EXCEPT ![id].status = "ANNOUNCED", ![id].kind = kind]

PublishGoal(id, goal) ==
  /\ At(id, "ANNOUNCED")
  /\ book[id].kind = "CASH"
  /\ goal > 0
  /\ book' = [book EXCEPT ![id].status = "ROOT_PUBLISHED", ![id].goal = goal]

Deposit(id, amount) ==
  LET total == book[id].funded + amount
  IN  /\ At(id, "ROOT_PUBLISHED")
      /\ total <= book[id].goal
      /\ book' = [book EXCEPT ![id].funded = total,
                              ![id].status = IF total = book[id].goal THEN "CLAIMABLE" ELSE @]

Pay(id, leaf) ==
  LET total == book[id].claimed + leaf.amount
  IN  /\ At(id, "CLAIMABLE")
      /\ leaf.index \notin book[id].paid
      /\ total <= book[id].funded
      /\ book' = [book EXCEPT ![id].paid = @ \cup {leaf.index}, ![id].claimed = total]

Finalize(id) ==
  /\ At(id, "CLAIMABLE")
  /\ book' = [book EXCEPT ![id].status = "FINALIZED"]

\* cancelAction before a root is published, cancelPublishedAction after: the
\* deposit, if any, goes back.
Void(id) ==
  /\ book[id].status \in {"ANNOUNCED", "ROOT_PUBLISHED"}
  /\ book' = [book EXCEPT ![id].status = "CANCELLED", ![id].funded = 0]

BookInit == book = [id \in Ids |-> Blank]

BookNext ==
  \E id \in Ids :
     \/ \E kind \in Kinds : Announce(id, kind)
     \/ \E goal \in Goals : PublishGoal(id, goal)
     \/ \E amount \in Amounts : Deposit(id, amount)
     \/ \E leaf \in Leaves : Pay(id, leaf)
     \/ Finalize(id)
     \/ Void(id)

BookSpec == BookInit /\ [][BookNext]_book

\* What the distributor holds for an action.
EscrowOf(entry) ==
  IF entry.status \in {"ROOT_PUBLISHED", "CLAIMABLE"} THEN entry.funded - entry.claimed ELSE 0
=============================================================================
