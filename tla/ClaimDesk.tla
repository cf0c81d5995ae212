----------------------------- MODULE ClaimDesk -----------------------------
(***************************************************************************)
(* One holder's dividend in the web app: the panel that polls the feed,    *)
(* finds the claim and reads the distributor's bitmap, the row with its    *)
(* button, the server that relays the claim without gas or the wallet that *)
(* signs it, and the chain that mines it, perhaps after somebody else has  *)
(* claimed for the holder or the issuer has swept.                         *)
(*                                                                         *)
(* Every refetch of the feed gives the eligibility query a new key, so the *)
(* table is replaced by a skeleton and the row forgets its phase and its   *)
(* transaction; what it had sent goes on without it.                       *)
(***************************************************************************)
EXTENDS RelayLimiter, Sequences, SequencesExt

CONSTANTS
  Client,     \* the identity under which this holder's requests are counted
  MaxClicks   \* bound: clicks on the claim button

VARIABLES
  status,     \* the action's status on chain
  consumed,   \* whether the distributor's bitmap has this claim's bit
  txs,        \* the claims broadcast, oldest first: what became of each
  gasless,    \* gaslessEnabled, fixed when the app is built
  posts,      \* the submissions made by the row, oldest first: stage and transaction
  row,        \* ClaimRow: phase, hash (0: undefined), attempt awaited (0: none)
  page        \* ClaimPanel: feed status, loading, listed, claimed as last read

chainVars == <<status, consumed, txs>>
deskVars == <<limiterVars, chainVars, gasless, posts, row, page>>

IdleRow == [phase |-> "idle", hash |-> 0, attempt |-> 0]
Busy == row.phase \in {"submitting", "confirming"}

\* The distributor's guard: CLAIMABLE and a clear bit.
Payable == status = "CLAIMABLE" /\ ~consumed

Shown == ~page.loading /\ page.listed
InHistory == Shown /\ page.claimed

MoveTo(i, stage) == posts' = [posts EXCEPT ![i].stage = stage]

Click ==
  /\ Shown /\ ~page.claimed
  /\ row.phase \in {"idle", "error"}
  /\ Len(posts) < MaxClicks
  /\ posts' = Append(posts, [stage |-> IF gasless THEN "sent" ELSE "signing", tx |-> 0])
  /\ row' = [row EXCEPT !.phase = "submitting", !.attempt = Len(posts) + 1]
  /\ UNCHANGED <<limiterVars, chainVars, gasless, page>>

\* The route up to the simulation: an unconfigured relay or a payload out of
\* shape is refused like a client over its limit.
Post(i) ==
  /\ posts[i].stage = "sent"
  /\ \E ok \in BOOLEAN :
       /\ CheckRateLimit(Client, ok)
       /\ MoveTo(i, IF ok THEN "counted" ELSE "refused")
  /\ UNCHANGED <<chainVars, gasless, row, page>>

Simulate(i) ==
  /\ posts[i].stage = "counted"
  /\ MoveTo(i, IF Payable THEN "simulated" ELSE "refused")
  /\ UNCHANGED <<limiterVars, chainVars, gasless, row, page>>

Broadcast(i) ==
  /\ txs' = Append(txs, "pending")
  /\ posts' = [posts EXCEPT ![i] = [stage |-> "written", tx |-> Len(txs) + 1]]

\* writeContract of the relayer; the node may refuse it.
Write(i) ==
  /\ posts[i].stage = "simulated"
  /\ Broadcast(i) \/ (MoveTo(i, "refused") /\ UNCHANGED txs)
  /\ UNCHANGED <<limiterVars, status, consumed, gasless, row, page>>

\* The holder's own wallet estimates the call first, and may be told no.
Sign(i) ==
  /\ posts[i].stage = "signing"
  /\ \/ Payable /\ Broadcast(i)
     \/ MoveTo(i, "refused") /\ UNCHANGED txs
  /\ UNCHANGED <<limiterVars, status, consumed, gasless, row, page>>

\* The answer reaches the row, if the row that asked is still there.
Answer(i) ==
  /\ posts[i].stage \in {"written", "refused"}
  /\ MoveTo(i, "closed")
  /\ row' = IF row.attempt # i THEN row
            ELSE IF posts[i].stage = "written"
                 THEN [phase |-> "confirming", hash |-> posts[i].tx, attempt |-> 0]
                 ELSE [row EXCEPT !.phase = "error", !.attempt = 0]
  /\ UNCHANGED <<limiterVars, chainVars, gasless, page>>

\* The request is cut off on its way back: the row gives up, the server does not.
LoseAnswer ==
  /\ gasless /\ row.attempt # 0
  /\ row' = [row EXCEPT !.phase = "error", !.attempt = 0]
  /\ UNCHANGED <<limiterVars, chainVars, gasless, posts, page>>

\* One account's transactions are mined in the order of their nonces.
Mine ==
  \E k \in DOMAIN txs :
    /\ txs[k] = "pending"
    /\ \A j \in 1 .. (k - 1) : txs[j] # "pending"
    /\ txs' = [txs EXCEPT ![k] = IF Payable THEN "success" ELSE "reverted"]
    /\ consumed' = (consumed \/ Payable)
    /\ UNCHANGED <<status, limiterVars, gasless, posts, row, page>>

ClaimElsewhere ==
  /\ Payable
  /\ consumed' = TRUE
  /\ UNCHANGED <<status, txs, limiterVars, gasless, posts, row, page>>

Sweep ==
  /\ status = "CLAIMABLE"
  /\ status' = "FINALIZED"
  /\ UNCHANGED <<consumed, txs, limiterVars, gasless, posts, row, page>>

\* Mutant: mined is taken for paid.
ReceiptMined ==
  /\ row.hash # 0 /\ row.phase # "done"
  /\ txs[row.hash] # "pending"
  /\ row' = [row EXCEPT !.phase = "done"]
  /\ UNCHANGED <<limiterVars, chainVars, gasless, posts, page>>

\* The effect on the receipt query: it also fails when the node cannot be
\* asked, and it runs again at any later render for the hash it still holds.
Receipt ==
  /\ row.hash # 0 /\ row.phase # "done"
  /\ \E outcome \in {txs[row.hash], "failed"} \ {"pending"} :
       row' = [row EXCEPT !.phase = IF outcome = "success" THEN "done" ELSE "error"]
  /\ UNCHANGED <<limiterVars, chainVars, gasless, posts, page>>

\* The fifteen-second poll, Refresh, Retry and onClaimed: a new key for the
\* eligibility query, and the rows are gone until it answers.
FeedRefetched ==
  /\ page' = [page EXCEPT !.feed = status, !.loading = TRUE]
  /\ row' = IdleRow
  /\ UNCHANGED <<limiterVars, chainVars, gasless, posts>>

\* getEligibleClaims: only CLAIMABLE dividends, and a failed lookup is no claim.
EligibleLoaded(found) ==
  /\ page.loading
  /\ page' = [page EXCEPT !.loading = FALSE, !.listed = (found /\ page.feed = "CLAIMABLE")]
  /\ UNCHANGED <<limiterVars, chainVars, gasless, posts, row>>

\* Mutant: the row's own success decides, not the bitmap.
ClaimedReadLocally ==
  /\ Shown
  /\ page' = [page EXCEPT !.claimed = (row.phase = "done")]
  /\ UNCHANGED <<limiterVars, chainVars, gasless, posts, row>>

ClaimedRead ==
  /\ Shown
  /\ page' = [page EXCEPT !.claimed = consumed]
  /\ UNCHANGED <<limiterVars, chainVars, gasless, posts, row>>

DeskInit ==
  /\ status = "CLAIMABLE" /\ consumed = FALSE /\ txs = << >>
  /\ gasless \in BOOLEAN
  /\ posts = << >>
  /\ row = IdleRow
  /\ page = [feed |-> "none", loading |-> TRUE, listed |-> FALSE, claimed |-> FALSE]

DeskNext ==
  \/ Click \/ LoseAnswer \/ Receipt
  \/ \E i \in DOMAIN posts : Post(i) \/ Simulate(i) \/ Write(i) \/ Sign(i) \/ Answer(i)
  \/ Mine \/ ClaimElsewhere \/ Sweep
  \/ FeedRefetched \/ ClaimedRead
  \/ \E found \in BOOLEAN : EligibleLoaded(found)

DeskSpec == LimiterInit /\ DeskInit /\ [][DeskNext]_deskVars

(***************************************************************************)
(* Properties                                                              *)
(***************************************************************************)

\* What the page calls paid, in the row or in the history, the distributor has
\* paid: through lost answers, reverted duplicates and rows that come back
\* without their memory (ClaimPanel.tsx:74-82, 272-285).
PaidMeansPaid == (row.phase = "done" \/ InHistory) => consumed

\* While the action stays claimable, a payment is seen by its holder again and
\* again, whoever made it, as long as the page polls and lookups succeed in the
\* end (ClaimPanel.tsx:54-88).
HolderSeesPayment == <>[](status = "CLAIMABLE") => [](consumed => []<>InHistory)
=============================================================================
