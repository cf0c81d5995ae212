----------------------------- MODULE EventWatch -----------------------------
(***************************************************************************)
(* A client that follows the contracts by their events: the SDK's six      *)
(* watchers (packages/sdk/src/events.ts), each a subscription of its own   *)
(* whose decoder names the fields of one event, and the example agent,     *)
(* which decides on every announcement it is handed.  Watchers do not      *)
(* interact, so one of them runs at a time; it may start late, be          *)
(* delivered several blocks at once, stop, and start again.                *)
(***************************************************************************)
EXTENDS ActionFeed

CONSTANT Held  \* actions in whose asset the agent's book holds a position

VARIABLES
  topic,   \* the event subscribed to, "none" if there is no subscription
  since,   \* height after which the subscription delivers
  cursor,  \* height up to which it has delivered
  heard    \* what the handler was called with for each action, in order

streamVars == <<topic, since, cursor, heard>>

(***************************************************************************)
(* Decoders and the agent's handler                                        *)
(***************************************************************************)

\* decideOnAnnouncement
Decide(event) ==
  IF event.kind # "CASH" THEN "rescale"
  ELSE IF event.id \in Held THEN "flag-and-claim" ELSE "watch"

DecodeActionAnnounced(log) == [id |-> log.id, kind |-> log.kind]

\* What the agent's callback is given: watchAnnouncements decodes for itself.
Announcement(log) ==
  LET event == DecodeActionAnnounced(log)
  IN  [id |-> event.id, kind |-> event.kind, decision |-> Decide(event)]

DecodeMerkleRootPublished(log) == [id |-> log.id, totalPayout |-> log.total]

DecodeActionStatusChanged(log) ==
  [id |-> log.id, previousStatus |-> log.prev, newStatus |-> log.new]

\* Mutant: the deposit's own amount under the name of the running total.
DecodeFundedSwapped(log) == [id |-> log.id, amount |-> log.total, totalFunded |-> log.amount]

DecodeFunded(log) == [id |-> log.id, amount |-> log.amount, totalFunded |-> log.total]

DecodeClaimed(log) == [id |-> log.id, index |-> log.index, amount |-> log.amount]

DecodeUnclaimedSwept(log) == [id |-> log.id, amount |-> log.amount]

Topics ==
  {"ActionAnnounced", "MerkleRootPublished", "ActionStatusChanged", "Funded", "Claimed",
   "UnclaimedSwept"}

Decode(log) ==
  CASE log.name = "ActionAnnounced" -> Announcement(log)
    [] log.name = "MerkleRootPublished" -> DecodeMerkleRootPublished(log)
    [] log.name = "ActionStatusChanged" -> DecodeActionStatusChanged(log)
    [] log.name = "Funded" -> DecodeFunded(log)
    [] log.name = "Claimed" -> DecodeClaimed(log)
    [] log.name = "UnclaimedSwept" -> DecodeUnclaimedSwept(log)

(***************************************************************************)
(* Subscriptions                                                           *)
(***************************************************************************)

NothingHeard == [id \in Ids |-> <<>>]

\* From fromBlock on, or from the block the node is at.
Watch(event) ==
  /\ topic = "none"
  /\ topic' = event
  /\ since' \in 0..Height
  /\ cursor' = since'
  /\ UNCHANGED <<feedVars, heard>>

\* The loop over a batch: a log with the event's signature is decoded and handed on.
HandOn(told, log) ==
  IF log.name = topic THEN [told EXCEPT ![log.id] = Append(@, Decode(log))] ELSE told

HandBlockOn(told, height) == FoldLeft(HandOn, told, chain[height].events)

\* One batch of logs: the node need not be at the latest block.
OnLogs ==
  /\ topic # "none"
  /\ \E top \in cursor + 1 .. Height :
       /\ heard' = FoldLeft(HandBlockOn, heard, [i \in 1 .. top - cursor |-> cursor + i])
       /\ cursor' = top
  /\ UNCHANGED <<feedVars, topic, since>>

Unwatch ==
  /\ topic # "none"
  /\ topic' = "none" /\ since' = 0 /\ cursor' = 0 /\ heard' = NothingHeard
  /\ UNCHANGED feedVars

WatchInit == topic = "none" /\ since = 0 /\ cursor = 0 /\ heard = NothingHeard

WatchNext ==
  \/ \E event \in Topics : Watch(event)
  \/ OnLogs
  \/ Unwatch
  \/ FeedNext /\ UNCHANGED streamVars

WatchSpec == FeedInit /\ WatchInit /\ [][WatchNext]_<<feedVars, streamVars>>

(***************************************************************************)
(* Property                                                                *)
(***************************************************************************)

AmountTold(told) == SumFunction([i \in DOMAIN told |-> told[i].amount])

\* What a stream of payloads should make of an action that stood at `old`.
Follows(old, new, told) ==
  CASE topic = "ActionAnnounced" ->
         /\ Len(told) = IF old.status = "NONE" /\ new.status # "NONE" THEN 1 ELSE 0
         /\ \A i \in DOMAIN told : told[i].decision = "rescale" <=> new.kind # "CASH"
    [] topic = "MerkleRootPublished" ->
         new.goal = IF told = <<>> THEN old.goal ELSE told[1].totalPayout
    [] topic = "ActionStatusChanged" ->
         /\ \A i \in 2 .. Len(told) : told[i].previousStatus = told[i - 1].newStatus
         /\ \/ told = <<>> /\ (new.status = old.status \/ <<old.status, new.status>> = <<"NONE", "ANNOUNCED">>)
            \/ /\ told # <<>>
               /\ told[1].previousStatus = IF old.status = "NONE" THEN "ANNOUNCED" ELSE old.status
               /\ told[Len(told)].newStatus = new.status
    [] topic = "Funded" ->
         told # <<>> =>
           /\ told[Len(told)].totalFunded = old.funded + AmountTold(told)
           /\ new.status # "CANCELLED" => told[Len(told)].totalFunded = new.funded
    [] topic = "Claimed" ->
         /\ new.claimed = old.claimed + AmountTold(told)
         /\ new.paid = old.paid \cup {told[i].index : i \in DOMAIN told}
    [] topic = "UnclaimedSwept" ->
         /\ Len(told) = IF old.status # "FINALIZED" /\ new.status = "FINALIZED" THEN 1 ELSE 0
         /\ AmountTold(told) \in {0, new.funded - new.claimed}

\* Each stream alone carries an action's storage from where the watcher
\* started to where it has got, whatever it missed before and however the node
\* cut its batches: a client may start late and still trust the running total,
\* the status and the new claims it is told (events.ts:50-277, agent.ts:93-150).
StreamsTellTheBook ==
  topic # "none" =>
    \A id \in Ids : Follows(StateAt(since).book[id], StateAt(cursor).book[id], heard[id])
=============================================================================
