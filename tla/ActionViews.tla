---------------------------- MODULE ActionViews ----------------------------
(***************************************************************************)
(* The list of actions the app's feed serves (app/src/lib/actions.ts,      *)
(* /api/actions) and the SDK returns (packages/sdk/src/reads.ts): the      *)
(* count, then each action, then its two totals, every one an eth_call to  *)
(* the latest block of its own moment.  A total that cannot be read counts *)
(* as zero; an action that cannot be read fails the whole list.            *)
(***************************************************************************)
EXTENDS ActionFeed

VARIABLES
  listing,   \* "idle" or "reading"
  count,     \* actionCount as read
  entries    \* action id -> what has been read of it

viewVars == <<listing, count, entries>>

\* actionCount: ids run from 1, so the announced actions are counted.
ActionCount == Cardinality({id \in Ids : book[id].status # "NONE"})

\* getAction, and the leaner actionView: what the registry keeps, no money.
GetAction(id) == [status |-> book[id].status, goal |-> book[id].goal]

\* totalFunded and totalClaimed: what the distributor keeps.
Total(id, total) == book[id][total]

Unread ==
  [stage |-> "none", status |-> "NONE", goal |-> 0, funded |-> 0, claimed |-> 0,
   pending |-> {"funded", "claimed"}, sure |-> TRUE]

BeginList ==
  /\ listing = "idle"
  /\ listing' = "reading"
  /\ count' = ActionCount
  /\ entries' = [id \in Ids |-> Unread]
  /\ UNCHANGED feedVars

\* Status and terms of one moment.
ReadAction(id) ==
  /\ listing = "reading" /\ id <= count
  /\ entries[id].stage = "none"
  /\ entries' = [entries EXCEPT ![id].stage = "action", ![id].status = GetAction(id).status,
                                ![id].goal = GetAction(id).goal]
  /\ UNCHANGED <<listing, count, feedVars>>

\* Mutant: all three calls at once.
AskedAtOnce(id, total) == total \in entries[id].pending

\* A total is asked for once the action's own call has returned.
Asked(id, total) == entries[id].stage = "action" /\ total \in entries[id].pending

\* A failed call is caught and becomes zero.
ReadTotal(id, total) ==
  /\ listing = "reading" /\ id <= count
  /\ Asked(id, total)
  /\ \E ok \in BOOLEAN :
       entries' = [entries EXCEPT ![id].pending = @ \ {total}, ![id].sure = @ /\ ok,
                                  ![id][total] = IF ok THEN Total(id, total) ELSE 0]
  /\ UNCHANGED <<listing, count, feedVars>>

Read(id) == entries[id].stage = "action" /\ entries[id].pending = {}

\* The list is served, or the route answers 500 after a failed getAction.
EndList ==
  /\ listing = "reading"
  /\ \/ \A id \in 1..count : Read(id)
     \/ \E id \in 1..count : entries[id].stage = "none"
  /\ listing' = "idle" /\ count' = 0
  /\ entries' = [id \in Ids |-> Unread]
  /\ UNCHANGED feedVars

ViewInit == listing = "idle" /\ count = 0 /\ entries = [id \in Ids |-> Unread]

ViewNext ==
  \/ FeedNext /\ UNCHANGED viewVars
  \/ BeginList \/ EndList
  \/ \E id \in Ids : ReadAction(id) \/ \E total \in {"funded", "claimed"} : ReadTotal(id, total)

ViewSpec == FeedInit /\ ViewInit /\ [][ViewNext]_<<feedVars, viewVars>>

(***************************************************************************)
(* Property                                                                *)
(***************************************************************************)

\* Read at three moments, an entry still never shows a status ahead of its
\* money: what it calls claimable or finalised is fully funded and not
\* overclaimed, and what it calls cancelled holds nothing (actions.ts:45-73).
ViewCoherent ==
  \A id \in Ids :
    LET e == entries[id] IN
    Read(id) /\ e.sure =>
      /\ e.status \in {"CLAIMABLE", "FINALIZED"} => e.funded = e.goal /\ e.claimed <= e.funded
      /\ e.status = "CANCELLED" => e.funded = 0 /\ e.claimed = 0
=============================================================================
