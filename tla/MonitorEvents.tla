--------------------------- MODULE MonitorEvents ---------------------------
(***************************************************************************)
(* The monitor's event mode.  Every log becomes a task of its own: the     *)
(* handlers are not awaited, so the tasks of different batches interleave, *)
(* and a Funded or UnclaimedSwept task first reads the contract as it is   *)
(* by then, which may fail.  A log may be delivered again, and one         *)
(* transaction may deposit to an action more than once.                    *)
(***************************************************************************)
EXTENDS ActionFeed

CONSTANTS
  MaxTotal,    \* maxTotalPayout
  LargeFund,   \* largeFundingRatio in percent
  LargeSweep,  \* largeSweepRemainderRatio in percent
  Suspect,     \* what is screened by its terms: code -> the actions that fail
  MaxAgain     \* bound: how often one log is delivered again

VARIABLES
  delivered,  \* height up to which the watchers have delivered
  tasks,      \* logs being handled
  seen,       \* seenFundingTxes
  raised      \* alerts handed to the notifier, with the delivery that raised them

watchVars == <<delivered, tasks, seen, raised>>
listenVars == <<feedVars, watchVars>>

\* One delivery of event number `pos` of the call at height `call`.  Two
\* kinds of event are looked into before they are screened.
Task(call, pos, copy) ==
  [call |-> call, pos |-> pos, copy |-> copy, whole |-> 0,
   step |-> IF chain[call].events[pos].name \in {"Funded", "UnclaimedSwept"} THEN "asking" ELSE "ready"]

EventOf(task) == chain[task.call].events[task.pos]

(***************************************************************************)
(* The checks: the codes one event raises                                  *)
(***************************************************************************)

\* ALLOWED_TRANSITIONS
Allowed ==
  [s \in {"NONE", "ANNOUNCED", "ROOT_PUBLISHED", "CLAIMABLE", "FINALIZED", "CANCELLED"} |->
     CASE s = "ANNOUNCED" -> {"ROOT_PUBLISHED", "CANCELLED"}
       [] s = "ROOT_PUBLISHED" -> {"CLAIMABLE", "CANCELLED"}
       [] s = "CLAIMABLE" -> {"FINALIZED"}
       [] OTHER -> {}]

OrInfo(anomalies, info) == IF anomalies = {} THEN {info} ELSE anomalies

Flag(condition, code) == IF condition THEN {code} ELSE {}

\* No target known, no verdict.  Exact here; the code divides the amounts as
\* floating-point numbers.
AtLeast(part, percent, whole) == whole > 0 /\ 100 * part >= percent * whole

CheckStatusChanged(e) ==
  IF e.new \in Allowed[e.prev] THEN {"status_changed"} ELSE {"illegal_status_transition"}

\* unknown_asset is never raised: the monitor passes no allowlist of assets.
CheckAnnounced(e) ==
  OrInfo(Flag(e.id \in Suspect.implausible_rate, "implausible_rate"), "action_announced")

CheckRootPublished(e) ==
  OrInfo(Flag(e.total > MaxTotal, "implausible_total_payout")
           \cup Flag(e.id \in Suspect.zero_holder_root, "zero_holder_root"), "root_published")

CheckFunded(e, duplicate, whole) ==
  OrInfo(Flag(duplicate, "duplicate_funding")
           \cup Flag(e.id \in Suspect.unexpected_funder, "unexpected_funder")
           \cup Flag(AtLeast(e.amount, LargeFund, whole), "large_funding"), "funded")

CheckSwept(e, whole) ==
  OrInfo(Flag(AtLeast(e.amount, LargeSweep, whole), "large_sweep_remainder"), "swept")

\* `${id}:${txHash}`
TxKey(task) == [id |-> EventOf(task).id, tx |-> chain[task.call].tx]

Codes(task) ==
  LET e == EventOf(task)
  IN  CASE e.name = "ActionStatusChanged" -> CheckStatusChanged(e)
        [] e.name = "ActionAnnounced" -> CheckAnnounced(e)
        [] e.name = "MerkleRootPublished" -> CheckRootPublished(e)
        [] e.name = "Funded" -> CheckFunded(e, TxKey(task) \in seen, task.whole)
        [] e.name = "UnclaimedSwept" -> CheckSwept(e, task.whole)
        [] e.name \in {"Paused", "Unpaused"} -> {"pause_changed"}
        [] OTHER -> {}

(***************************************************************************)
(* onRegistryLogs, onDistributorLogs                                       *)
(***************************************************************************)

DeliverLogs ==
  /\ delivered < Height
  /\ delivered' = delivered + 1
  /\ tasks' = tasks \cup {Task(delivered + 1, pos, 0) : pos \in DOMAIN chain[delivered + 1].events}
  /\ UNCHANGED <<feedVars, seen, raised>>

\* The node delivers a log once more; only a deposit's is remembered.
DeliverAgain(call, pos, copy) ==
  /\ call <= delivered
  /\ pos \in DOMAIN chain[call].events
  /\ \A t \in tasks : ~(t.call = call /\ t.pos = pos /\ t.copy >= copy)
  /\ \A a \in raised : ~(a.task.call = call /\ a.task.pos = pos /\ a.task.copy >= copy)
  /\ chain[call].events[pos].name = "Funded"
  /\ tasks' = tasks \cup {Task(call, pos, copy)}
  /\ UNCHANGED <<feedVars, delivered, seen, raised>>

\* Mutant: the deposit is compared with what is on the books by then.
WholeNowFunded(e) == IF e.name \in {"Funded", "UnclaimedSwept"} THEN book[e.id].funded ELSE 0

\* What the handler reads before it screens: actionView(id).totalPayout for a
\* deposit, totalFunded(id) for a sweep, both of the latest block.
WholeNow(e) ==
  CASE e.name = "Funded" -> book[e.id].goal
    [] e.name = "UnclaimedSwept" -> book[e.id].funded
    [] OTHER -> 0

ReadContext(task, whole) ==
  /\ task.step = "asking"
  /\ tasks' = (tasks \ {task}) \cup {[task EXCEPT !.step = "ready", !.whole = whole]}
  /\ UNCHANGED <<feedVars, delivered, seen, raised>>

\* Mutant: the transaction is not remembered.
RaiseForgetting(task) ==
  /\ task.step = "ready"
  /\ tasks' = tasks \ {task}
  /\ raised' = raised \cup {[task |-> task, code |-> c] : c \in Codes(task)}
  /\ UNCHANGED <<feedVars, delivered, seen>>

Raise(task) ==
  /\ task.step = "ready"
  /\ tasks' = tasks \ {task}
  /\ raised' = raised \cup {[task |-> task, code |-> c] : c \in Codes(task)}
  /\ seen' = IF EventOf(task).name = "Funded" THEN seen \cup {TxKey(task)} ELSE seen
  /\ UNCHANGED <<feedVars, delivered>>

ListenInit == delivered = 0 /\ tasks = {} /\ seen = {} /\ raised = {}

EventsInit == FeedInit /\ ListenInit

Handle ==
  \/ DeliverLogs
  \/ \E call \in 1..MaxBlocks, pos \in 1..2, copy \in 1..MaxAgain : DeliverAgain(call, pos, copy)
  \/ \E task \in tasks :
       \/ \E whole \in {WholeNow(EventOf(task)), 0} : ReadContext(task, whole)
       \/ Raise(task)

ListenNext == Handle \/ (FeedNext /\ UNCHANGED watchVars)

ListenSpec == EventsInit /\ [][ListenNext]_listenVars

(***************************************************************************)
(* Properties                                                              *)
(***************************************************************************)

\* The monitor's transition table is the contracts' own: whatever the issuer
\* does, in whatever order the handlers get to it, no status change the
\* contracts can make is reported as illegal.
LegalNeverFlagged == \A a \in raised : a.code # "illegal_status_transition"

Funding(task) == EventOf(task).name = "Funded"

\* Two deliveries of deposits that one transaction made to one action: of one log,
\* or of two.
SameDeposit(t, u) ==
  /\ Funding(t) /\ Funding(u)
  /\ EventOf(t).id = EventOf(u).id
  /\ chain[t.call].tx = chain[u.call].tx

\* Of all deliveries of the deposits one transaction makes to one action exactly
\* one is let through and the others are flagged as duplicates, even when they
\* are handled at the same time.  So what is flagged is a log that came again or
\* a second deposit of the same transaction; a deposit of another transaction or
\* to another action never counts.
OneDepositPasses ==
  \A a \in raised : Funding(a.task) =>
    LET handled == {b.task : b \in {r \in raised : SameDeposit(r.task, a.task)}}
        flagged == {b.task : b \in {r \in raised : SameDeposit(r.task, a.task)
                                                  /\ r.code = "duplicate_funding"}}
    IN  Cardinality(flagged) = Cardinality(handled) - 1

\* Neither anomaly is raised for anything else: the transition table is the
\* contracts' own, and a duplicate repeats an action and a transaction
\* (checks.ts:165-207, 358-393).
OnlyRepeatsFlagged == LegalNeverFlagged /\ OneDepositPasses

\* A late read does not change a verdict: when it succeeds, a deposit or sweep
\* is called large exactly when it was so in its own block.
VerdictAsAtEvent ==
  \A a \in raised :
    LET e == EventOf(a.task)
        then == chain[a.task.call].book[e.id]
    IN  a.task.whole > 0 =>
          /\ e.name = "Funded" =>
               (AtLeast(e.amount, LargeFund, then.goal) <=>
                  \E b \in raised : b.task = a.task /\ b.code = "large_funding")
          /\ e.name = "UnclaimedSwept" =>
               (AtLeast(e.amount, LargeSweep, then.funded) <=> a.code = "large_sweep_remainder")
=============================================================================
