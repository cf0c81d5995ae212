------------------------------ MODULE Monitor ------------------------------
(***************************************************************************)
(* The monitoring service's poll: a pinned read of every action's books,   *)
(* of the pooled balances and of the pause flags; the solvency, pause and  *)
(* claim-health checks on what was read; and the notifier's cooldown.      *)
(* Each await is a step of its own, so the chain, the claim observations   *)
(* and the clock move in between.  One unit of time is one poll interval.  *)
(***************************************************************************)
EXTENDS ActionFeed

CONSTANTS
  NoCoin,       \* address(0), the payout token of an informational action
  Cooldown,     \* alertCooldownMs in poll intervals
  MinAttempts,  \* minClaimAttemptsForRate
  MaxClaims     \* bound on claim attempts in one window

\* There are finitely many payout tokens, and address(0) is none of them.
CoinAssumption == IsFiniteSet(Coins) /\ NoCoin \notin Coins

VARIABLES
  pc,       \* "waiting" for the timer, "reading", "alerting"
  snap,     \* what the poll has read: height, action count, accounts, balances
  outbox,   \* alerts of this poll not yet handed to the notifier
  last,     \* lastRegistryPaused, lastDistributorPaused
  window,   \* ClaimHealthTracker: attempts and reverts since reset()
  quiet,    \* CompositeNotifier.lastSent as cooldown left per key
  sent      \* key delivered by the latest notify of this poll, or Nothing

pollVars == <<pc, snap, outbox>>
memoryVars == <<last, window, quiet, sent>>
vars == <<feedVars, pollVars, memoryVars>>

Contracts == {"registry", "distributor"}
Keys == [topic : {"solvency"}, of : Coins] \cup [topic : {"pause"}, of : Contracts]
          \cup {[topic |-> "rpc_error", of |-> "rpc"], [topic |-> "claims", of |-> "window"]}

Alert(topic, of) == [topic |-> topic, of |-> of]
Nothing == Alert("none", "none")

CountAt(state) == Cardinality({id \in Ids : state.book[id].status # "NONE"})

TokenOf(entry, id) == IF entry.kind = "CASH" THEN CoinOf[id] ELSE NoCoin

(***************************************************************************)
(* readSnapshot                                                            *)
(***************************************************************************)

Empty == [pin |-> 0, count |-> 0, accounts |-> <<>>, pool |-> NoBlock.pool, ok |-> FALSE]

\* Mutant: reads go to the latest block.
SeenLatest == StateAt(Height)

\* What a read pinned to this poll's block returns.
Seen == StateAt(snap.pin)

BeginPoll ==
  /\ pc = "waiting"
  /\ pc' = "reading"
  /\ snap' = [Empty EXCEPT !.pin = Height, !.count = CountAt(StateAt(Height))]
  /\ UNCHANGED <<feedVars, outbox, memoryVars>>

\* A block that was dropped cannot be read.
Readable == pc = "reading" /\ snap.pin <= Height

ReadAccount(id) ==
  /\ Readable
  /\ id = Len(snap.accounts) + 1
  /\ id <= snap.count
  /\ snap' = [snap EXCEPT !.accounts = Append(@, Seen.book[id])]
  /\ UNCHANGED <<feedVars, pc, outbox, memoryVars>>

TokensRead == {TokenOf(snap.accounts[id], id) : id \in DOMAIN snap.accounts}

(***************************************************************************)
(* The checks                                                              *)
(***************************************************************************)

\* isActiveForSolvency
Active(status) == status \in {"ANNOUNCED", "ROOT_PUBLISHED", "CLAIMABLE"}

\* Sum of funded - claimed over the active actions of a token.
Obligation(accounts, coin) ==
  SumFunction([id \in {i \in DOMAIN accounts :
                         Active(accounts[i].status) /\ TokenOf(accounts[i], i) = coin} |->
                 accounts[id].funded - accounts[id].claimed])

\* checkSolvency
Insolvent(accounts, balances) == {c \in Coins : balances[c] < Obligation(accounts, c)}

\* checkPauseChange: nothing to compare with on the first poll.
PauseChanges(flags) == {c \in Contracts : last[c] # "unknown" /\ last[c] # flags[c]}

\* ClaimHealthTracker.evaluate with the default rate of a quarter.
Spike == window.attempts >= MinAttempts /\ 4 * window.reverts > window.attempts

Alerts(topic, names) == SetToSeq({Alert(topic, n) : n \in names})

Flags(state) == [c \in Contracts |-> IF c \in state.paused THEN "paused" ELSE "open"]

\* ClaimHealthTracker.reset
Reset == window' = [attempts |-> 0, reverts |-> 0]

\* The last read, and the checks that follow it without an await.
ReadPoolsAndJudge ==
  LET flags == Flags(Seen)
      short == Insolvent(snap.accounts, Seen.pool)
  IN  /\ Readable
      /\ Len(snap.accounts) = snap.count
      /\ NoCoin \notin TokensRead
      /\ snap' = [snap EXCEPT !.pool = Seen.pool, !.ok = TRUE]
      /\ outbox' = Alerts("solvency", short) \o Alerts("pause", PauseChanges(flags))
                     \o IF Spike THEN <<Alert("claims", "window")>> ELSE <<>>
      /\ last' = flags
      /\ Reset
      /\ pc' = "alerting"
      /\ sent' = Nothing
      /\ UNCHANGED <<feedVars, quiet>>

\* Any read may throw; balanceOf on address(0) always does.
FailRead ==
  /\ pc = "reading"
  /\ pc' = "alerting"
  /\ snap' = Empty
  /\ outbox' = <<Alert("rpc_error", "rpc")>>
  /\ sent' = Nothing
  /\ UNCHANGED <<feedVars, last, window, quiet>>

(***************************************************************************)
(* CompositeNotifier.notifyChecked, once per alert                         *)
(***************************************************************************)

\* Mutant: a suppressed alert starts the cooldown again.
SuppressRenewing(key) == quiet' = [quiet EXCEPT ![key] = Cooldown] /\ UNCHANGED sent

Suppress(key) == UNCHANGED <<quiet, sent>>

Deliver(key) ==
  /\ quiet' = [quiet EXCEPT ![key] = Cooldown]
  /\ sent' = key

\* The key of a claim spike carries the minute, so it is new unless the last
\* one was sent within the same minute.
Notify ==
  /\ pc = "alerting"
  /\ outbox # <<>>
  /\ LET key == Head(outbox)
     IN  \/ (quiet[key] = 0 \/ key.topic = "claims") /\ Deliver(key)
         \/ quiet[key] > 0 /\ Suppress(key)
  /\ outbox' = Tail(outbox)
  /\ UNCHANGED <<feedVars, pc, snap, last, window>>

\* The tick reschedules itself.
EndPoll ==
  /\ pc = "alerting"
  /\ outbox = <<>>
  /\ pc' = "waiting"
  /\ snap' = Empty
  /\ UNCHANGED <<feedVars, outbox, memoryVars>>

(***************************************************************************)
(* Between the awaits: a Claimed event or a reported revert, and time.     *)
(***************************************************************************)

ObserveClaim(reverted) ==
  /\ window.attempts < MaxClaims
  /\ window' = [attempts |-> window.attempts + 1,
                reverts |-> window.reverts + IF reverted THEN 1 ELSE 0]
  /\ UNCHANGED <<feedVars, pollVars, last, quiet, sent>>

PassTime ==
  /\ \E k \in Keys : quiet[k] > 0
  /\ quiet' = [k \in Keys |-> IF quiet[k] > 0 THEN quiet[k] - 1 ELSE 0]
  /\ UNCHANGED <<feedVars, pollVars, last, window, sent>>

MonitorInit ==
  /\ pc = "waiting" /\ snap = Empty /\ outbox = <<>>
  /\ last = [c \in Contracts |-> "unknown"]
  /\ window = [attempts |-> 0, reverts |-> 0]
  /\ quiet = [k \in Keys |-> 0]
  /\ sent = Nothing

Init == FeedInit /\ MonitorInit

PollStep ==
  \/ BeginPoll
  \/ \E id \in Ids : ReadAccount(id)
  \/ ReadPoolsAndJudge
  \/ FailRead
  \/ Notify
  \/ EndPoll

Next ==
  \/ PollStep
  \/ FeedNext /\ UNCHANGED <<pollVars, memoryVars>>
  \/ \E reverted \in BOOLEAN : ObserveClaim(reverted)
  \/ PassTime

\* The loop's timer, a read and the notifier's awaits all end, time passes, and a
\* provider that keeps being asked answers each kind of read in the end.  The chain and
\* the holders owe nothing.
Fairness ==
  /\ WF_vars(BeginPoll) /\ WF_vars(FailRead) /\ WF_vars(Notify) /\ WF_vars(EndPoll) /\ WF_vars(PassTime)
  /\ \A id \in Ids : SF_vars(ReadAccount(id))
  /\ SF_vars(ReadPoolsAndJudge)

Spec == Init /\ [][Next]_vars /\ Fairness

(***************************************************************************)
(* Properties                                                              *)
(***************************************************************************)

Judged == pc = "alerting" /\ snap.ok

\* A poll pages for a token exactly when the contracts, at the height it read,
\* hold less than they owe: the monitor's status filter agrees with what the
\* distributor still has in custody, partial deposits and swept or cancelled
\* actions included.
PagesExactly ==
  [][Judged' /\ ~Judged =>
       {c \in Coins : \E i \in DOMAIN outbox' : outbox'[i] = Alert("solvency", c)}
         = {c \in Coins : ShortAt(StateAt(snap.pin), c)}]_vars

\* A shortfall that persists is paged again and again, once per cooldown,
\* whatever alerts were suppressed and whatever reads failed in between.
ShortfallPaged ==
  \A c \in Coins :
     <>[]ShortAt(StateAt(Height), c) => []<>(sent = Alert("solvency", c))
=============================================================================
