---------------------------- MODULE MonitorLoop ----------------------------
(***************************************************************************)
(* The life of the monitor's poll loop: start(), stop() and the ticks that *)
(* reschedule themselves.  A tick that is waiting inside pollOnce survives *)
(* a stop and looks at `running` only when the poll returns.  A start      *)
(* whose subscribe() throws goes on without a subscription.                *)
(***************************************************************************)
EXTENDS Integers, FiniteSets

CONSTANTS Ticks  \* bound: identities of tick() invocations alive at once

VARIABLES
  running,    \* this.running
  polling,    \* ticks inside pollOnce
  scheduled,  \* ticks waiting for their timeout
  handle,     \* this.timer: the tick the latest setTimeout was for
  watchers,   \* subscriptions that unwatchers holds, each a watcher of either contract
  subscribed, \* the latest start's subscribe() returned
  stray       \* a watcher of the registry is open that unwatchers does not hold

vars == <<running, polling, scheduled, handle, watchers, subscribed, stray>>
subscription == <<watchers, subscribed, stray>>

NoTick == 0
Free == Ticks \ (polling \cup scheduled)

\* subscribe() watches the registry, then the distributor, and keeps both; it throws
\* at the first or at the second, and start() logs that and goes on.
Subscribe ==
  \/ watchers' = watchers + 1 /\ subscribed' = TRUE /\ UNCHANGED stray
  \/ subscribed' = FALSE /\ stray' \in {stray, TRUE} /\ UNCHANGED watchers

Start(t) ==
  /\ ~running
  /\ t \in Free
  /\ running' = TRUE
  /\ Subscribe
  /\ polling' = polling \cup {t}
  /\ UNCHANGED <<scheduled, handle>>

\* Mutant: the next timeout is never set.
EndPollForGood(t) ==
  /\ t \in polling
  /\ polling' = polling \ {t}
  /\ UNCHANGED <<running, scheduled, handle, subscription>>

EndPoll(t) ==
  /\ t \in polling
  /\ polling' = polling \ {t}
  /\ IF running
     THEN scheduled' = scheduled \cup {t} /\ handle' = t
     ELSE UNCHANGED <<scheduled, handle>>
  /\ UNCHANGED <<running, subscription>>

\* Mutant: an interval instead of a timeout, and no look at `running`.
FirePeriodic(t) ==
  /\ t \in scheduled
  /\ polling' = polling \cup {t}
  /\ UNCHANGED <<running, scheduled, handle, subscription>>

\* The timeout: tick() returns at once when the monitor has been stopped.
Fire(t) ==
  /\ t \in scheduled
  /\ scheduled' = scheduled \ {t}
  /\ polling' = IF running THEN polling \cup {t} ELSE polling
  /\ UNCHANGED <<running, handle, subscription>>

\* clearTimeout reaches only the timer of the last handle, and the teardown only what
\* unwatchers holds.
Stop ==
  /\ running' = FALSE
  /\ scheduled' = scheduled \ {handle}
  /\ watchers' = 0
  /\ UNCHANGED <<polling, handle, subscribed, stray>>

Init ==
  /\ running = FALSE /\ polling = {} /\ scheduled = {} /\ handle = NoTick
  /\ watchers = 0 /\ subscribed = FALSE /\ stray = FALSE

Next ==
  \/ \E t \in Ticks : Start(t) \/ EndPoll(t) \/ Fire(t)
  \/ Stop

\* A poll returns (pollOnce catches its errors) and a timeout fires.
Spec == Init /\ [][Next]_vars /\ \A t \in Ticks : WF_vars(EndPoll(t)) /\ WF_vars(Fire(t))

(***************************************************************************)
(* Properties                                                              *)
(***************************************************************************)

\* While the monitor runs it never stops polling: some tick is polling or waiting
\* for its timeout, whatever starts and stops came before.  Its event mode may be
\* missing, when subscribe() threw, but is never doubled and never outlives a stop:
\* unwatchers holds one subscription while a monitor runs whose latest start
\* subscribed, and none otherwise (monitor.ts:445-489).
RunningKeepsPolling ==
  /\ running => polling \cup scheduled # {}
  /\ watchers = IF running /\ subscribed THEN 1 ELSE 0

\* Once stopped for good, every loop it ever started comes to rest.
StoppedComesToRest == <>[]~running => <>[](polling = {} /\ scheduled = {})
=============================================================================
