----------------------------- MODULE MCOffchain -----------------------------
(***************************************************************************)
(* The programs around the contracts: the monitor's start, poll, event     *)
(* mode and loop, the subgraph, the SDK's event watchers, the list of      *)
(* actions the app and the SDK read, a holder's claim through the app with *)
(* its relay, the issuer's wallet, the builds of the app and the tokens   *)
(* they know, and a market that follows splits.                            *)
(* None writes anything another one reads, so a behaviour has one of them  *)
(* and a chain that moves as it likes; `program` says which.  Each         *)
(* instance has the bounds its question needs.                             *)
(***************************************************************************)
EXTENDS Monitor, MonitorEvents, ActionViews, Subgraph, EventWatch, Clients, TLC

CONSTANT usdg

VARIABLE program

feed == <<book, pool, paused, chain>>
poll == <<pc, snap, outbox, last, window, quiet, sent>>
listening == <<delivered, tasks, seen, raised>>
loop == <<running, polling, scheduled, handle, watchers, subscribed, stray>>
views == <<listing, count, entries>>
limiter == <<now, perKey, globalWindow, admitted>>
desk == <<status, consumed, txs, gasless, posts, row, page>>
issuing == <<actions, allowance, issued, script, console>>
resolving == <<input, config>>
building == <<app, written>>
market == <<splitBook, keeper, price, applied, basis>>
readers == <<poll, listening, loop, indexed, streamVars, views>>
clients == <<limiter, desk, issuing, resolving, building, market>>

TwoActions == {1, 2}
OneLeaf == {[index |-> 0, amount |-> 1]}
TwoLeaves == {[index |-> 0, amount |-> 1], [index |-> 1, amount |-> 1]}
InUsdg == [id \in TwoActions |-> usdg]
SomeSuspect ==
  [implausible_rate |-> {1}, zero_holder_root |-> {}, unexpected_funder |-> {1}]

\* Of two chains one has a deployments file of its own name.
OneFile ==
  {[name |-> "one.json", filed |-> 1, chainId |-> 1, registry |-> "file", distributor |-> "file"]}
Bundles == {{}, {31337, 46630}}

\* Two splits of one asset and a third of another.
TwoAssets == <<"x", "x", "y">>
Ratios == <<[new |-> 4, old |-> 1], [new |-> 2, old |-> 3], [new |-> 1, old |-> 5]>>

\* The monitor on a shorter chain with a longer cooldown: what happens in the end.
Vigil == INSTANCE Monitor WITH
  Kinds <- {"CASH"}, Leaves <- OneLeaf, Pausable <- {"distributor"}, Depth <- 0, MaxBlocks <- 4,
  Cooldown <- 2, MaxClaims <- 0

\* The index of a shorter chain: what happens in the end.
Follower == INSTANCE Subgraph WITH
  Kinds <- {"CASH"}, Goals <- {1}, Amounts <- {1}, Leaves <- {}, Pausable <- {}, Leaks <- {},
  MaxBlocks <- 4

\* How much of the chain's life each of its readers meets: polls are judged against
\* a leaking token, and page among pauses; one action is funded in up to two parts,
\* in one transaction or two, under the event handlers; two dividends move while they are listed; the index
\* follows two actions of either kind on a chain that may lose its last block; an
\* event stream meets the whole life of one action.
Reach ==
  LET plain == [actions |-> {1}, kinds |-> {"CASH"}, slots |-> {0}, pausable |-> {},
                leaks |-> FALSE, drops |-> FALSE, joins |-> FALSE, blocks |-> 5]
  IN  [patrol |-> [plain EXCEPT !.leaks = TRUE],
       vigil |-> [plain EXCEPT !.pausable = {"distributor"}, !.leaks = TRUE, !.blocks = 4],
       listener |-> [plain EXCEPT !.pausable = {"registry"}, !.joins = TRUE, !.blocks = 4],
       lister |-> [plain EXCEPT !.actions = {1, 2}, !.blocks = 4],
       indexer |-> [plain EXCEPT !.actions = {1, 2}, !.kinds = {"CASH", "INFO"}, !.slots = {0, 1},
                                 !.drops = TRUE],
       follower |-> [plain EXCEPT !.actions = {1, 2}, !.drops = TRUE, !.blocks = 4],
       watcher |-> [plain EXCEPT !.kinds = {"CASH", "INFO"}, !.slots = {0, 1}, !.blocks = 6]]

Deposits(block) == block.events # <<>> /\ Head(block.events).name = "Funded"

Reached(bound) ==
  /\ \A id \in Ids :
       IF id \in bound.actions
       THEN book'[id].kind \in bound.kinds /\ book'[id].paid \subseteq bound.slots
       ELSE book'[id] = Blank
  /\ paused' \subseteq bound.pausable
  /\ Len(chain') <= bound.blocks
  /\ ~bound.leaks => \A n \in DOMAIN chain' : chain'[n].events # <<>>
  /\ ~bound.drops => Len(chain') >= Len(chain)
  /\ \A n \in 2..Len(chain') :
       chain'[n].tx = chain'[n - 1].tx => bound.joins /\ Deposits(chain'[n]) /\ Deposits(chain'[n - 1])

\* The theorems about these programs rest on assumptions their values meet.
ASSUME InstanceAssumption ==
  /\ FeedAssumption /\ CoinAssumption
  /\ Vigil!FeedAssumption
  /\ Resolver!ConfigAssumption
  /\ Console!ConsoleAssumption
  /\ Limiter!LimiterAssumption
  /\ Market!MarketAssumption

Is(name) == program = name
Within == Reached(Reach[program])

\* A script that awaits its approvals does nothing that one that never waits could not,
\* so only the latter is started.
AnyInit ==
  /\ program \in {"patrol", "vigil", "listener", "loop", "indexer", "follower", "watcher", "lister",
                 "desk", "limiter", "console", "resolver", "builder", "market"}
  /\ FeedInit
  /\ IF Is("vigil") THEN Vigil!MonitorInit ELSE MonitorInit
  /\ ListenInit
  /\ Loop!Init
  /\ indexed = <<>>
  /\ WatchInit
  /\ ViewInit
  /\ Limiter!LimiterInit /\ (~Is("limiter") => now = 0)
  /\ Desk!DeskInit /\ (~Is("desk") => gasless)
  /\ Console!ConsoleInit /\ ~script.awaits /\ (~Is("console") => script.wallet)
  /\ IF Is("resolver") THEN Resolver!Init
     ELSE input = (CHOOSE i \in Resolver!Inputs : TRUE) /\ config = Resolver!Pending
  /\ IF Is("builder") THEN Builder!AppInit
     ELSE app = (CHOOSE a \in Builder!Builds : TRUE) /\ written = {}
  /\ Market!BookInit /\ Market!MarketInit /\ (~Is("market") => keeper = "keeper")

ReaderNext ==
  \/ Is("patrol") /\ Next /\ Within /\ UNCHANGED <<listening, loop, indexed, streamVars, views>>
  \/ Is("vigil") /\ Vigil!Next /\ Within /\ UNCHANGED <<listening, loop, indexed, streamVars, views>>
  \/ Is("listener") /\ ListenNext /\ Within /\ UNCHANGED <<poll, loop, indexed, streamVars, views>>
  \/ Is("lister") /\ ViewNext /\ Within /\ UNCHANGED <<poll, listening, loop, indexed, streamVars>>
  \/ Is("loop") /\ Loop!Next /\ UNCHANGED <<feed, poll, listening, indexed, streamVars, views>>
  \/ Is("indexer") /\ IndexNext /\ Within /\ UNCHANGED <<poll, listening, loop, streamVars, views>>
  \/ Is("follower") /\ Follower!IndexNext /\ Within /\ UNCHANGED <<poll, listening, loop, streamVars, views>>
  \/ Is("watcher") /\ WatchNext /\ Within /\ UNCHANGED <<poll, listening, loop, indexed, views>>

ClientNext ==
  \/ Is("desk") /\ Desk!DeskNext /\ UNCHANGED <<issuing, resolving, building, market>>
  \/ Is("limiter") /\ Limiter!LimiterNext /\ UNCHANGED <<desk, issuing, resolving, building, market>>
  \/ Is("console") /\ Console!ConsoleNext /\ UNCHANGED <<limiter, desk, resolving, building, market>>
  \/ Is("resolver") /\ Resolver!Resolve /\ UNCHANGED <<limiter, desk, issuing, building, market>>
  \/ Is("builder") /\ Builder!AppNext /\ UNCHANGED <<limiter, desk, issuing, resolving, market>>
  \/ Is("market") /\ Market!MarketNext /\ UNCHANGED <<limiter, desk, issuing, resolving, building>>

AnyNext ==
  /\ UNCHANGED program
  /\ \/ ReaderNext /\ UNCHANGED clients
     \/ ClientNext /\ UNCHANGED <<feed, readers>>

\* The fairness of Monitor, MonitorLoop, Subgraph and ClaimDesk, for the program at hand.
AnyFairness ==
  /\ WF_<<feed, poll>>(Is("vigil") /\ Vigil!BeginPoll)
  /\ WF_<<feed, poll>>(Is("vigil") /\ Vigil!FailRead)
  /\ WF_<<feed, poll>>(Is("vigil") /\ Vigil!Notify)
  /\ WF_<<feed, poll>>(Is("vigil") /\ Vigil!EndPoll)
  /\ WF_<<feed, poll>>(Is("vigil") /\ Vigil!PassTime)
  /\ \A id \in Ids : SF_<<feed, poll>>(Is("vigil") /\ Vigil!ReadAccount(id))
  /\ SF_<<feed, poll>>(Is("vigil") /\ Vigil!ReadPoolsAndJudge)
  /\ \A t \in Ticks : WF_loop(Is("loop") /\ Loop!EndPoll(t)) /\ WF_loop(Is("loop") /\ Loop!Fire(t))
  /\ WF_<<feed, indexed>>(Is("follower") /\ Follower!IndexBlock)
  /\ WF_<<feed, indexed>>(Is("follower") /\ Follower!RevertBlock)
  /\ WF_<<limiter, desk>>(Is("desk") /\ Desk!FeedRefetched)
  /\ SF_<<limiter, desk>>(Is("desk") /\ Desk!EligibleLoaded(TRUE))
  /\ SF_<<limiter, desk>>(Is("desk") /\ Desk!ClaimedRead)

AnySpec == AnyInit /\ [][AnyNext]_<<program, feed, readers, clients>> /\ AnyFairness

(***************************************************************************)
(* Properties, beside those of the modules above: stated and explained in  *)
(* their modules                                                           *)
(***************************************************************************)

\* A lasting shortfall is paged over and over (ShortfallPaged of Monitor).
ShortfallPagedAgain == Is("vigil") => Vigil!ShortfallPaged

\* A monitor stopped for good comes to rest (MonitorLoop).
StoppedComesToRest == Is("loop") => Loop!StoppedComesToRest

\* The index catches up with a chain that rests (Subgraph).
CatchesUp == Is("follower") => Follower!IndexCatchesUp

\* A payment is seen by its holder in the end (ClaimDesk).
HolderSeesPayment == Is("desk") => Desk!HolderSeesPayment
=============================================================================
