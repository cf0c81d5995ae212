------------------------------ MODULE Clients ------------------------------
(***************************************************************************)
(* The programs at the edges, side by side: the monitor's loop and its     *)
(* configuration, the builds of the app, a holder's claim through the app  *)
(* and its relay, the issuer's wallet, and a market that follows splits.   *)
(* Each is an instance of its module over parameters of its own; what is   *)
(* checked of them with TLC and proved of them is named here once.         *)
(***************************************************************************)
EXTENDS Integers

CONSTANTS
  Ticks,                                                          \* of MonitorLoop
  ChainIds, Files,                                                \* of MonitorConfig
  Declared, CoinDecimals, Shipped, MaxAmounts,                    \* of AppTokens
  RelayKeys, WindowLength, PerKeyLimit, GlobalLimit, KeysKept, MaxNow,  \* of RelayLimiter
  Client, MaxClicks,                                              \* of ClaimDesk
  FormTotal, Share, MaxActions, MaxTxs, MaxScripted,              \* of IssuerConsole
  SplitIds, SplitKinds, Accounts, AssetOf, RatioOf, Prices        \* of SplitCollateral

VARIABLES
  running, polling, scheduled, handle, watchers, subscribed, stray,  \* MonitorLoop
  input, config,                                                  \* MonitorConfig
  app, written,                                                   \* AppTokens
  now, perKey, globalWindow, admitted,                            \* RelayLimiter
  status, consumed, txs, gasless, posts, row, page,               \* ClaimDesk
  actions, allowance, issued, script, console,                    \* IssuerConsole
  splitBook, keeper, price, applied, basis                        \* SplitCollateral

Loop == INSTANCE MonitorLoop
Resolver == INSTANCE MonitorConfig
Builder == INSTANCE AppTokens
Limiter == INSTANCE RelayLimiter WITH Keys <- RelayKeys
Desk == INSTANCE ClaimDesk WITH Keys <- RelayKeys
Console == INSTANCE IssuerConsole WITH Total <- FormTotal, txs <- issued
Market == INSTANCE SplitCollateral WITH
  Ids <- SplitIds, Kinds <- SplitKinds, Goals <- {}, Amounts <- {}, Leaves <- {}, book <- splitBook

(***************************************************************************)
(* Properties: those of the instances, stated and explained in their       *)
(* modules                                                                 *)
(***************************************************************************)

\* A running monitor keeps polling, with at most one subscription (MonitorLoop).
RunningKeepsPolling == Loop!RunningKeepsPolling

\* The monitor watches what the strongest source names, or says why not
\* (MonitorConfig); the agent follows the registry the app writes to (AppTokens).
ConfigResolved == Resolver!ConfigResolved /\ Builder!SameRegistry

\* Amounts are written in their token's decimals and read back as typed (AppTokens).
AmountsAsTyped == Builder!AmountsAsTyped

\* What the page calls paid has been paid (ClaimDesk).
PaidMeansPaid == Desk!PaidMeansPaid

\* No stretch of one window admits more than two windows' worth (RelayLimiter).
RatesBounded == Limiter!RatesBounded

\* A deposit lacks its allowance only if another program of the wallet interfered
\* (IssuerConsole).
DepositsApproved == Console!DepositsApproved

\* A market's price is the posted one, rescaled once per split (SplitCollateral).
PriceFollowsSplits == Market!PriceFollowsSplits
=============================================================================
