----------------------------- MODULE AppTokens -----------------------------
(***************************************************************************)
(* Where the app and the example agent take their addresses from, and what *)
(* becomes of amounts.  The app is built over an environment and the       *)
(* deployments files of that moment (scripts/sync-shared.mjs); actions     *)
(* announced through one build are shown by later ones.  An amount typed   *)
(* by a person is known by the number of decimals it was written with.     *)
(***************************************************************************)
EXTENDS Integers, FiniteSets

CONSTANTS
  Declared,     \* what NEXT_PUBLIC_USDG_DECIMALS may say, 0: unset or no number
  CoinDecimals, \* decimals of the token an operator may name as payout token
  Shipped,      \* sets of chains whose deployments file may be there
  MaxAmounts    \* bound: amounts ever written

VARIABLES
  app,      \* environment and files of the running build
  written   \* amounts on chain: purpose, chain, registry, token, decimals, and whether
            \* the environment they were written in described its token truly

appVars == <<app, written>>

Robinhood == 46630
Anvil == 31337

\* Payout tokens: the chain's own USDG, the mock with an open mint, the local
\* chain's mock, and a token only the environment names.
TrueDecimals == [real |-> 6, mock |-> 6, local |-> 18, coin |-> CoinDecimals, none |-> 18]

\* NEXT_PUBLIC_CHAIN_ID (0: unset), _REGISTRY_ADDRESS, _USDG_ADDRESS (envAddr takes
\* what is no address for unset), _USDG_DECIMALS.
Environments ==
  [chain : {0, Robinhood, Anvil}, registry : {"unset", "malformed", "named"},
   usdg : {"unset", "mock", "coin"}, decimals : Declared]

\* sync-shared.mjs: the bundle has the chains whose deployments file is there.
Builds == [env : Environments, files : Shipped]

(***************************************************************************)
(* Addresses                                                               *)
(***************************************************************************)

Address(by, chain) == [by |-> by, chain |-> chain]
Nobody == Address("nobody", 0)

ActiveChain(env) == IF env.chain = 0 THEN Robinhood ELSE env.chain
Bundled(build, chain) == IF chain \in build.files THEN Address("file", chain) ELSE Nobody

\* asAddr: what is not an address counts as unset.  Registry and distributor
\* are named together and stand for one another here.
Registry(build) ==
  IF build.env.registry = "named" THEN Address("env", 0) ELSE Bundled(build, ActiveChain(build.env))

IsConfigured(build) == Registry(build) # Nobody

\* The agent started in the same environment over the same files: it has a
\* default chain of its own, and an address that does not parse ends it.
AgentChain(env) == IF env.chain = 0 THEN Anvil ELSE env.chain
AgentRegistry(build) ==
  CASE build.env.registry = "named" -> Address("env", 0)
    [] build.env.registry = "malformed" -> Nobody
    [] OTHER -> Bundled(build, AgentChain(build.env))

(***************************************************************************)
(* Tokens and decimals                                                     *)
(***************************************************************************)

UsingRealTokens(env) == ActiveChain(env) = Robinhood

PayoutUsdg(build) ==
  CASE build.env.usdg # "unset" -> build.env.usdg
    [] UsingRealTokens(build.env) -> "mock"
    [] OTHER -> IF Anvil \in build.files THEN "local" ELSE "none"

\* An override is lower-cased and the constant is not, so an override that
\* names the mock is not recognised as the mock.
PayoutIsMock(env) == UsingRealTokens(env) /\ env.usdg = "unset"

TokenDecimals(env, token) ==
  CASE token = env.usdg -> IF env.decimals > 0 THEN env.decimals ELSE 6
    [] token \in {"real", "mock"} -> 6
    [] OTHER -> 18

\* Mutant: 18 for whatever token.
PayoutDecimalsFixed(build) == 18

PayoutDecimals(build) ==
  IF UsingRealTokens(build.env) THEN TokenDecimals(build.env, PayoutUsdg(build)) ELSE 18

\* What the environment says of its payout token is so.
Truthful(env) ==
  env.usdg # "unset" => TokenDecimals(env, env.usdg) = TrueDecimals[env.usdg]

(***************************************************************************)
(* What people do                                                          *)
(***************************************************************************)

Record(amount) ==
  /\ Cardinality(written) < MaxAmounts
  /\ written' = written \cup {amount}
  /\ UNCHANGED app

Amount(purpose, token, decimals) ==
  [purpose |-> purpose, chain |-> ActiveChain(app.env), registry |-> Registry(app),
   token |-> token, decimals |-> decimals, truthful |-> Truthful(app.env)]

\* The console: the rate of an announcement, the total of its root and deposit.
Announce ==
  /\ IsConfigured(app) /\ PayoutUsdg(app) # "none"
  /\ Record(Amount("payout", PayoutUsdg(app), PayoutDecimals(app)))

\* A script that knows the token announces with its decimals.
AnnounceByScript(token) ==
  /\ IsConfigured(app)
  /\ Record([Amount("payout", token, TrueDecimals[token]) EXCEPT !.truthful = TRUE])

\* The faucet's Mint button, shown for the one token with an open mint.
Mint ==
  /\ PayoutIsMock(app.env)
  /\ Record(Amount("mint", PayoutUsdg(app), TokenDecimals(app.env, PayoutUsdg(app))))

Rebuild == app' \in Builds /\ UNCHANGED written

AppInit == app \in Builds /\ written = {}

AppNext == Announce \/ Mint \/ Rebuild \/ \E token \in {"real", "mock"} : AnnounceByScript(token)

AppSpec == AppInit /\ [][AppNext]_appVars

(***************************************************************************)
(* What pages show                                                         *)
(***************************************************************************)

\* Money where no decimals are given.
MoneyDecimals == 18

\* The feed's rows give it none for the rate.
FeedRateDecimals(amount) == MoneyDecimals

\* Totals on the feed, rate and dividend on the claim page, all of /api/actions.
ShownDecimals(amount) == TokenDecimals(app.env, amount.token)

\* What a build lists of its registry, in tokens it knows the decimals of.
Listed ==
  {a \in written : /\ a.purpose = "payout"
                   /\ a.chain = ActiveChain(app.env) /\ a.registry = Registry(app)
                   /\ a.token \in {"real", "mock", app.env.usdg}}

(***************************************************************************)
(* Properties                                                              *)
(***************************************************************************)

\* Wherever the environment tells the truth about its payout token: what was
\* typed on the testnet, and what a Mint button grants, is written in the
\* token's own decimals and read back as typed, also by a later build over
\* another environment (tokens.ts:35-72, IssuerConsole.tsx:79-113,
\* api/actions/route.ts:29-39, FaucetPanel.tsx:56-73).
AmountsAsTyped ==
  \A a \in written :
    a.truthful /\ a.chain = Robinhood =>
      /\ a.decimals = TrueDecimals[a.token]
      /\ a \in Listed /\ Truthful(app.env) => ShownDecimals(a) = a.decimals

\* A rate on the feed page reads as the issuer typed it, in the payout token's
\* decimals (tokens.ts:8-10 against feed/page.tsx:98).
RatesShownAsTyped ==
  \A a \in Listed : a.truthful /\ Truthful(app.env) => FeedRateDecimals(a) = a.decimals

\* With a chain named and no malformed address, the agent follows the registry
\* the app of the same environment writes to, or neither has one
\* (contracts.ts:8-25, agent.ts:49-70).
SameRegistry ==
  app.env.chain # 0 /\ app.env.registry # "malformed" => AgentRegistry(app) = Registry(app)
=============================================================================
