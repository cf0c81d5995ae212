---------------------------- MODULE ClientProofs ----------------------------
(***************************************************************************)
(* Proofs about the programs at the edges: the monitor's loop and its      *)
(* configuration, the tokens and amounts of the app, the issuer's wallet,  *)
(* a holder's claim through the app, the relay's brake and a market that   *)
(* follows splits.  Each is an instance of its module over constants of    *)
(* any size.                                                               *)
(***************************************************************************)
EXTENDS Clients, Sequences, FiniteSums

(***************************************************************************)
(* The monitor's loop                                                      *)
(***************************************************************************)

\* unwatchers holds a subscription exactly while a monitor runs that got one, and
\* while it runs a tick is alive.
LoopInv ==
  /\ running \in BOOLEAN /\ subscribed \in BOOLEAN
  /\ running => polling \cup scheduled # {}
  /\ watchers = IF running /\ subscribed THEN 1 ELSE 0

\* While the monitor runs, some tick is polling or waiting for its timeout, and the
\* subscriptions held are one or none as its latest subscribe() went, whatever
\* starts and stops came before and however many ticks a stop left behind.
THEOREM RunningAlwaysPolls == Loop!Spec => []RunningKeepsPolling
<1>1. Loop!Init => LoopInv
  BY DEF Loop!Init, LoopInv
<1>2. LoopInv /\ [Loop!Next]_(Loop!vars) => LoopInv'
  <2> SUFFICES ASSUME LoopInv, [Loop!Next]_(Loop!vars) PROVE LoopInv'
    OBVIOUS
  <2> USE DEF LoopInv
  <2>1. ASSUME NEW t \in Ticks, Loop!Start(t) PROVE LoopInv'
    <3>1. running' = TRUE /\ watchers = 0 /\ t \in polling'
      BY <2>1 DEF Loop!Start
    <3>2. subscribed' \in BOOLEAN /\ watchers' = IF subscribed' THEN 1 ELSE 0
      <4>1. (watchers' = watchers + 1 /\ subscribed' = TRUE) \/ (subscribed' = FALSE /\ watchers' = watchers)
        BY <2>1 DEF Loop!Start, Loop!Subscribe
      <4>2. CASE subscribed' = TRUE /\ watchers' = watchers + 1
        BY <3>1, <4>2
      <4>3. CASE subscribed' = FALSE /\ watchers' = watchers
        BY <3>1, <4>3
      <4>4. QED BY <4>1, <4>2, <4>3
    <3>3. polling' \cup scheduled' # {}
      BY <3>1
    <3>4. watchers' = IF running' /\ subscribed' THEN 1 ELSE 0
      BY <3>1, <3>2
    <3>5. QED BY <3>1, <3>2, <3>3, <3>4
  <2>2. ASSUME NEW t \in Ticks, Loop!EndPoll(t) PROVE LoopInv'
    BY <2>2 DEF Loop!EndPoll, Loop!subscription
  <2>3. ASSUME NEW t \in Ticks, Loop!Fire(t) PROVE LoopInv'
    BY <2>3 DEF Loop!Fire, Loop!subscription
  <2>4. CASE Loop!Stop
    BY <2>4 DEF Loop!Stop
  <2>5. CASE UNCHANGED Loop!vars
    BY <2>5 DEF Loop!vars
  <2>6. QED BY <2>1, <2>2, <2>3, <2>4, <2>5 DEF Loop!Next
<1>3. LoopInv => Loop!RunningKeepsPolling
  BY DEF LoopInv, Loop!RunningKeepsPolling
<1>4. QED BY <1>1, <1>2, <1>3, PTL DEF Loop!Spec, RunningKeepsPolling

(***************************************************************************)
(* Its configuration                                                       *)
(***************************************************************************)

\* What was resolved was resolved from the input.
ResolverInv ==
  /\ input \in Resolver!Inputs
  /\ config = Resolver!Pending \/ config = Resolver!Resolved(input.where, input.how)

\* Flags and variables are unset, malformed, or known by where they came from.
LEMMA InputFields ==
  ASSUME NEW in \in Resolver!Inputs
  PROVE  /\ in.where.flagRegistry \in {"unset", "bad", "flag"}
         /\ in.where.envRegistry \in {"unset", "bad", "env"}
         /\ in.where.flagDistributor \in {"unset", "bad", "flag"}
         /\ in.where.envDistributor \in {"unset", "bad", "env"}
         /\ in.where.path \in {"unset", "bad"} \cup {f.name : f \in Files}
         /\ in.how.flagInterval \in {"unset", "flag"}
<1> USE DEF Resolver!Unset, Resolver!Bad, Resolver!FlagOrEnv
<1>1. in \in [where : Resolver!Addressing, how : {Resolver!Usual} \cup Resolver!Settings]
  BY DEF Resolver!Inputs, Resolver!Plain
<1>2. in.where \in Resolver!Addressing /\ in.how \in {Resolver!Usual} \cup Resolver!Settings
  BY <1>1
<1>3. \A how \in Resolver!Settings : how.flagInterval \in {"unset", "flag"}
  BY DEF Resolver!Settings
<1>4. Resolver!Usual.flagInterval = "unset"
  BY DEF Resolver!Usual
<1>5. \A where \in Resolver!Addressing :
         /\ where.flagRegistry \in {"unset", "bad", "flag"}
         /\ where.envRegistry \in {"unset", "bad", "env"}
         /\ where.flagDistributor \in {"unset", "bad", "flag"}
         /\ where.envDistributor \in {"unset", "bad", "env"}
         /\ where.path \in {"unset", "bad"} \cup {f.name : f \in Files}
  BY DEF Resolver!Addressing
<1>6. QED BY <1>2, <1>3, <1>4, <1>5

\* One address: the strongest source that names it, or a file's.
LEMMA AddressSource ==
  ASSUME Resolver!ConfigAssumption,
         NEW flag \in {"unset", "bad", "flag"}, NEW env \in {"unset", "bad", "env"},
         NEW file, file \subseteq Files, NEW name \in {"registry", "distributor"}
  PROVE  LET a == Resolver!Address(flag, env, Resolver!Field(file, name))
             d == Resolver!First(flag, env)
         IN  /\ a \notin {"unset", "bad"} =>
                  a = IF flag # "unset" THEN "flag" ELSE IF env # "unset" THEN "env" ELSE "file"
             /\ a = "bad" => d = "bad"
             /\ a = "unset" => d = "unset" /\ file = {}
<1> USE DEF Resolver!Unset, Resolver!Bad, Resolver!First, Resolver!Address
<1>1. CASE file = {}
  BY <1>1 DEF Resolver!Field
<1>2. CASE file # {}
  <2>1. PICK f \in Files : Resolver!Field(file, name) = f[name]
    BY <1>2 DEF Resolver!Field
  <2>2. f[name] = "file"
    BY DEF Resolver!ConfigAssumption
  <2>3. QED BY <1>2, <2>1, <2>2
<1>3. QED BY <1>1, <1>2

\* What resolving an input yields.
LEMMA ResolutionSound ==
  ASSUME Resolver!ConfigAssumption, ResolverInv, config = Resolver!Resolved(input.where, input.how)
  PROVE  Resolver!ConfigResolved
<1> DEFINE w == input.where
           how == input.how
           chain == Resolver!FirstChain(w.flagChain, w.envChain)
           dr == Resolver!First(w.flagRegistry, w.envRegistry)
           dd == Resolver!First(w.flagDistributor, w.envDistributor)
           file == IF "unset" \in {dr, dd} /\ chain # 0 THEN Resolver!Loaded(chain, w.path) ELSE {}
           registry == Resolver!Address(w.flagRegistry, w.envRegistry, Resolver!Field(file, "registry"))
           distributor ==
             Resolver!Address(w.flagDistributor, w.envDistributor, Resolver!Field(file, "distributor"))
           number == IF file = {} THEN chain ELSE (CHOOSE f \in file : TRUE).chainId
           usable == /\ w.rpc /\ number # 0 /\ how.funders # "bad"
                     /\ {registry, distributor} \cap {"unset", "bad"} = {}
           found == [done |-> TRUE, ok |-> TRUE, chain |-> number, registry |-> registry,
                     distributor |-> distributor, severity |-> Resolver!Severity(how),
                     interval |-> Resolver!Interval(how), threshold |-> Resolver!Threshold(how),
                     funders |-> how.funders]
<1> USE DEF Resolver!Unset, Resolver!Bad
<1>1. config = IF usable THEN found ELSE Resolver!Failed
  BY DEF Resolver!Resolved, Resolver!FundersUsable
<1>2. /\ w.flagRegistry \in {"unset", "bad", "flag"} /\ w.envRegistry \in {"unset", "bad", "env"}
      /\ w.flagDistributor \in {"unset", "bad", "flag"} /\ w.envDistributor \in {"unset", "bad", "env"}
      /\ w.path \in {"unset", "bad"} \cup {f.name : f \in Files}
      /\ how.flagInterval \in {"unset", "flag"}
  BY InputFields DEF ResolverInv
<1>3. file \subseteq Files
  BY DEF Resolver!Loaded, Resolver!ByChain
<1>4. /\ registry \notin {"unset", "bad"} =>
           registry = IF w.flagRegistry # "unset" THEN "flag" ELSE IF w.envRegistry # "unset" THEN "env" ELSE "file"
      /\ registry = "bad" => dr = "bad"
      /\ registry = "unset" => dr = "unset" /\ file = {}
  <2> HIDE DEF file, w
  <2>1. QED BY <1>2, <1>3, AddressSource
<1>5. /\ distributor \notin {"unset", "bad"} =>
           distributor = IF w.flagDistributor # "unset" THEN "flag"
                         ELSE IF w.envDistributor # "unset" THEN "env" ELSE "file"
      /\ distributor = "bad" => dd = "bad"
      /\ distributor = "unset" => dd = "unset" /\ file = {}
  <2> HIDE DEF file, w
  <2>1. QED BY <1>2, <1>3, AddressSource
<1>6. number = 0 => chain = 0
  <2>1. file # {} => (CHOOSE f \in file : TRUE) \in Files
    BY <1>3
  <2>2. file # {} => (CHOOSE f \in file : TRUE).chainId # 0
    BY <2>1 DEF Resolver!ConfigAssumption
  <2>3. QED BY <2>2
<1>7. "unset" \in {dr, dd} /\ file = {} =>
        \/ chain = 0
        \/ w.path = "bad"
        \/ w.path = "unset" /\ Resolver!ByChain(chain) = {}
  <2> SUFFICES ASSUME "unset" \in {dr, dd}, file = {}, chain # 0, w.path # "bad",
                      w.path # "unset" \/ Resolver!ByChain(chain) # {}
               PROVE  FALSE
    OBVIOUS
  <2>1. Resolver!Loaded(chain, w.path) = {}
    OBVIOUS
  <2>2. CASE w.path = "unset"
    BY <2>1, <2>2 DEF Resolver!Loaded
  <2>3. CASE w.path # "unset"
    <3>1. PICK f \in Files : w.path = f.name
      BY <1>2, <2>3
    <3>2. f \in Resolver!Loaded(chain, w.path)
      BY <2>3, <3>1 DEF Resolver!Loaded
    <3>3. QED BY <2>1, <3>2
  <2>4. QED BY <2>2, <2>3
<1>8. chain = 0 => w.flagChain = 0 /\ w.envChain = 0
  BY DEF Resolver!FirstChain
<1>9. /\ Resolver!Severity(how) # "bad" /\ Resolver!Interval(how) # "bad"
      /\ Resolver!Threshold(how) # "bad"
  BY <1>2 DEF Resolver!Severity, Resolver!Interval, Resolver!Threshold, Resolver!Parsed,
              Resolver!First, Resolver!Default
<1>10. ~usable => Resolver!Unresolvable
  <2> HIDE DEF file, registry, distributor, number, chain, dr, dd
  <2>1. ~usable => \/ ~w.rpc \/ number = 0 \/ how.funders = "bad"
                   \/ registry \in {"unset", "bad"} \/ distributor \in {"unset", "bad"}
    OBVIOUS
  <2>2. registry \in {"unset", "bad"} =>
          \/ "bad" \in {dr, dd}
          \/ "unset" \in {dr, dd} /\ file = {}
    BY <1>4
  <2>3. distributor \in {"unset", "bad"} =>
          \/ "bad" \in {dr, dd}
          \/ "unset" \in {dr, dd} /\ file = {}
    BY <1>5
  <2>4. QED BY <1>6, <1>7, <1>8, <2>1, <2>2, <2>3 DEF Resolver!Unresolvable, dr, dd, chain
<1> HIDE DEF registry, distributor, number, usable
<1>11. CASE usable
  <2>1. /\ config.ok /\ config.registry = registry /\ config.distributor = distributor
        /\ config.severity = Resolver!Severity(how) /\ config.interval = Resolver!Interval(how)
        /\ config.threshold = Resolver!Threshold(how) /\ config.funders = how.funders
    BY <1>1, <1>11
  <2>2. registry \notin {"unset", "bad"} /\ distributor \notin {"unset", "bad"}
    BY <1>11 DEF usable
  <2>3. QED BY <1>4, <1>5, <1>9, <2>1, <2>2 DEF Resolver!ConfigResolved
<1>12. CASE ~usable
  <2>1. config = [Resolver!Pending EXCEPT !.done = TRUE]
    BY <1>1, <1>12 DEF Resolver!Failed
  <2>2. ~config.ok
    BY <2>1 DEF Resolver!Pending
  <2>3. QED BY <1>10, <1>12, <2>2 DEF Resolver!ConfigResolved
<1>13. QED BY <1>11, <1>12

\* The monitor refuses to start only for a reason; otherwise each address is the
\* one of the strongest source that names it, no setting is a value that did not
\* parse, and the list of funders is never dropped: for any chains and any
\* deployment files.
THEOREM SettingsResolved ==
  ASSUME Resolver!ConfigAssumption
  PROVE  Resolver!Spec => []Resolver!ConfigResolved
<1>1. Resolver!Init => ResolverInv
  BY DEF Resolver!Init, ResolverInv
<1>2. ResolverInv /\ [Resolver!Resolve]_(Resolver!vars) => ResolverInv'
  BY DEF ResolverInv, Resolver!Resolve, Resolver!vars
<1>3. ResolverInv => Resolver!ConfigResolved
  <2> SUFFICES ASSUME ResolverInv PROVE Resolver!ConfigResolved
    OBVIOUS
  <2>1. CASE config = Resolver!Pending
    BY <2>1 DEF Resolver!ConfigResolved, Resolver!Pending
  <2>2. QED BY <2>1, ResolutionSound DEF ResolverInv
<1>4. QED BY <1>1, <1>2, <1>3, PTL DEF Resolver!Spec

(***************************************************************************)
(* Tokens and amounts                                                      *)
(***************************************************************************)

PayoutTokens == {"real", "mock", "local", "coin", "none"}

\* Amounts are of tokens that exist, and those an honest build wrote on the
\* testnet are in their token's decimals.
AppInv ==
  /\ app.env \in Builder!Environments
  /\ \A a \in written :
       /\ a.token \in PayoutTokens
       /\ a.truthful /\ a.chain = Builder!Robinhood => a.decimals = Builder!TrueDecimals[a.token]

\* The decimals an honest environment reads a token with are the token's own.
LEMMA HonestDecimals ==
  ASSUME NEW env \in Builder!Environments, NEW token \in PayoutTokens,
         token \in {"real", "mock", env.usdg}, Builder!Truthful(env)
  PROVE  Builder!TokenDecimals(env, token) = Builder!TrueDecimals[token]
<1>1. env.usdg \in {"unset", "mock", "coin"}
  BY DEF Builder!Environments
<1>2. CASE token = env.usdg
  BY <1>2 DEF Builder!Truthful, PayoutTokens
<1>3. CASE token # env.usdg
  <2>1. token \in {"real", "mock"}
    BY <1>3
  <2>2. Builder!TokenDecimals(env, token) = 6
    BY <1>3, <2>1 DEF Builder!TokenDecimals
  <2>3. Builder!TrueDecimals["real"] = 6 /\ Builder!TrueDecimals["mock"] = 6
    BY DEF Builder!TrueDecimals
  <2>4. QED BY <2>1, <2>2, <2>3
<1>4. QED BY <1>2, <1>3

\* What is written next is in its token's decimals too.
LEMMA WritingTyped == AppInv /\ [Builder!AppNext]_(Builder!appVars) => AppInv'
<1> SUFFICES ASSUME AppInv, [Builder!AppNext]_(Builder!appVars) PROVE AppInv'
  OBVIOUS
<1> DEFINE Typed(a) ==
      /\ a.token \in PayoutTokens
      /\ a.truthful /\ a.chain = Builder!Robinhood => a.decimals = Builder!TrueDecimals[a.token]
<1>1. app.env \in Builder!Environments /\ \A a \in written : Typed(a)
  BY DEF AppInv
<1>2. ASSUME NEW amount, Typed(amount), Builder!Record(amount) PROVE AppInv'
  <2>1. app' = app /\ written' = written \cup {amount}
    BY <1>2 DEF Builder!Record
  <2>2. QED BY <1>1, <1>2, <2>1 DEF AppInv
<1>3. app.env.usdg \in {"unset", "mock", "coin"}
  BY <1>1 DEF Builder!Environments
<1>4. CASE Builder!Announce
  <2> DEFINE token == Builder!PayoutUsdg(app)
             amount == Builder!Amount("payout", token, Builder!PayoutDecimals(app))
  <2>1. Builder!Record(amount)
    BY <1>4 DEF Builder!Announce
  <2>2. token \in PayoutTokens
    BY <1>3 DEF Builder!PayoutUsdg, PayoutTokens
  <2>3. Builder!UsingRealTokens(app.env) => token \in {"mock", app.env.usdg}
    BY <1>3 DEF Builder!PayoutUsdg
  <2>4. /\ amount.token = token /\ amount.truthful = Builder!Truthful(app.env)
        /\ amount.chain = Builder!ActiveChain(app.env)
        /\ amount.decimals = Builder!PayoutDecimals(app)
    BY DEF Builder!Amount
  <2> HIDE DEF token, amount
  <2>5. ASSUME Builder!Truthful(app.env), Builder!ActiveChain(app.env) = Builder!Robinhood
        PROVE  Builder!PayoutDecimals(app) = Builder!TrueDecimals[token]
    <3>1. Builder!PayoutDecimals(app) = Builder!TokenDecimals(app.env, token)
      BY <2>5 DEF Builder!PayoutDecimals, Builder!UsingRealTokens, token
    <3>2. QED BY <1>1, <2>2, <2>3, <2>5, <3>1, HonestDecimals DEF Builder!UsingRealTokens
  <2>6. Typed(amount)
    BY <2>2, <2>4, <2>5
  <2> HIDE DEF Typed
  <2>7. QED BY <1>2, <2>1, <2>6
<1>5. ASSUME NEW token \in {"real", "mock"}, Builder!AnnounceByScript(token) PROVE AppInv'
  <2> DEFINE typed == Builder!Amount("payout", token, Builder!TrueDecimals[token])
             amount == [typed EXCEPT !.truthful = TRUE]
  <2>1. Builder!Record(amount)
    BY <1>5 DEF Builder!AnnounceByScript
  <2>2. amount.token = token /\ amount.decimals = Builder!TrueDecimals[token]
    BY DEF Builder!Amount
  <2>3. token \in PayoutTokens
    BY DEF PayoutTokens
  <2> HIDE DEF amount
  <2>4. Typed(amount)
    BY <2>2, <2>3
  <2> HIDE DEF Typed
  <2>5. QED BY <1>2, <2>1, <2>4
<1>6. CASE Builder!Mint
  <2> DEFINE token == Builder!PayoutUsdg(app)
             amount == Builder!Amount("mint", token, Builder!TokenDecimals(app.env, token))
  <2>1. Builder!Record(amount) /\ Builder!PayoutIsMock(app.env)
    BY <1>6 DEF Builder!Mint
  <2>2. token = "mock"
    BY <2>1 DEF Builder!PayoutIsMock, Builder!PayoutUsdg
  <2>3. /\ amount.token = token /\ amount.truthful = Builder!Truthful(app.env)
        /\ amount.decimals = Builder!TokenDecimals(app.env, token)
    BY DEF Builder!Amount
  <2> HIDE DEF token, amount
  <2>4. token \in PayoutTokens
    BY <2>2 DEF PayoutTokens
  <2>5. Typed(amount)
    BY <1>1, <2>2, <2>3, <2>4, HonestDecimals
  <2> HIDE DEF Typed
  <2>6. QED BY <1>2, <2>1, <2>5
<1>7. CASE Builder!Rebuild
  <2>1. app'.env \in Builder!Environments /\ written' = written
    BY <1>7 DEF Builder!Rebuild, Builder!Builds
  <2>2. QED BY <1>1, <2>1 DEF AppInv
<1>8. CASE UNCHANGED Builder!appVars
  BY <1>8 DEF Builder!appVars, AppInv
<1>9. QED BY <1>4, <1>5, <1>6, <1>7, <1>8 DEF Builder!AppNext

\* What was typed on the testnet, and what a Mint button grants, is in the
\* token's own decimals and read back as typed, by builds over any environment
\* that tells the truth about its payout token: for any decimals the environment
\* may declare, any token it may name and any deployment files.
THEOREM AmountsAlwaysAsTyped == Builder!AppSpec => []AmountsAsTyped
<1>1. Builder!AppInit => AppInv
  BY DEF Builder!AppInit, Builder!Builds, AppInv
<1>2. AppInv => Builder!AmountsAsTyped
  <2> SUFFICES ASSUME AppInv,
                      NEW a \in written, a.truthful, a.chain = Builder!Robinhood
               PROVE  /\ a.decimals = Builder!TrueDecimals[a.token]
                      /\ a \in Builder!Listed /\ Builder!Truthful(app.env)
                           => Builder!ShownDecimals(a) = a.decimals
    BY DEF Builder!AmountsAsTyped
  <2>1. /\ app.env \in Builder!Environments /\ a.token \in PayoutTokens
        /\ a.decimals = Builder!TrueDecimals[a.token]
    BY DEF AppInv
  <2>2. a \in Builder!Listed => a.token \in {"real", "mock", app.env.usdg}
    BY DEF Builder!Listed
  <2>3. QED BY <2>1, <2>2, HonestDecimals DEF Builder!ShownDecimals
<1>3. QED BY <1>1, <1>2, WritingTyped, PTL DEF Builder!AppSpec, AmountsAsTyped

\* With a chain named and no malformed address, the agent follows the registry
\* the app of the same environment writes to, or neither has one.
THEOREM RegistryAlwaysShared == Builder!AppSpec => []Builder!SameRegistry
<1>1. AppInv => Builder!SameRegistry
  <2> SUFFICES ASSUME app.env \in Builder!Environments,
                      app.env.chain # 0, app.env.registry # "malformed"
               PROVE  Builder!AgentRegistry(app) = Builder!Registry(app)
    BY DEF AppInv, Builder!SameRegistry
  <2>1. app.env.registry \in {"unset", "named"}
    BY DEF Builder!Environments
  <2>2. QED BY <2>1 DEF Builder!AgentRegistry, Builder!Registry, Builder!AgentChain,
                        Builder!ActiveChain
<1>2. Builder!AppInit => AppInv
  BY DEF Builder!AppInit, Builder!Builds, AppInv
<1>3. QED BY <1>1, <1>2, WritingTyped, PTL DEF Builder!AppSpec

\* The monitor watches what the strongest source names or says why not, and the
\* agent follows the registry the app writes to: for any chains, deployment
\* files, environments and builds.
THEOREM ConfigAlwaysResolved ==
  ASSUME Resolver!ConfigAssumption
  PROVE  Resolver!Spec /\ Builder!AppSpec => []ConfigResolved
BY SettingsResolved, RegistryAlwaysShared, PTL DEF ConfigResolved

(***************************************************************************)
(* A holder's claim                                                        *)
(***************************************************************************)

Stages == {"sent", "signing", "counted", "simulated", "written", "refused", "closed"}
Post == [stage : Stages, tx : Nat]

DeskTypes ==
  /\ consumed \in BOOLEAN
  /\ txs \in Seq({"pending", "success", "reverted"})
  /\ posts \in Seq(Post)
  /\ row \in [phase : {"idle", "submitting", "confirming", "done", "error"}, hash : Nat,
              attempt : Nat]
  /\ page \in [feed : {"none", "CLAIMABLE", "FINALIZED"}, loading : BOOLEAN, listed : BOOLEAN,
               claimed : BOOLEAN]
  /\ status \in {"CLAIMABLE", "FINALIZED"}

\* Whatever says paid, in the row, on the page or on the chain, the bit is set;
\* hashes handed out are of transactions broadcast.
DeskInv ==
  /\ DeskTypes
  /\ row.phase = "done" => consumed
  /\ page.claimed => consumed
  /\ \A k \in DOMAIN txs : txs[k] = "success" => consumed
  /\ row.hash # 0 => row.hash \in DOMAIN txs
  /\ \A i \in DOMAIN posts : posts[i].stage = "written" => posts[i].tx \in DOMAIN txs

\* A submission that moves on keeps its transaction.
LEMMA PostMoves ==
  ASSUME NEW ps \in Seq(Post), NEW i \in DOMAIN ps, NEW stage \in Stages,
         NEW moved, moved = [ps EXCEPT ![i].stage = stage]
  PROVE  /\ moved \in Seq(Post) /\ DOMAIN moved = DOMAIN ps
         /\ moved[i].stage = stage
         /\ \A j \in DOMAIN ps : j # i => moved[j] = ps[j]
<1>1. [ps[i] EXCEPT !.stage = stage] \in Post /\ [ps[i] EXCEPT !.stage = stage].stage = stage
  <2>1. ps[i] \in Post
    OBVIOUS
  <2>2. QED BY <2>1 DEF Post
<1>2. moved = [ps EXCEPT ![i] = [ps[i] EXCEPT !.stage = stage]]
  OBVIOUS
<1> DEFINE next == [ps[i] EXCEPT !.stage = stage]
<1>3. next \in Post /\ next.stage = stage /\ moved = [ps EXCEPT ![i] = next]
  BY <1>1, <1>2
<1> HIDE DEF next, Post
<1>4. QED BY <1>3

\* A move to a stage other than written, with nothing else changed.
LEMMA MoveSafe ==
  ASSUME DeskInv, NEW i \in DOMAIN posts, NEW stage \in Stages \ {"written"},
         Desk!MoveTo(i, stage), UNCHANGED <<status, consumed, txs, row, page>>
  PROVE  DeskInv'
<1>1. /\ posts' \in Seq(Post) /\ DOMAIN posts' = DOMAIN posts /\ posts'[i].stage = stage
      /\ \A j \in DOMAIN posts : j # i => posts'[j] = posts[j]
  <2>1. posts \in Seq(Post) /\ posts' = [posts EXCEPT ![i].stage = stage]
    BY DEF DeskInv, DeskTypes, Desk!MoveTo
  <2>2. stage \in Stages
    OBVIOUS
  <2>3. i \in DOMAIN posts
    OBVIOUS
  <2>4. QED BY ONLY <2>1, <2>2, <2>3, PostMoves
<1>2. \A j \in DOMAIN posts' : posts'[j].stage = "written" => posts'[j].tx \in DOMAIN txs
  BY <1>1 DEF DeskInv
<1>3. QED BY <1>1, <1>2 DEF DeskInv, DeskTypes

\* A claim sent to the chain.
LEMMA BroadcastSafe ==
  ASSUME DeskInv, NEW i \in DOMAIN posts, Desk!Broadcast(i),
         UNCHANGED <<status, consumed, row, page>>
  PROVE  DeskInv'
<1> DEFINE sent == [stage |-> "written", tx |-> Len(txs) + 1]
<1>1. txs \in Seq({"pending", "success", "reverted"}) /\ posts \in Seq(Post)
  BY DEF DeskInv, DeskTypes
<1>2. /\ txs' \in Seq({"pending", "success", "reverted"}) /\ DOMAIN txs \subseteq DOMAIN txs'
      /\ Len(txs) + 1 \in DOMAIN txs' /\ txs'[Len(txs) + 1] = "pending"
      /\ \A k \in DOMAIN txs' : k = Len(txs) + 1 \/ (k \in DOMAIN txs /\ txs'[k] = txs[k])
  BY <1>1 DEF Desk!Broadcast
<1>3. sent \in Post /\ sent.tx = Len(txs) + 1
  BY <1>1 DEF Post, Stages
<1>4. posts' = [posts EXCEPT ![i] = sent]
  BY DEF Desk!Broadcast
<1> HIDE DEF sent, Post
<1>5. /\ posts' \in Seq(Post) /\ DOMAIN posts' = DOMAIN posts /\ posts'[i] = sent
      /\ \A j \in DOMAIN posts : j # i => posts'[j] = posts[j]
  BY <1>1, <1>3, <1>4
<1>6. \A j \in DOMAIN posts' : posts'[j].stage = "written" => posts'[j].tx \in DOMAIN txs'
  BY <1>2, <1>3, <1>5 DEF DeskInv
<1>7. \A k \in DOMAIN txs' : txs'[k] = "success" => consumed'
  BY <1>2 DEF DeskInv
<1>8. QED BY <1>2, <1>5, <1>6, <1>7 DEF DeskInv, DeskTypes

LEMMA DeskStep == DeskInv /\ [Desk!DeskNext]_(Desk!deskVars) => DeskInv'
<1> SUFFICES ASSUME DeskInv, [Desk!DeskNext]_(Desk!deskVars) PROVE DeskInv'
  OBVIOUS
<1> USE DEF Desk!chainVars
<1>1. CASE Desk!Click
  <2> DEFINE sent == [stage |-> IF gasless THEN "sent" ELSE "signing", tx |-> 0]
  <2>1. posts' = Append(posts, sent) /\ row' = [row EXCEPT !.phase = "submitting",
                                                           !.attempt = Len(posts) + 1]
    BY <1>1 DEF Desk!Click
  <2>2. sent \in Post /\ sent.stage # "written"
    BY DEF Post, Stages
  <2> HIDE DEF sent, Post
  <2>3. /\ posts' \in Seq(Post)
        /\ \A j \in DOMAIN posts' : posts'[j] = sent \/ (j \in DOMAIN posts /\ posts'[j] = posts[j])
    BY <2>1, <2>2 DEF DeskInv, DeskTypes
  <2>4. UNCHANGED <<status, consumed, txs, page>>
    BY <1>1 DEF Desk!Click
  <2>5. /\ row' \in [phase : {"idle", "submitting", "confirming", "done", "error"}, hash : Nat,
                     attempt : Nat]
        /\ row'.phase = "submitting" /\ row'.hash = row.hash
    <3>1. /\ Len(posts) + 1 \in Nat
          /\ row \in [phase : {"idle", "submitting", "confirming", "done", "error"}, hash : Nat,
                       attempt : Nat]
      BY DEF DeskInv, DeskTypes
    <3>2. QED BY <2>1, <3>1
  <2>6. \A j \in DOMAIN posts' : posts'[j].stage = "written" => posts'[j].tx \in DOMAIN txs'
    BY <2>2, <2>3, <2>4 DEF DeskInv
  <2>7. QED BY <2>3, <2>4, <2>5, <2>6 DEF DeskInv, DeskTypes
<1>2. CASE Desk!LoseAnswer
  <2>1. /\ row' = [row EXCEPT !.phase = "error", !.attempt = 0]
        /\ UNCHANGED <<status, consumed, txs, posts, page>>
    BY <1>2 DEF Desk!LoseAnswer
  <2>2. /\ row' \in [phase : {"idle", "submitting", "confirming", "done", "error"}, hash : Nat,
                     attempt : Nat]
        /\ row'.phase = "error" /\ row'.hash = row.hash
    BY <2>1 DEF DeskInv, DeskTypes
  <2>3. QED BY <2>1, <2>2 DEF DeskInv, DeskTypes
<1>3. CASE Desk!Receipt
  <2>1. PICK outcome \in {txs[row.hash], "failed"} \ {"pending"} :
          row' = [row EXCEPT !.phase = IF outcome = "success" THEN "done" ELSE "error"]
    BY <1>3 DEF Desk!Receipt
  <2>2. row.hash # 0 /\ UNCHANGED <<status, consumed, txs, posts, page>>
    BY <1>3 DEF Desk!Receipt
  <2>3. /\ row' \in [phase : {"idle", "submitting", "confirming", "done", "error"}, hash : Nat,
                     attempt : Nat]
        /\ row'.phase = (IF outcome = "success" THEN "done" ELSE "error")
        /\ row'.hash = row.hash
    BY <2>1 DEF DeskInv, DeskTypes
  <2>4. outcome = "success" => consumed
    BY <2>2 DEF DeskInv
  <2>5. QED BY <2>2, <2>3, <2>4 DEF DeskInv, DeskTypes
<1>4. ASSUME NEW i \in DOMAIN posts, Desk!Post(i) PROVE DeskInv'
  <2>1. PICK ok \in BOOLEAN : Desk!MoveTo(i, IF ok THEN "counted" ELSE "refused")
    BY <1>4 DEF Desk!Post
  <2>2. UNCHANGED <<status, consumed, txs, row, page>>
    BY <1>4 DEF Desk!Post
  <2>3. (IF ok THEN "counted" ELSE "refused") \in Stages \ {"written"}
    BY DEF Stages
  <2>4. QED BY <2>1, <2>2, <2>3, MoveSafe
<1>5. ASSUME NEW i \in DOMAIN posts, Desk!Simulate(i) PROVE DeskInv'
  <2>1. /\ Desk!MoveTo(i, IF Desk!Payable THEN "simulated" ELSE "refused")
        /\ UNCHANGED <<status, consumed, txs, row, page>>
    BY <1>5 DEF Desk!Simulate
  <2>2. (IF Desk!Payable THEN "simulated" ELSE "refused") \in Stages \ {"written"}
    BY DEF Stages
  <2>3. QED BY <2>1, <2>2, MoveSafe
<1>6. ASSUME NEW i \in DOMAIN posts, Desk!Write(i) \/ Desk!Sign(i) PROVE DeskInv'
  <2>1. /\ UNCHANGED <<status, consumed, row, page>>
        /\ Desk!Broadcast(i) \/ (Desk!MoveTo(i, "refused") /\ UNCHANGED txs)
    BY <1>6 DEF Desk!Write, Desk!Sign
  <2>2. "refused" \in Stages \ {"written"}
    BY DEF Stages
  <2>3. QED BY <2>1, <2>2, MoveSafe, BroadcastSafe
<1>7. ASSUME NEW i \in DOMAIN posts, Desk!Answer(i) PROVE DeskInv'
  <2>1. Desk!MoveTo(i, "closed") /\ UNCHANGED <<status, consumed, txs, page>>
    BY <1>7 DEF Desk!Answer
  <2>2. /\ posts' \in Seq(Post) /\ DOMAIN posts' = DOMAIN posts /\ posts'[i].stage = "closed"
        /\ \A j \in DOMAIN posts : j # i => posts'[j] = posts[j]
    <3>1. posts \in Seq(Post) /\ posts' = [posts EXCEPT ![i].stage = "closed"]
      BY <2>1 DEF DeskInv, DeskTypes, Desk!MoveTo
    <3>2. QED BY <3>1, PostMoves DEF Stages
  <2>3. \A j \in DOMAIN posts' : posts'[j].stage = "written" => posts'[j].tx \in DOMAIN txs'
    BY <2>1, <2>2 DEF DeskInv
  <2>4. posts[i].tx \in Nat /\ (posts[i].stage = "written" => posts[i].tx \in DOMAIN txs)
    <3>1. posts[i] \in Post
      BY DEF DeskInv, DeskTypes
    <3>2. QED BY <3>1 DEF DeskInv, Post
  <2>5. /\ row' \in [phase : {"idle", "submitting", "confirming", "done", "error"}, hash : Nat,
                     attempt : Nat]
        /\ row'.phase = "done" => row.phase = "done"
        /\ row'.hash # 0 => row'.hash \in DOMAIN txs
    <3>1. CASE row.attempt # i
      BY <1>7, <3>1 DEF Desk!Answer, DeskInv, DeskTypes
    <3>2. CASE row.attempt = i /\ posts[i].stage = "written"
      <4>1. row' = [phase |-> "confirming", hash |-> posts[i].tx, attempt |-> 0]
        BY <1>7, <3>2 DEF Desk!Answer
      <4>2. QED BY <2>4, <3>2, <4>1
    <3>3. CASE row.attempt = i /\ posts[i].stage # "written"
      <4>1. row' = [row EXCEPT !.phase = "error", !.attempt = 0]
        BY <1>7, <3>3 DEF Desk!Answer
      <4>2. /\ row' \in [phase : {"idle", "submitting", "confirming", "done", "error"}, hash : Nat,
                         attempt : Nat]
            /\ row'.phase = "error" /\ row'.hash = row.hash
        BY <4>1 DEF DeskInv, DeskTypes
      <4>3. QED BY <4>2 DEF DeskInv
    <3>4. QED BY <3>1, <3>2, <3>3
  <2>6. QED BY <2>1, <2>2, <2>3, <2>5 DEF DeskInv, DeskTypes
<1>8. CASE Desk!Mine
  <2>1. PICK k \in DOMAIN txs :
          /\ txs' = [txs EXCEPT ![k] = IF Desk!Payable THEN "success" ELSE "reverted"]
          /\ consumed' = (consumed \/ Desk!Payable)
          /\ UNCHANGED <<status, posts, row, page>>
    BY <1>8 DEF Desk!Mine
  <2>2. /\ txs' \in Seq({"pending", "success", "reverted"}) /\ DOMAIN txs' = DOMAIN txs
        /\ txs'[k] = (IF Desk!Payable THEN "success" ELSE "reverted")
        /\ \A j \in DOMAIN txs : j # k => txs'[j] = txs[j]
    BY <2>1 DEF DeskInv, DeskTypes
  <2>3. consumed' \in BOOLEAN /\ (consumed => consumed') /\ (Desk!Payable => consumed')
    BY <2>1
  <2>4. \A j \in DOMAIN txs' : txs'[j] = "success" => consumed'
    BY <2>2, <2>3 DEF DeskInv
  <2>5. QED BY <2>1, <2>2, <2>3, <2>4 DEF DeskInv, DeskTypes
<1>9. CASE Desk!ClaimElsewhere \/ Desk!Sweep
  BY <1>9 DEF Desk!ClaimElsewhere, Desk!Sweep, DeskInv, DeskTypes
<1>10. CASE Desk!FeedRefetched
  <2>1. /\ page' = [page EXCEPT !.feed = status, !.loading = TRUE] /\ row' = Desk!IdleRow
        /\ UNCHANGED <<status, consumed, txs, posts>>
    BY <1>10 DEF Desk!FeedRefetched
  <2>2. /\ page' \in [feed : {"none", "CLAIMABLE", "FINALIZED"}, loading : BOOLEAN,
                      listed : BOOLEAN, claimed : BOOLEAN]
        /\ page'.claimed = page.claimed
    BY <2>1 DEF DeskInv, DeskTypes
  <2>3. QED BY <2>1, <2>2 DEF DeskInv, DeskTypes, Desk!IdleRow
<1>11. CASE Desk!ClaimedRead
  <2>1. /\ page' = [page EXCEPT !.claimed = consumed]
        /\ UNCHANGED <<status, consumed, txs, posts, row>>
    BY <1>11 DEF Desk!ClaimedRead
  <2>2. /\ page' \in [feed : {"none", "CLAIMABLE", "FINALIZED"}, loading : BOOLEAN,
                      listed : BOOLEAN, claimed : BOOLEAN]
        /\ page'.claimed = consumed
    BY <2>1 DEF DeskInv, DeskTypes
  <2>3. QED BY <2>1, <2>2 DEF DeskInv, DeskTypes
<1>12. ASSUME NEW found \in BOOLEAN, Desk!EligibleLoaded(found) PROVE DeskInv'
  <2>1. /\ page' = [page EXCEPT !.loading = FALSE,
                                !.listed = (found /\ page.feed = "CLAIMABLE")]
        /\ UNCHANGED <<status, consumed, txs, posts, row>>
    BY <1>12 DEF Desk!EligibleLoaded
  <2>2. /\ page' \in [feed : {"none", "CLAIMABLE", "FINALIZED"}, loading : BOOLEAN,
                      listed : BOOLEAN, claimed : BOOLEAN]
        /\ page'.claimed = page.claimed
    BY <2>1 DEF DeskInv, DeskTypes
  <2>3. QED BY <2>1, <2>2 DEF DeskInv, DeskTypes
<1>13. CASE UNCHANGED Desk!deskVars
  BY <1>13 DEF Desk!deskVars, DeskInv, DeskTypes
<1>14. QED
  BY <1>1, <1>2, <1>3, <1>4, <1>5, <1>6, <1>7, <1>8, <1>9, <1>10, <1>11, <1>12, <1>13
     DEF Desk!DeskNext

\* What the page calls paid, in the row or in the history, the distributor has
\* paid: through lost answers, reverted duplicates and rows that come back
\* without their memory, for any limits of the relay and any number of clicks.
THEOREM PaidAlwaysPaid == Desk!DeskSpec => []PaidMeansPaid
<1>1. Desk!DeskInit => DeskInv
  <2> SUFFICES ASSUME Desk!DeskInit PROVE DeskInv
    OBVIOUS
  <2> USE DEF Desk!DeskInit
  <2>1. txs = << >> /\ posts = << >> /\ status = "CLAIMABLE" /\ consumed = FALSE
    OBVIOUS
  <2>2. /\ row \in [phase : {"idle", "submitting", "confirming", "done", "error"}, hash : Nat,
                    attempt : Nat]
        /\ row.phase = "idle" /\ row.hash = 0
    BY DEF Desk!IdleRow
  <2>3. page \in [feed : {"none", "CLAIMABLE", "FINALIZED"}, loading : BOOLEAN,
                  listed : BOOLEAN, claimed : BOOLEAN]
    OBVIOUS
  <2>4. ~page.claimed
    OBVIOUS
  <2>5. /\ txs \in Seq({"pending", "success", "reverted"}) /\ posts \in Seq(Post)
        /\ DOMAIN txs = {} /\ DOMAIN posts = {}
    BY <2>1
  <2> HIDE DEF Desk!DeskInit
  <2>6. QED BY <2>1, <2>2, <2>3, <2>4, <2>5 DEF DeskInv, DeskTypes
<1>2. DeskInv => Desk!PaidMeansPaid
  BY DEF DeskInv, Desk!PaidMeansPaid, Desk!InHistory
<1>3. QED BY <1>1, <1>2, DeskStep, PTL DEF Desk!DeskSpec, PaidMeansPaid

(***************************************************************************)
(* The issuer's wallet                                                     *)
(***************************************************************************)

Tx ==
  [by : {"console", "script"}, call : {"announce", "publish", "cancel", "sweep", "approve", "fund"},
   id : Nat, amount : Nat, state : {"pending", "success", "reverted", "unapproved"}]

Action ==
  [owner : {"issuer", "other"},
   status : {"ANNOUNCED", "ROOT_PUBLISHED", "CLAIMABLE", "FINALIZED", "CANCELLED"},
   goal : Int, funded : Int]

\* The last transaction of a program is its approval of an amount.
Approved(ts, by, amount) ==
  \E i \in DOMAIN ts :
    /\ ts[i].by = by /\ ts[i].call = "approve" /\ ts[i].amount = amount
    /\ \A l \in DOMAIN ts : l > i => ts[l].by # by

\* A deposit follows its approval, and its program sent nothing in between.
Prepared(ts) ==
  \A k \in DOMAIN ts :
    ts[k].call = "fund" =>
      \E i \in DOMAIN ts :
        /\ i < k /\ ts[i].by = ts[k].by /\ ts[i].call = "approve" /\ ts[i].amount = ts[k].amount
        /\ \A l \in DOMAIN ts : i < l /\ l < k => ts[l].by # ts[k].by

\* Nothing is mined before what was sent earlier.
InOrder(ts) ==
  \A k \in DOMAIN ts : \A j \in DOMAIN ts :
    j < k /\ ts[k].state # "pending" => ts[j].state # "pending"

\* After the last approval mined, with no deposit tried since, all of it is left.
Spendable(ts, left) ==
  \A i \in DOMAIN ts :
    \/ ts[i].call # "approve" \/ ts[i].state = "pending"
    \/ \E l \in DOMAIN ts : l > i /\ ts[l].call \in {"approve", "fund"} /\ ts[l].state # "pending"
    \/ left = ts[i].amount

\* What the property says of one wallet.
Explained(ts) ==
  \A k \in DOMAIN ts :
    ts[k].state = "unapproved" =>
      \E j \in DOMAIN ts :
        /\ j < k /\ ts[j].by # ts[k].by /\ ts[j].call \in {"approve", "fund"}
        /\ \A i \in DOMAIN ts : j <= i /\ i <= k /\ ts[i].by = ts[k].by => ts[i].call # "approve"

Wallet(ts, left) == Prepared(ts) /\ InOrder(ts) /\ Spendable(ts, left) /\ Explained(ts)

ConsoleTypes ==
  /\ actions \in Seq(Action)
  /\ issued \in Seq(Tx)
  /\ script \in [wallet : BOOLEAN, awaits : BOOLEAN, funding : Nat]
  /\ console \in [step : Nat, id : Nat, handler : {"none", "counting", "funding"}]

ConsoleInv ==
  /\ ConsoleTypes
  /\ Wallet(issued, allowance)
  /\ console.handler = "funding" => Approved(issued, "console", FormTotal)
  /\ script.funding # 0 => Approved(issued, "script", Share)

\* A wallet with one more transaction, its old ones where they were.
LEMMA TxAppended ==
  ASSUME NEW ts \in Seq(Tx), NEW tx \in Tx
  PROVE  LET more == Append(ts, tx) IN
         /\ more \in Seq(Tx) /\ Len(ts) \in Nat
         /\ DOMAIN more = DOMAIN ts \cup {Len(ts) + 1}
         /\ \A j \in DOMAIN ts : j \in Nat /\ j < Len(ts) + 1 /\ more[j] = ts[j]
         /\ more[Len(ts) + 1] = tx
<1> HIDE DEF Tx
<1>1. /\ Append(ts, tx) \in Seq(Tx) /\ Len(ts) \in Nat /\ DOMAIN ts = 1 .. Len(ts)
      /\ Len(Append(ts, tx)) = Len(ts) + 1
  OBVIOUS
<1>2. DOMAIN Append(ts, tx) = 1 .. (Len(ts) + 1)
  BY <1>1
<1>3. 1 .. (Len(ts) + 1) = (1 .. Len(ts)) \cup {Len(ts) + 1}
  BY <1>1
<1>4. \A j \in DOMAIN ts : j \in Nat /\ j < Len(ts) + 1 /\ Append(ts, tx)[j] = ts[j]
  BY <1>1
<1>5. Append(ts, tx)[Len(ts) + 1] = tx
  OBVIOUS
<1>6. QED BY <1>1, <1>2, <1>3, <1>4, <1>5

\* Sending keeps the wallet's invariants, if a deposit comes right after its
\* program's approval.
LEMMA SendingKeeps ==
  ASSUME NEW ts \in Seq(Tx), NEW tx \in Tx, NEW left, tx.state = "pending",
         Wallet(ts, left), tx.call = "fund" => Approved(ts, tx.by, tx.amount)
  PROVE  Wallet(Append(ts, tx), left)
<1> DEFINE more == Append(ts, tx)
           n == Len(ts) + 1
<1>1. /\ n \in Nat /\ DOMAIN more = DOMAIN ts \cup {n} /\ more[n] = tx
      /\ \A j \in DOMAIN ts : j \in Nat /\ j < n /\ more[j] = ts[j]
  BY TxAppended
<1> HIDE DEF more, n
<1>2. Prepared(more)
  <2> SUFFICES ASSUME NEW k \in DOMAIN more, more[k].call = "fund"
               PROVE  \E i \in DOMAIN more :
                        /\ i < k /\ more[i].by = more[k].by /\ more[i].call = "approve"
                        /\ more[i].amount = more[k].amount
                        /\ \A l \in DOMAIN more : i < l /\ l < k => more[l].by # more[k].by
    BY DEF Prepared
  <2>1. CASE k = n
    <3>1. PICK i \in DOMAIN ts :
            /\ ts[i].by = tx.by /\ ts[i].call = "approve" /\ ts[i].amount = tx.amount
            /\ \A l \in DOMAIN ts : l > i => ts[l].by # tx.by
      BY <1>1, <2>1 DEF Approved
    <3>2. \A l \in DOMAIN more : i < l /\ l < n => more[l].by # tx.by
      BY <1>1, <3>1
    <3>3. QED BY <1>1, <2>1, <3>1, <3>2
  <2>2. CASE k \in DOMAIN ts
    <3>1. PICK i \in DOMAIN ts :
            /\ i < k /\ ts[i].by = ts[k].by /\ ts[i].call = "approve" /\ ts[i].amount = ts[k].amount
            /\ \A l \in DOMAIN ts : i < l /\ l < k => ts[l].by # ts[k].by
      BY <1>1, <2>2 DEF Wallet, Prepared
    <3>2. \A l \in DOMAIN more : i < l /\ l < k => more[l].by # more[k].by
      BY <1>1, <2>2, <3>1
    <3>3. QED BY <1>1, <2>2, <3>1, <3>2
  <2>3. QED BY <1>1, <2>1, <2>2
<1>3. InOrder(more)
  BY <1>1 DEF Wallet, InOrder
<1>4. Spendable(more, left)
  BY <1>1 DEF Wallet, Spendable
<1>5. Explained(more)
  <2> SUFFICES ASSUME NEW k \in DOMAIN ts, ts[k].state = "unapproved"
               PROVE  \E j \in DOMAIN ts :
                        /\ j < k /\ ts[j].by # ts[k].by /\ ts[j].call \in {"approve", "fund"}
                        /\ \A i \in DOMAIN more :
                             j <= i /\ i <= k /\ more[i].by = ts[k].by => more[i].call # "approve"
    BY <1>1 DEF Explained
  <2>1. PICK j \in DOMAIN ts :
          /\ j < k /\ ts[j].by # ts[k].by /\ ts[j].call \in {"approve", "fund"}
          /\ \A i \in DOMAIN ts : j <= i /\ i <= k /\ ts[i].by = ts[k].by => ts[i].call # "approve"
    BY DEF Wallet, Explained
  <2>2. \A i \in DOMAIN more :
          j <= i /\ i <= k /\ more[i].by = ts[k].by => more[i].call # "approve"
    BY <1>1, <2>1
  <2>3. QED BY <2>1, <2>2
<1>6. QED BY <1>2, <1>3, <1>4, <1>5 DEF Wallet, more

\* Whose approval comes last after one more transaction.
LEMMA SendingApproves ==
  ASSUME NEW ts \in Seq(Tx), NEW tx \in Tx, NEW by, NEW amount,
         \/ tx.by = by /\ tx.call = "approve" /\ tx.amount = amount
         \/ tx.by # by /\ Approved(ts, by, amount)
  PROVE  Approved(Append(ts, tx), by, amount)
<1> DEFINE more == Append(ts, tx)
           n == Len(ts) + 1
<1>1. /\ n \in Nat /\ DOMAIN more = DOMAIN ts \cup {n} /\ more[n] = tx
      /\ \A j \in DOMAIN ts : j \in Nat /\ j < n /\ more[j] = ts[j]
  BY TxAppended
<1> HIDE DEF more, n
<1>2. CASE tx.by = by /\ tx.call = "approve" /\ tx.amount = amount
  <2>1. \A l \in DOMAIN more : ~(l > n)
    BY <1>1
  <2>2. QED BY <1>1, <1>2, <2>1 DEF Approved, more
<1>3. CASE tx.by # by /\ Approved(ts, by, amount)
  <2>1. PICK i \in DOMAIN ts :
          /\ ts[i].by = by /\ ts[i].call = "approve" /\ ts[i].amount = amount
          /\ \A l \in DOMAIN ts : l > i => ts[l].by # by
    BY <1>3 DEF Approved
  <2>2. \A l \in DOMAIN more : l > i => more[l].by # by
    BY <1>1, <1>3, <2>1
  <2>3. QED BY <1>1, <2>1, <2>2 DEF Approved, more
<1>4. QED BY <1>2, <1>3

\* Mining changes the state of one transaction and nothing else.
LEMMA TxMined ==
  ASSUME NEW ts \in Seq(Tx), NEW k \in DOMAIN ts,
         NEW state \in {"success", "reverted", "unapproved"},
         NEW mined, mined = [ts EXCEPT ![k].state = state]
  PROVE  /\ mined \in Seq(Tx) /\ DOMAIN mined = DOMAIN ts /\ mined[k].state = state
         /\ \A j \in DOMAIN ts :
              /\ j \in Nat
              /\ mined[j].by = ts[j].by /\ mined[j].call = ts[j].call
              /\ mined[j].amount = ts[j].amount
              /\ j # k => mined[j].state = ts[j].state
<1> DEFINE after == [ts[k] EXCEPT !.state = state]
<1>1. /\ after \in Tx /\ after.state = state /\ after.by = ts[k].by /\ after.call = ts[k].call
      /\ after.amount = ts[k].amount
  <2>1. ts[k] \in Tx
    OBVIOUS
  <2>2. QED BY <2>1 DEF Tx
<1>2. mined = [ts EXCEPT ![k] = after]
  OBVIOUS
<1> HIDE DEF after, Tx
<1>3. /\ mined \in Seq(Tx) /\ DOMAIN mined = DOMAIN ts /\ mined[k] = after
      /\ \A j \in DOMAIN ts : j \in Nat /\ (j # k => mined[j] = ts[j])
  BY <1>1, <1>2
<1>4. \A j \in DOMAIN ts :
        /\ mined[j].by = ts[j].by /\ mined[j].call = ts[j].call /\ mined[j].amount = ts[j].amount
        /\ j # k => mined[j].state = ts[j].state
  BY <1>1, <1>3
<1>5. QED BY <1>1, <1>3, <1>4

\* Mining in order keeps the wallet's invariants: an approval sets what is left,
\* a deposit tried uses it up, and one that fails for want of it was overtaken.
LEMMA MiningKeeps ==
  ASSUME NEW ts \in Seq(Tx), NEW k \in DOMAIN ts, NEW left, NEW left2,
         NEW state \in {"success", "reverted", "unapproved"},
         Wallet(ts, left), ts[k].state = "pending",
         \A j \in DOMAIN ts : j < k => ts[j].state # "pending",
         ts[k].call = "approve" => left2 = ts[k].amount,
         ts[k].call \notin {"approve", "fund"} => left2 = left,
         state = "unapproved" => ts[k].call = "fund" /\ left # ts[k].amount,
         NEW mined, mined = [ts EXCEPT ![k].state = state]
  PROVE  Wallet(mined, left2)
<1>1. /\ DOMAIN mined = DOMAIN ts /\ mined[k].state = state
      /\ \A j \in DOMAIN ts :
           /\ j \in Nat
           /\ mined[j].by = ts[j].by /\ mined[j].call = ts[j].call /\ mined[j].amount = ts[j].amount
           /\ j # k => mined[j].state = ts[j].state
  BY TxMined
<1>2. \A l \in DOMAIN ts : l > k => ts[l].state = "pending"
  BY <1>1 DEF Wallet, InOrder
<1>3. Prepared(mined)
  <2> SUFFICES ASSUME NEW m \in DOMAIN ts, ts[m].call = "fund"
               PROVE  \E i \in DOMAIN ts :
                        /\ i < m /\ ts[i].by = ts[m].by /\ ts[i].call = "approve"
                        /\ ts[i].amount = ts[m].amount
                        /\ \A l \in DOMAIN ts : i < l /\ l < m => ts[l].by # ts[m].by
    BY <1>1 DEF Prepared
  <2>1. QED BY DEF Wallet, Prepared
<1>4. InOrder(mined)
  BY <1>1, <1>2 DEF Wallet, InOrder
<1>5. Spendable(mined, left2)
  <2> SUFFICES ASSUME NEW i \in DOMAIN ts, ts[i].call = "approve", mined[i].state # "pending"
               PROVE  \/ \E l \in DOMAIN ts : /\ l > i /\ ts[l].call \in {"approve", "fund"}
                                              /\ mined[l].state # "pending"
                      \/ left2 = ts[i].amount
    BY <1>1 DEF Spendable
  <2>1. CASE i = k
    BY <2>1
  <2>2. CASE i # k
    <3>1. i < k /\ ts[i].state # "pending"
      BY <1>1, <1>2, <2>2
    <3>2. CASE ts[k].call \in {"approve", "fund"}
      BY <1>1, <3>1, <3>2
    <3>3. CASE ts[k].call \notin {"approve", "fund"}
      <4>1. \/ \E l \in DOMAIN ts : /\ l > i /\ ts[l].call \in {"approve", "fund"}
                                    /\ ts[l].state # "pending"
            \/ left = ts[i].amount
        BY <3>1 DEF Wallet, Spendable
      <4>2. QED BY <1>1, <3>3, <4>1
    <3>4. QED BY <3>2, <3>3
  <2>3. QED BY <2>1, <2>2
<1>6. Explained(mined)
  <2> SUFFICES ASSUME NEW m \in DOMAIN ts, mined[m].state = "unapproved"
               PROVE  \E j \in DOMAIN ts :
                        /\ j < m /\ ts[j].by # ts[m].by /\ ts[j].call \in {"approve", "fund"}
                        /\ \A i \in DOMAIN ts :
                             j <= i /\ i <= m /\ ts[i].by = ts[m].by => ts[i].call # "approve"
    BY <1>1 DEF Explained
  <2>1. CASE m # k
    BY <1>1, <2>1 DEF Wallet, Explained
  <2>2. CASE m = k
    <3>1. ts[k].call = "fund" /\ left # ts[k].amount
      BY <1>1, <2>2
    <3>2. PICK i \in DOMAIN ts :
            /\ i < k /\ ts[i].by = ts[k].by /\ ts[i].call = "approve" /\ ts[i].amount = ts[k].amount
            /\ \A l \in DOMAIN ts : i < l /\ l < k => ts[l].by # ts[k].by
      BY <3>1 DEF Wallet, Prepared
    <3>3. PICK j \in DOMAIN ts :
            j > i /\ ts[j].call \in {"approve", "fund"} /\ ts[j].state # "pending"
      BY <3>1, <3>2 DEF Wallet, Spendable
    <3>4. j < k
      BY <1>1, <1>2, <3>3
    <3>5. \A l \in DOMAIN ts : j <= l /\ l <= k /\ ts[l].by = ts[k].by => ts[l].call # "approve"
      <4> SUFFICES ASSUME NEW l \in DOMAIN ts, j <= l, l <= k, ts[l].by = ts[k].by
                   PROVE  ts[l].call # "approve"
        OBVIOUS
      <4>1. l = k \/ (i < l /\ l < k)
        BY <1>1, <3>2, <3>3
      <4>2. QED BY <3>1, <3>2, <4>1
    <3>6. QED BY <1>1, <2>2, <3>2, <3>3, <3>4, <3>5
  <2>3. QED BY <2>1, <2>2
<1>7. QED BY <1>3, <1>4, <1>5, <1>6 DEF Wallet

\* Whose approval comes last is not for mining to change.
LEMMA MiningApproves ==
  ASSUME NEW ts \in Seq(Tx), NEW k \in DOMAIN ts, NEW by, NEW amount,
         NEW state \in {"success", "reverted", "unapproved"}, Approved(ts, by, amount),
         NEW mined, mined = [ts EXCEPT ![k].state = state]
  PROVE  Approved(mined, by, amount)
<1>1. /\ DOMAIN mined = DOMAIN ts
      /\ \A j \in DOMAIN ts : /\ mined[j].by = ts[j].by /\ mined[j].call = ts[j].call
                              /\ mined[j].amount = ts[j].amount
  BY TxMined
<1>2. QED BY <1>1 DEF Approved

\* A transaction of a program, at a moment its handler may send it.
LEMMA ConsoleSends ==
  ASSUME ConsoleInv, NEW tx \in Tx, tx.state = "pending", Console!Send(tx),
         tx.call = "fund" => Approved(issued, tx.by, tx.amount)
  PROVE  issued' \in Seq(Tx) /\ Wallet(issued', allowance)
<1>1. issued \in Seq(Tx) /\ Wallet(issued, allowance) /\ issued' = Append(issued, tx)
  BY DEF ConsoleInv, ConsoleTypes, Console!Send
<1>2. Append(issued, tx) \in Seq(Tx)
  BY <1>1, TxAppended
<1>3. QED BY <1>1, <1>2, SendingKeeps

LEMMA DepositTyped ==
  ASSUME actions \in Seq(Action), NEW id \in DOMAIN actions, NEW amount \in Int
  PROVE  Console!Deposited(id, amount) \in Seq(Action)
<1> DEFINE total == actions[id].funded + amount
           reached == IF total = actions[id].goal THEN "CLAIMABLE" ELSE actions[id].status
           paid == [actions[id] EXCEPT !.funded = total, !.status = reached]
<1>1. actions[id] \in Action
  OBVIOUS
<1>2. total \in Int /\ reached \in {"ANNOUNCED", "ROOT_PUBLISHED", "CLAIMABLE", "FINALIZED",
                                    "CANCELLED"}
  BY <1>1 DEF Action
<1>3. Console!Deposited(id, amount) = [actions EXCEPT ![id] = paid]
  BY <1>1 DEF Console!Deposited, Action
<1> HIDE DEF total, reached
<1>4. paid \in Action
  BY <1>1, <1>2 DEF Action
<1> HIDE DEF paid, Action
<1>5. QED BY <1>3, <1>4

\* What a mined transaction does to the registry leaves actions.
LEMMA ActionsTyped ==
  ASSUME actions \in Seq(Action), NEW tx \in Tx, Console!Accepted(tx), Console!Execute(tx)
  PROVE  actions' \in Seq(Action)
<1>1. tx.amount \in Int /\ tx.id \in Nat
  BY DEF Tx
<1>2. CASE tx.call = "announce"
  <2>1. Console!Blank("issuer") \in Action
    BY DEF Console!Blank, Action
  <2>2. actions' = Append(actions, Console!Blank("issuer"))
    BY <1>2 DEF Console!Execute
  <2> HIDE DEF Action
  <2>3. QED BY <2>1, <2>2
<1>3. ASSUME NEW status1 \in {"ROOT_PUBLISHED", "CANCELLED", "FINALIZED"}, NEW goal \in Int,
             tx.id \in DOMAIN actions,
             \/ actions' = [actions EXCEPT ![tx.id].status = status1]
             \/ actions' = [actions EXCEPT ![tx.id].status = status1, ![tx.id].goal = goal]
      PROVE  actions' \in Seq(Action)
  <2> DEFINE moved == [actions[tx.id] EXCEPT !.status = status1]
             opened == [actions[tx.id] EXCEPT !.status = status1, !.goal = goal]
  <2>1. actions[tx.id] \in Action
    BY <1>3
  <2>2. moved \in Action /\ opened \in Action
    BY <2>1 DEF Action
  <2>3. \/ actions' = [actions EXCEPT ![tx.id] = moved]
        \/ actions' = [actions EXCEPT ![tx.id] = opened]
    BY <1>3
  <2> HIDE DEF moved, opened, Action
  <2>4. QED BY <1>3, <2>2, <2>3
<1>4. CASE tx.call \in {"publish", "cancel", "sweep"}
  <2>1. tx.id \in DOMAIN actions
    BY <1>4 DEF Console!Accepted, Console!Own
  <2>2. CASE tx.call = "publish"
    BY <1>1, <1>3, <2>1, <2>2 DEF Console!Execute
  <2>3. CASE tx.call = "cancel"
    BY <1>1, <1>3, <2>1, <2>3 DEF Console!Execute
  <2>4. CASE tx.call = "sweep"
    BY <1>1, <1>3, <2>1, <2>4 DEF Console!Execute
  <2>5. QED BY <1>4, <2>2, <2>3, <2>4
<1>5. CASE tx.call = "approve"
  BY <1>5 DEF Console!Execute
<1>6. CASE tx.call = "fund"
  <2>1. tx.id \in DOMAIN actions /\ actions' = Console!Deposited(tx.id, tx.amount)
    BY <1>6 DEF Console!Execute, Console!Accepted, Console!Fundable
  <2>2. QED BY <1>1, <2>1, DepositTyped
<1>7. QED BY <1>2, <1>4, <1>5, <1>6 DEF Tx

LEMMA ConsoleStep ==
  ASSUME Console!ConsoleAssumption
  PROVE  ConsoleInv /\ [Console!ConsoleNext]_(Console!consoleVars) => ConsoleInv'
<1> SUFFICES ASSUME ConsoleInv, [Console!ConsoleNext]_(Console!consoleVars) PROVE ConsoleInv'
  OBVIOUS
<1> USE DEF Console!ledger
<1>1. /\ actions \in Seq(Action) /\ issued \in Seq(Tx) /\ Wallet(issued, allowance)
      /\ script \in [wallet : BOOLEAN, awaits : BOOLEAN, funding : Nat]
      /\ console \in [step : Nat, id : Nat, handler : {"none", "counting", "funding"}]
  BY DEF ConsoleInv, ConsoleTypes
<1>2. Len(actions) \in Nat /\ FormTotal \in Nat /\ Share \in Nat /\ \A id \in Console!ActionIds : id \in Nat
  BY <1>1 DEF Console!ConsoleAssumption, Console!ActionIds
<1>3. CASE Console!GiveUp \/ Console!ReadCount \/ Console!SnapshotGenerated \/ Console!StartAnother
  <2>1. UNCHANGED <<actions, allowance, issued, script>>
    BY <1>3 DEF Console!GiveUp, Console!ReadCount, Console!SnapshotGenerated, Console!StartAnother
  <2>2. /\ console' \in [step : Nat, id : Nat, handler : {"none", "counting", "funding"}]
        /\ console'.handler # "funding"
    <3>1. CASE Console!GiveUp
      BY <1>1, <3>1 DEF Console!GiveUp
    <3>2. CASE Console!ReadCount
      BY <1>2, <3>2 DEF Console!ReadCount
    <3>3. CASE Console!SnapshotGenerated
      BY <1>1, <3>3 DEF Console!SnapshotGenerated, Console!At, Console!Handling
    <3>4. CASE Console!StartAnother
      BY <3>4 DEF Console!StartAnother
    <3>5. QED BY <1>3, <3>1, <3>2, <3>3, <3>4
  <2>3. QED BY <1>1, <2>1, <2>2 DEF ConsoleInv, ConsoleTypes
<1>4. ASSUME NEW tx \in Tx, tx.by = "console", tx.state = "pending", Console!Send(tx),
             tx.call = "fund" => Approved(issued, tx.by, tx.amount),
             UNCHANGED <<actions, allowance, script>>,
             console' \in [step : Nat, id : Nat, handler : {"none", "counting", "funding"}],
             console'.handler = "funding" => tx.call = "approve" /\ tx.amount = FormTotal
      PROVE  ConsoleInv'
  <2>1. issued' \in Seq(Tx) /\ Wallet(issued', allowance) /\ issued' = Append(issued, tx)
    BY <1>4, ConsoleSends DEF Console!Send
  <2>2. script.funding # 0 => Approved(issued', "script", Share)
    BY <1>1, <1>4, <2>1, SendingApproves DEF ConsoleInv
  <2>3. console'.handler = "funding" => Approved(issued', "console", FormTotal)
    BY <1>1, <1>4, <2>1, SendingApproves
  <2>4. QED BY <1>1, <1>4, <2>1, <2>2, <2>3 DEF ConsoleInv, ConsoleTypes
<1>5. ASSUME NEW tx \in Tx, tx.by = "script", tx.state = "pending", Console!Send(tx),
             tx.call = "fund" => Approved(issued, tx.by, tx.amount),
             UNCHANGED <<actions, allowance, console>>,
             script' \in [wallet : BOOLEAN, awaits : BOOLEAN, funding : Nat],
             script'.funding # 0 => tx.call = "approve" /\ tx.amount = Share
      PROVE  ConsoleInv'
  <2>1. issued' \in Seq(Tx) /\ Wallet(issued', allowance) /\ issued' = Append(issued, tx)
    BY <1>5, ConsoleSends DEF Console!Send
  <2>2. console.handler = "funding" => Approved(issued', "console", FormTotal)
    BY <1>1, <1>5, <2>1, SendingApproves DEF ConsoleInv
  <2>3. script'.funding # 0 => Approved(issued', "script", Share)
    BY <1>1, <1>5, <2>1, SendingApproves
  <2>4. QED BY <1>1, <1>5, <2>1, <2>2, <2>3 DEF ConsoleInv, ConsoleTypes
<1> HIDE DEF Console!ledger
<1>7. CASE Console!Announce
  <2>1. /\ Console!Send(Console!Tx("console", "announce", 0, 0))
        /\ UNCHANGED <<actions, allowance, script>>
    BY <1>7 DEF Console!Announce, Console!ledger
  <2>2. /\ console' \in [step : Nat, id : Nat, handler : {"none", "counting", "funding"}]
        /\ console'.handler # "funding"
    BY <1>1, <1>7 DEF Console!Announce
  <2> DEFINE tx == Console!Tx("console", "announce", 0, 0)
  <2>3. /\ tx \in Tx /\ tx.by = "console" /\ tx.call = "announce" /\ tx.amount = 0
        /\ tx.state = "pending" /\ Console!Send(tx)
    BY ONLY <2>1 DEF Console!Tx, Tx
  <2> HIDE DEF tx
  <2>4. QED BY <1>4, <2>1, <2>2, <2>3
<1>8. CASE Console!Publish
  <2>1. /\ Console!Send(Console!Tx("console", "publish", console.id, FormTotal))
        /\ UNCHANGED <<actions, allowance, script>>
    BY <1>8 DEF Console!Publish, Console!ledger
  <2>2. /\ console' \in [step : Nat, id : Nat, handler : {"none", "counting", "funding"}]
        /\ console'.handler # "funding"
    BY <1>1, <1>8 DEF Console!Publish, Console!At, Console!Handling
  <2>3. console.id \in Nat
    BY <1>1
  <2> DEFINE tx == Console!Tx("console", "publish", console.id, FormTotal)
  <2>4. /\ tx \in Tx /\ tx.by = "console" /\ tx.call = "publish" /\ tx.amount = FormTotal
        /\ tx.state = "pending" /\ Console!Send(tx)
    BY ONLY <1>2, <2>1, <2>3 DEF Console!Tx, Tx
  <2> HIDE DEF tx
  <2>5. QED BY <1>4, <2>1, <2>2, <2>3, <2>4
<1>9. CASE Console!Approve
  <2>1. /\ Console!Send(Console!Tx("console", "approve", 0, FormTotal))
        /\ UNCHANGED <<actions, allowance, script>>
    BY <1>9 DEF Console!Approve, Console!ledger
  <2>2. console' \in [step : Nat, id : Nat, handler : {"none", "counting", "funding"}]
    BY <1>1, <1>9 DEF Console!Approve
  <2> DEFINE tx == Console!Tx("console", "approve", 0, FormTotal)
  <2>3. /\ tx \in Tx /\ tx.by = "console" /\ tx.call = "approve" /\ tx.amount = FormTotal
        /\ tx.state = "pending" /\ Console!Send(tx)
    BY ONLY <1>2, <2>1 DEF Console!Tx, Tx
  <2> HIDE DEF tx
  <2>4. QED BY <1>4, <2>1, <2>2, <2>3
<1>10. CASE Console!Fund
  <2>1. /\ Console!Send(Console!Tx("console", "fund", console.id, FormTotal))
        /\ UNCHANGED <<actions, allowance, script>> /\ console.handler = "funding"
    BY <1>10 DEF Console!Fund, Console!ledger, Console!Handling
  <2>2. /\ console' \in [step : Nat, id : Nat, handler : {"none", "counting", "funding"}]
        /\ console'.handler # "funding"
    BY <1>1, <1>10 DEF Console!Fund
  <2>3. Approved(issued, "console", FormTotal) /\ console.id \in Nat
    BY <1>1, <2>1 DEF ConsoleInv
  <2> DEFINE tx == Console!Tx("console", "fund", console.id, FormTotal)
  <2>4. /\ tx \in Tx /\ tx.by = "console" /\ tx.call = "fund" /\ tx.amount = FormTotal
        /\ tx.state = "pending" /\ Console!Send(tx)
    BY ONLY <1>2, <2>1, <2>3 DEF Console!Tx, Tx
  <2> HIDE DEF tx
  <2>5. QED BY <1>4, <2>1, <2>2, <2>3, <2>4
<1>11. CASE Console!Write
  <2>1. PICK call \in {"announce", "publish", "cancel", "sweep"}, id \in Nat, amount \in Nat :
          Console!Send(Console!Tx("script", call, id, amount))
    <3>1. CASE Console!AnnounceAction
      BY <3>1 DEF Console!AnnounceAction, Console!ScriptSends
    <3>2. ASSUME NEW id \in Console!ActionIds,
                 \/ Console!PublishRoot(id) \/ Console!CancelAction(id)
                 \/ Console!SweepUnclaimed(id)
          PROVE  /\ id \in Nat
                 /\ \E call \in {"publish", "cancel", "sweep"} : \E amount \in Nat :
                      Console!Send(Console!Tx("script", call, id, amount))
      BY <1>2, <3>2 DEF Console!PublishRoot, Console!CancelAction, Console!SweepUnclaimed,
                        Console!ScriptSends
    <3>3. QED BY <1>11, <3>1, <3>2 DEF Console!Write
  <2>2. script.funding = 0 /\ UNCHANGED <<actions, allowance, script, console>>
    BY <1>11 DEF Console!Write, Console!ledger
  <2> DEFINE tx == Console!Tx("script", call, id, amount)
  <2>3. /\ tx \in Tx /\ tx.by = "script" /\ tx.call = call /\ tx.amount = amount
        /\ tx.state = "pending" /\ Console!Send(tx)
    BY ONLY <2>1 DEF Console!Tx, Tx
  <2> HIDE DEF tx
  <2>4. QED BY <1>1, <1>5, <2>1, <2>2, <2>3
<1>12. ASSUME NEW id \in Console!ActionIds, Console!FundWithApproval(id) PROVE ConsoleInv'
  <2>1. /\ Console!Send(Console!Tx("script", "approve", 0, Share))
        /\ UNCHANGED <<actions, allowance, console>>
    BY <1>12 DEF Console!FundWithApproval, Console!ScriptSends, Console!ledger
  <2>2. script' \in [wallet : BOOLEAN, awaits : BOOLEAN, funding : Nat]
    BY <1>1, <1>2, <1>12 DEF Console!FundWithApproval
  <2> DEFINE tx == Console!Tx("script", "approve", 0, Share)
  <2>3. /\ tx \in Tx /\ tx.by = "script" /\ tx.call = "approve" /\ tx.amount = Share
        /\ tx.state = "pending" /\ Console!Send(tx)
    BY ONLY <1>2, <2>1 DEF Console!Tx, Tx
  <2> HIDE DEF tx
  <2>4. QED BY <1>5, <2>1, <2>2, <2>3
<1>13. CASE Console!DepositScripted
  <2>1. /\ Console!Send(Console!Tx("script", "fund", script.funding, Share))
        /\ UNCHANGED <<actions, allowance, console>> /\ script.funding # 0
    BY <1>13 DEF Console!DepositScripted, Console!ScriptSends, Console!ledger
  <2>2. /\ script' \in [wallet : BOOLEAN, awaits : BOOLEAN, funding : Nat]
        /\ script'.funding = 0
    BY <1>1, <1>13 DEF Console!DepositScripted
  <2>3. Approved(issued, "script", Share) /\ script.funding \in Nat
    BY <1>1, <2>1 DEF ConsoleInv
  <2> DEFINE tx == Console!Tx("script", "fund", script.funding, Share)
  <2>4. /\ tx \in Tx /\ tx.by = "script" /\ tx.call = "fund" /\ tx.amount = Share
        /\ tx.state = "pending" /\ Console!Send(tx)
    BY ONLY <1>2, <2>1, <2>3 DEF Console!Tx, Tx
  <2> HIDE DEF tx
  <2>5. QED BY <1>5, <2>1, <2>2, <2>3, <2>4
<1>14. CASE Console!ScriptThrows
  <2>1. /\ script' \in [wallet : BOOLEAN, awaits : BOOLEAN, funding : Nat] /\ script'.funding = 0
        /\ UNCHANGED <<actions, allowance, issued, console>>
    BY <1>1, <1>14 DEF Console!ScriptThrows, Console!ledger
  <2>2. QED BY <1>1, <2>1 DEF ConsoleInv, ConsoleTypes
<1>15. CASE Console!Mine
  <2>1. PICK k \in DOMAIN issued :
          /\ issued[k].state = "pending"
          /\ \A j \in 1 .. (k - 1) : issued[j].state # "pending"
          /\ \/ /\ Console!Accepted(issued[k]) /\ Console!Execute(issued[k])
                /\ issued' = [issued EXCEPT ![k].state = "success"]
             \/ /\ ~Console!Accepted(issued[k]) \/ issued[k].call = "sweep"
                /\ issued' = [issued EXCEPT ![k].state = Console!Failure(issued[k])]
                /\ UNCHANGED <<actions, allowance>>
          /\ UNCHANGED <<script, console>>
    BY <1>15 DEF Console!Mine, Console!ledger
  <2>2. issued[k] \in Tx /\ \A j \in DOMAIN issued : j < k => issued[j].state # "pending"
    <3>1. /\ issued[k] \in Tx
          /\ \A j \in DOMAIN issued : j < k => j \in 1 .. (k - 1)
      BY <1>1
    <3>2. QED BY <2>1, <3>1
  <2>3. ASSUME NEW state \in {"success", "reverted", "unapproved"},
               issued' = [issued EXCEPT ![k].state = state], actions' \in Seq(Action),
               issued[k].call = "approve" => allowance' = issued[k].amount,
               issued[k].call \notin {"approve", "fund"} => allowance' = allowance,
               state = "unapproved" => issued[k].call = "fund" /\ allowance # issued[k].amount
        PROVE  ConsoleInv'
    <3>1. Wallet(issued', allowance')
      BY <1>1, <2>1, <2>2, <2>3, MiningKeeps
    <3>2. issued' \in Seq(Tx)
      <4>1. issued \in Seq(Tx) /\ k \in DOMAIN issued /\ state \in {"success", "reverted", "unapproved"}
        BY <1>1, <2>1
      <4>2. issued' = [issued EXCEPT ![k].state = state]
        BY <2>3
      <4>3. QED BY ONLY <4>1, <4>2, TxMined
    <3>3. \A by, amount : Approved(issued, by, amount) => Approved(issued', by, amount)
      BY <1>1, <2>1, <2>3, MiningApproves
    <3>4. UNCHANGED <<script, console>>
      BY <2>1
    <3>5. QED BY <1>1, <2>3, <3>1, <3>2, <3>3, <3>4 DEF ConsoleInv, ConsoleTypes
  <2>4. CASE /\ Console!Accepted(issued[k]) /\ Console!Execute(issued[k])
             /\ issued' = [issued EXCEPT ![k].state = "success"]
    <3>1. actions' \in Seq(Action)
      BY <1>1, <2>2, <2>4, ActionsTyped
    <3>2. /\ issued[k].call = "approve" => allowance' = issued[k].amount
          /\ issued[k].call \notin {"approve", "fund"} => allowance' = allowance
      BY <2>4 DEF Console!Execute
    <3>3. QED BY <2>3, <2>4, <3>1, <3>2
  <2>5. CASE /\ ~Console!Accepted(issued[k]) \/ issued[k].call = "sweep"
             /\ issued' = [issued EXCEPT ![k].state = Console!Failure(issued[k])]
             /\ UNCHANGED <<actions, allowance>>
    <3>1. issued[k].call # "approve"
      BY <2>5 DEF Console!Accepted
    <3>2. Console!Failure(issued[k]) \in {"reverted", "unapproved"}
      BY DEF Console!Failure
    <3>3. ASSUME Console!Failure(issued[k]) = "unapproved"
          PROVE  issued[k].call = "fund" /\ allowance # issued[k].amount
      <4>1. issued[k].call = "fund" /\ Console!Fundable(issued[k].id, issued[k].amount)
        BY <3>3 DEF Console!Failure
      <4>2. ~Console!Accepted(issued[k])
        BY <2>5, <4>1
      <4>3. ~(issued[k].amount <= allowance) /\ issued[k].amount \in Nat
        BY <2>2, <4>1, <4>2 DEF Console!Accepted, Tx
      <4>4. QED BY <4>1, <4>3
    <3>4. actions' = actions /\ allowance' = allowance
      BY <2>5
    <3>5. QED BY <1>1, <2>3, <2>5, <3>1, <3>2, <3>3, <3>4
  <2>6. QED BY <2>1, <2>4, <2>5
<1>16. CASE Console!OtherAnnounces
  <2>1. Console!Blank("other") \in Action
    BY DEF Console!Blank, Action
  <2>2. /\ actions' = Append(actions, Console!Blank("other"))
        /\ UNCHANGED <<allowance, issued, script, console>>
    BY <1>16 DEF Console!OtherAnnounces
  <2>3. actions' \in Seq(Action)
    BY <1>1, <2>1, <2>2
  <2>4. QED BY <1>1, <2>2, <2>3 DEF ConsoleInv, ConsoleTypes
<1>17. CASE Console!OtherFunds
  <2>1. PICK id \in DOMAIN actions : actions' = Console!Deposited(id, 1)
    BY <1>17 DEF Console!OtherFunds
  <2>2. actions' \in Seq(Action)
    BY <1>1, <2>1, DepositTyped
  <2>3. UNCHANGED <<allowance, issued, script, console>>
    BY <1>17 DEF Console!OtherFunds
  <2>4. QED BY <1>1, <2>2, <2>3 DEF ConsoleInv, ConsoleTypes
<1>18. CASE UNCHANGED Console!consoleVars
  BY <1>18 DEF Console!consoleVars, ConsoleInv, ConsoleTypes
<1>19. QED
  BY <1>3, <1>7, <1>8, <1>9, <1>10, <1>11, <1>12, <1>13, <1>14, <1>15, <1>16, <1>17, <1>18
     DEF Console!ConsoleNext

\* A deposit is refused for want of an allowance only if the other program
\* approved or deposited after this one's approval: for any amounts, any number
\* of actions and transactions, refused signatures and deposits of others.
THEOREM DepositsAlwaysApproved ==
  ASSUME Console!ConsoleAssumption
  PROVE  Console!ConsoleSpec => []DepositsApproved
<1>1. Console!ConsoleInit => ConsoleInv
  <2> SUFFICES ASSUME Console!ConsoleInit PROVE ConsoleInv
    OBVIOUS
  <2>1. actions = << >> /\ issued = << >> /\ script.funding = 0 /\ console.handler = "none"
    BY DEF Console!ConsoleInit
  <2>2. /\ script \in [wallet : BOOLEAN, awaits : BOOLEAN, funding : Nat]
        /\ console \in [step : Nat, id : Nat, handler : {"none", "counting", "funding"}]
    BY DEF Console!ConsoleInit
  <2>3. actions \in Seq(Action) /\ issued \in Seq(Tx) /\ DOMAIN issued = {}
    BY <2>1
  <2>4. Wallet(issued, allowance)
    BY <2>3 DEF Wallet, Prepared, InOrder, Spendable, Explained
  <2>5. QED BY <2>1, <2>2, <2>3, <2>4 DEF ConsoleInv, ConsoleTypes
<1>2. ConsoleInv => Console!DepositsApproved
  <2> SUFFICES ASSUME ConsoleInv, NEW k \in DOMAIN issued, issued[k].state = "unapproved"
               PROVE  \E j \in 1 .. (k - 1) :
                        /\ issued[j].by # issued[k].by /\ issued[j].call \in {"approve", "fund"}
                        /\ \A i \in j .. k : issued[i].by = issued[k].by => issued[i].call # "approve"
    BY DEF Console!DepositsApproved
  <2>1. PICK j \in DOMAIN issued :
          /\ j < k /\ issued[j].by # issued[k].by /\ issued[j].call \in {"approve", "fund"}
          /\ \A i \in DOMAIN issued : j <= i /\ i <= k /\ issued[i].by = issued[k].by
                                     => issued[i].call # "approve"
    BY DEF ConsoleInv, Wallet, Explained
  <2>2. DOMAIN issued = 1 .. Len(issued) /\ Len(issued) \in Nat
    BY DEF ConsoleInv, ConsoleTypes
  <2>3. j \in 1 .. (k - 1) /\ j .. k \subseteq DOMAIN issued
    BY <2>1, <2>2
  <2>4. \A i \in j .. k : issued[i].by = issued[k].by => issued[i].call # "approve"
    BY <2>1, <2>2, <2>3
  <2>5. QED BY <2>1, <2>3, <2>4
<1>3. QED BY <1>1, <1>2, ConsoleStep, PTL DEF Console!ConsoleSpec, DepositsApproved

(***************************************************************************)
(* The relay's brake                                                       *)
(***************************************************************************)

Slots(ks, from, until) == ks \X {u \in Limiter!Times : from <= u /\ u < until}
Counted(adm, ks, from, until) == SumFunctionOnSet(adm, Slots(ks, from, until))
End == MaxNow + 1

\* Windows gone by let through at most twice the limit.
Past(adm, ks, limit) ==
  \A t \in Limiter!Times : Counted(adm, ks, t, t + WindowLength) <= 2 * limit

\* No window is running: nothing was admitted now, and at most the limit in the
\* window's length before.
Closed(adm, ks, n, limit) ==
  /\ Past(adm, ks, limit)
  /\ Counted(adm, ks, n, End) = 0
  /\ Counted(adm, ks, n - WindowLength, n) <= limit

Window == [count : Nat, resetAt : Int]

\* A window that counts everybody in ks: what it admitted is in its count and in
\* its limit, and so is what was admitted in its length before it.
Open(adm, ks, n, win, limit) ==
  LET start == win.resetAt - WindowLength IN
  /\ win \in Window
  /\ start <= n
  /\ Past(adm, ks, limit)
  /\ Counted(adm, ks, start, End) <= win.count
  /\ Counted(adm, ks, start, End) <= limit
  /\ Counted(adm, ks, start - WindowLength, start) <= limit
  /\ Counted(adm, ks, win.resetAt, End) = 0

Admitted(adm, key, n) == [adm EXCEPT ![<<key, n>>] = @ + 1]

History == [RelayKeys \X Limiter!Times -> Nat]

LimiterInv ==
  /\ admitted \in History
  /\ now \in Limiter!Times
  /\ Open(admitted, RelayKeys, now, globalWindow, GlobalLimit)
  /\ DOMAIN perKey \subseteq RelayKeys
  /\ \A k \in DOMAIN perKey : Open(admitted, {k}, now, perKey[k], PerKeyLimit)
  /\ \A k \in RelayKeys \ DOMAIN perKey : Closed(admitted, {k}, now, PerKeyLimit)

LEMMA SlotsFinite ==
  ASSUME Limiter!LimiterAssumption
  PROVE  IsFiniteSet(RelayKeys \X Limiter!Times)
<1>1. IsFiniteSet(0 .. MaxNow)
  BY FS_Interval DEF Limiter!LimiterAssumption
<1>2. IsFiniteSet(Limiter!Times) /\ IsFiniteSet(RelayKeys)
  <2>1. Limiter!Times = 0 .. MaxNow
    BY DEF Limiter!Times
  <2>2. IsFiniteSet(Limiter!Times)
    BY <1>1, <2>1, Zenon
  <2>3. QED BY <2>2 DEF Limiter!LimiterAssumption, Limiter!IsFiniteSet, IsFiniteSet
<1>3. QED BY <1>2, FS_Product

\* What was admitted between two instants is a number, and at most what was
\* admitted between instants that enclose them, or in two stretches that cover them.
LEMMA CountedCovered ==
  ASSUME Limiter!LimiterAssumption, NEW adm \in History, NEW ks \in SUBSET RelayKeys,
         NEW a \in Int, NEW b \in Int, NEW c \in Int, NEW d \in Int, NEW e \in Int,
         c <= a, b <= e
  PROVE  /\ Counted(adm, ks, a, b) \in Nat
         /\ Counted(adm, ks, a, b) <= Counted(adm, ks, c, d) + Counted(adm, ks, d, e)
<1>1. /\ Slots(ks, a, b) \in SUBSET (RelayKeys \X Limiter!Times)
      /\ Slots(ks, c, d) \in SUBSET (RelayKeys \X Limiter!Times)
      /\ Slots(ks, d, e) \in SUBSET (RelayKeys \X Limiter!Times)
  BY DEF Slots
<1>2. \A u \in Limiter!Times : u \in Int
  BY DEF Limiter!LimiterAssumption, Limiter!Times
<1>3. Slots(ks, a, b) \subseteq Slots(ks, c, d) \cup Slots(ks, d, e)
  BY <1>2 DEF Slots
<1>4. QED BY <1>1, <1>3, SlotsFinite, SumCovered DEF Counted, History

LEMMA CountedWithin ==
  ASSUME Limiter!LimiterAssumption, NEW adm \in History, NEW ks \in SUBSET RelayKeys,
         NEW a \in Int, NEW b \in Int, NEW c \in Int, NEW d \in Int, c <= a, b <= d
  PROVE  /\ Counted(adm, ks, a, b) \in Nat
         /\ Counted(adm, ks, c, d) \in Nat
         /\ Counted(adm, ks, a, b) <= Counted(adm, ks, c, d)
<1>1. /\ Slots(ks, a, b) \in SUBSET (RelayKeys \X Limiter!Times)
      /\ Slots(ks, c, d) \in SUBSET (RelayKeys \X Limiter!Times)
      /\ {} \in SUBSET (RelayKeys \X Limiter!Times)
  BY DEF Slots
<1>2. \A u \in Limiter!Times : u \in Int
  BY DEF Limiter!LimiterAssumption, Limiter!Times
<1>3. Slots(ks, a, b) \subseteq Slots(ks, c, d) \cup {}
  BY <1>2 DEF Slots
<1>4. /\ Counted(adm, ks, a, b) \in Nat
      /\ Counted(adm, ks, a, b) <= Counted(adm, ks, c, d) + SumFunctionOnSet(adm, {})
  BY <1>1, <1>3, SlotsFinite, SumCovered DEF Counted, History
<1>5. Counted(adm, ks, c, d) \in Nat
  BY <1>1, SlotsFinite, SumCovered DEF Counted, History
<1>6. SumFunctionOnSet(adm, {}) = 0
  <2>1. adm \in [RelayKeys \X Limiter!Times -> Int]
    BY DEF History
  <2>2. SumFunctionOnSet(adm, {}) = SumTable(adm, RelayKeys \X Limiter!Times)[{}]
    BY <1>1, <2>1, SlotsFinite, SumOnPart
  <2>3. QED BY <2>1, <2>2, SlotsFinite, TableExists, TableZero
<1>7. QED BY <1>4, <1>5, <1>6

\* One more request admitted counts where its client and its time are counted.
LEMMA CountedMore ==
  ASSUME Limiter!LimiterAssumption, NEW adm \in History, NEW ks \in SUBSET RelayKeys,
         NEW key \in RelayKeys, NEW n \in Limiter!Times, NEW more,
         more = Admitted(adm, key, n), NEW a \in Int, NEW b \in Int
  PROVE  /\ more \in History
         /\ Counted(more, ks, a, b)
              = IF key \in ks /\ a <= n /\ n < b THEN Counted(adm, ks, a, b) + 1
                ELSE Counted(adm, ks, a, b)
<1> DEFINE slot == <<key, n>>
<1>1. /\ slot \in RelayKeys \X Limiter!Times /\ Slots(ks, a, b) \in SUBSET (RelayKeys \X Limiter!Times)
      /\ slot \in Slots(ks, a, b) <=> key \in ks /\ a <= n /\ n < b
  BY DEF Slots
<1>2. /\ adm \in [RelayKeys \X Limiter!Times -> Nat] /\ adm[slot] \in Nat
      /\ more = [adm EXCEPT ![slot] = adm[slot] + 1]
  BY <1>1 DEF History, Admitted
<1> HIDE DEF slot
<1>3. more \in History
  BY <1>1, <1>2 DEF History
<1>4. more[slot] = adm[slot] + 1 /\ \A y \in (RelayKeys \X Limiter!Times) \ {slot} : more[y] = adm[y]
  BY <1>1, <1>2
<1>5. SumFunctionOnSet(more, Slots(ks, a, b))
        = IF slot \in Slots(ks, a, b)
          THEN SumFunctionOnSet(adm, Slots(ks, a, b)) - adm[slot] + more[slot]
          ELSE SumFunctionOnSet(adm, Slots(ks, a, b))
  <2> DEFINE all == RelayKeys \X Limiter!Times
             T == Slots(ks, a, b)
  <2>1. /\ IsFiniteSet(all) /\ slot \in all /\ T \in SUBSET all
        /\ \A y \in all \ {slot} : more[y] = adm[y]
    BY <1>1, <1>4, SlotsFinite
  <2>2. adm \in [all -> Int] /\ more \in [all -> Int]
    <3>1. \A f \in History : f \in [all -> Int]
      BY DEF History
    <3> HIDE DEF all
    <3>2. QED BY <1>3, <3>1
  <2> HIDE DEF all, T
  <2>3. SumFunctionOnSet(more, T)
          = IF slot \in T THEN SumFunctionOnSet(adm, T) - adm[slot] + more[slot]
            ELSE SumFunctionOnSet(adm, T)
    BY ONLY <2>1, <2>2, SumPartUpdate
  <2>4. QED BY <2>3 DEF T
<1>6. SumFunctionOnSet(adm, Slots(ks, a, b)) \in Nat
  BY <1>1, <1>2, SlotsFinite, SumCovered
<1>7. QED BY <1>1, <1>2, <1>3, <1>4, <1>5, <1>6 DEF Counted

\* Nothing is counted after the clock's end.
LEMMA CountedToEnd ==
  ASSUME Limiter!LimiterAssumption, NEW adm \in History, NEW ks \in SUBSET RelayKeys,
         NEW a \in Int, NEW b \in Int
  PROVE  Counted(adm, ks, a, b) \in Nat /\ Counted(adm, ks, a, b) <= Counted(adm, ks, a, End)
<1>1. Slots(ks, a, b) = Slots(ks, a, IF b <= End THEN b ELSE End)
  BY DEF Slots, End, Limiter!Times, Limiter!LimiterAssumption
<1>2. End \in Int /\ a <= a
  BY DEF End, Limiter!LimiterAssumption
<1> DEFINE c == IF b <= End THEN b ELSE End
<1>3. c \in Int /\ c <= End
  BY <1>2
<1> HIDE DEF c
<1>4. Counted(adm, ks, a, c) \in Nat /\ Counted(adm, ks, a, c) <= Counted(adm, ks, a, End)
  BY <1>2, <1>3, CountedWithin
<1>5. QED BY <1>1, <1>4 DEF Counted, c

\* An admission leaves windows gone by within twice the limit, if the window of
\* this moment and the stretch before it are each within the limit.
LEMMA PastKept ==
  ASSUME Limiter!LimiterAssumption, NEW adm \in History, NEW ks \in SUBSET RelayKeys,
         NEW key \in RelayKeys, NEW n \in Limiter!Times, NEW limit \in Nat, NEW start \in Int, start <= n,
         NEW more, more = Admitted(adm, key, n),
         Past(adm, ks, limit),
         Counted(more, ks, start, End) <= limit,
         Counted(more, ks, start - WindowLength, start) <= limit
  PROVE  Past(more, ks, limit)
<1> SUFFICES ASSUME NEW t \in Limiter!Times
             PROVE  Counted(more, ks, t, t + WindowLength) <= 2 * limit
  BY DEF Past
<1>1. /\ t \in Int /\ n \in Int /\ End \in Int /\ WindowLength \in Int /\ t + WindowLength \in Int
      /\ start - WindowLength \in Int
  BY DEF Limiter!LimiterAssumption, Limiter!Times, End
<1>2. more \in History
  BY <1>1, CountedMore
<1>3. CASE t <= n /\ n < t + WindowLength
  <2>1. start - WindowLength <= t
    BY <1>1, <1>3
  <2>2. /\ Counted(more, ks, t, End) \in Nat
        /\ Counted(more, ks, t, End) <= Counted(more, ks, start - WindowLength, start)
                                          + Counted(more, ks, start, End)
    BY <1>1, <1>2, <2>1, CountedCovered
  <2>3. /\ Counted(more, ks, t, t + WindowLength) \in Nat
        /\ Counted(more, ks, t, t + WindowLength) <= Counted(more, ks, t, End)
    BY <1>1, <1>2, CountedToEnd
  <2>4. /\ Counted(more, ks, start - WindowLength, start) \in Nat
        /\ Counted(more, ks, start, End) \in Nat
    BY <1>1, <1>2, CountedWithin
  <2>5. QED BY <2>2, <2>3, <2>4
<1>4. CASE ~(t <= n /\ n < t + WindowLength)
  <2>1. Counted(more, ks, t, t + WindowLength) = Counted(adm, ks, t, t + WindowLength)
    BY <1>1, <1>4, CountedMore
  <2>2. QED BY <2>1 DEF Past
<1>5. QED BY <1>3, <1>4

\* The first request after a window's end opens the next one.
LEMMA WindowOpens ==
  ASSUME Limiter!LimiterAssumption, NEW adm \in History, NEW ks \in SUBSET RelayKeys, NEW key \in ks,
         NEW n \in Limiter!Times, NEW limit \in Nat, Closed(adm, ks, n, limit),
         NEW win \in Window, win.count = 1, win.resetAt = n + WindowLength,
         NEW more, more = adm \/ (1 <= limit /\ more = Admitted(adm, key, n))
  PROVE  Open(more, ks, n, win, limit)
<1>1. /\ n \in Int /\ n \in Nat /\ n <= MaxNow /\ WindowLength \in Nat /\ WindowLength > 0
      /\ End \in Int /\ n < End /\ n - WindowLength \in Int /\ n + WindowLength \in Int
      /\ win.resetAt - WindowLength = n /\ key \in RelayKeys
  BY DEF Limiter!LimiterAssumption, Limiter!Times, End
<1>2. /\ Counted(adm, ks, n, End) = 0
      /\ Counted(adm, ks, n - WindowLength, n) <= limit
      /\ Counted(adm, ks, n - WindowLength, n) \in Nat
      /\ Counted(adm, ks, n + WindowLength, End) = 0
      /\ Past(adm, ks, limit)
  <2>1. Counted(adm, ks, n + WindowLength, End) \in Nat /\ Counted(adm, ks, n, End) \in Nat
        /\ Counted(adm, ks, n + WindowLength, End) <= Counted(adm, ks, n, End)
    BY <1>1, CountedWithin
  <2>2. Counted(adm, ks, n - WindowLength, n) \in Nat
    BY <1>1, CountedWithin
  <2>3. QED BY <2>1, <2>2 DEF Closed
<1>3. CASE more = adm
  <2> HIDE DEF Window
  <2>1. QED BY <1>1, <1>2, <1>3 DEF Open
<1>4. CASE 1 <= limit /\ more = Admitted(adm, key, n)
  <2>1. /\ Counted(more, ks, n, End) = 1
        /\ Counted(more, ks, n - WindowLength, n) = Counted(adm, ks, n - WindowLength, n)
        /\ Counted(more, ks, n + WindowLength, End) = 0
    <3>1. Counted(more, ks, n, End) = Counted(adm, ks, n, End) + 1
      BY <1>1, <1>4, CountedMore
    <3>2. Counted(more, ks, n - WindowLength, n) = Counted(adm, ks, n - WindowLength, n)
      BY <1>1, <1>4, CountedMore
    <3>3. Counted(more, ks, n + WindowLength, End) = Counted(adm, ks, n + WindowLength, End)
      BY <1>1, <1>4, CountedMore
    <3>4. QED BY <1>2, <3>1, <3>2, <3>3
  <2>2. Past(more, ks, limit)
    BY <1>1, <1>2, <1>4, <2>1, PastKept
  <2>3. n <= n
    BY <1>1
  <2> HIDE DEF Window
  <2>4. QED BY <1>1, <1>2, <1>4, <2>1, <2>2, <2>3 DEF Open
<1>5. QED BY <1>3, <1>4

\* A request within a running window.
LEMMA WindowGoesOn ==
  ASSUME Limiter!LimiterAssumption, NEW adm \in History, NEW ks \in SUBSET RelayKeys, NEW key \in ks,
         NEW n \in Limiter!Times, NEW limit \in Nat,
         NEW old, Open(adm, ks, n, old, limit), n < old.resetAt,
         NEW win \in Window, win.count = old.count + 1, win.resetAt = old.resetAt,
         NEW more, more = adm \/ (win.count <= limit /\ more = Admitted(adm, key, n))
  PROVE  Open(more, ks, n, win, limit)
<1> DEFINE start == win.resetAt - WindowLength
<1>1. /\ n \in Int /\ WindowLength \in Nat /\ End \in Int /\ n < End /\ key \in RelayKeys
      /\ win.resetAt \in Int /\ start \in Int /\ start - WindowLength \in Int
      /\ start <= n /\ n < win.resetAt /\ win.count \in Nat
  BY DEF Limiter!LimiterAssumption, Limiter!Times, End, Open, Window
<1>2. /\ Past(adm, ks, limit) /\ old.count \in Nat
      /\ Counted(adm, ks, start, End) <= old.count
      /\ Counted(adm, ks, start, End) <= limit
      /\ Counted(adm, ks, start - WindowLength, start) <= limit
      /\ Counted(adm, ks, win.resetAt, End) = 0
  BY DEF Open, Window
<1>3. Counted(adm, ks, start, End) \in Nat
  BY <1>1, CountedWithin
<1>4. CASE more = adm
  <2>1. Counted(adm, ks, start, End) <= win.count
    BY <1>2, <1>3
  <2> HIDE DEF Window
  <2>2. QED BY <1>1, <1>2, <1>4, <2>1 DEF Open
<1>5. CASE win.count <= limit /\ more = Admitted(adm, key, n)
  <2> HIDE DEF start
  <2>1. Counted(more, ks, start, End) = Counted(adm, ks, start, End) + 1
    BY <1>1, <1>5, CountedMore
  <2>2. Counted(more, ks, start - WindowLength, start) = Counted(adm, ks, start - WindowLength, start)
    BY <1>1, <1>5, CountedMore
  <2>3. Counted(more, ks, win.resetAt, End) = Counted(adm, ks, win.resetAt, End)
    BY <1>1, <1>5, CountedMore
  <2>4. Counted(more, ks, start, End) <= win.count /\ Counted(more, ks, start, End) <= limit
    BY <1>1, <1>2, <1>3, <1>5, <2>1
  <2>5. Past(more, ks, limit)
    BY <1>1, <1>2, <1>5, <2>2, <2>4, PastKept
  <2> HIDE DEF Window
  <2>6. QED BY <1>1, <1>2, <2>2, <2>3, <2>4, <2>5 DEF Open, start
<1>6. QED BY <1>4, <1>5

\* What a window that has ended leaves behind.
LEMMA WindowEnds ==
  ASSUME Limiter!LimiterAssumption, NEW adm \in History, NEW ks \in SUBSET RelayKeys,
         NEW n \in Limiter!Times, NEW limit \in Nat,
         NEW win, Open(adm, ks, n, win, limit), win.resetAt <= n
  PROVE  Closed(adm, ks, n, limit)
<1> DEFINE start == win.resetAt - WindowLength
<1>1. /\ n \in Int /\ WindowLength \in Nat /\ End \in Int /\ n < End
      /\ win.resetAt \in Int /\ start \in Int /\ n - WindowLength \in Int
      /\ start <= n - WindowLength
  BY DEF Limiter!LimiterAssumption, Limiter!Times, End, Open, Window
<1>2. /\ Past(adm, ks, limit)
      /\ Counted(adm, ks, start, End) <= limit
      /\ Counted(adm, ks, win.resetAt, End) = 0
  BY DEF Open
<1> HIDE DEF start
<1>3. /\ Counted(adm, ks, n, End) \in Nat
      /\ Counted(adm, ks, n, End) <= Counted(adm, ks, win.resetAt, End)
  BY <1>1, CountedWithin
<1>4. /\ Counted(adm, ks, n - WindowLength, n) \in Nat /\ Counted(adm, ks, start, End) \in Nat
      /\ Counted(adm, ks, n - WindowLength, n) <= Counted(adm, ks, start, End)
  BY <1>1, CountedWithin
<1>5. QED BY <1>2, <1>3, <1>4 DEF Closed

\* With no window running, time only takes admissions out of the stretch behind.
LEMMA ClosedWaits ==
  ASSUME Limiter!LimiterAssumption, NEW adm \in History, NEW ks \in SUBSET RelayKeys,
         NEW n \in Limiter!Times, NEW limit \in Nat, Closed(adm, ks, n, limit), n < MaxNow
  PROVE  Closed(adm, ks, n + 1, limit)
<1>1. /\ n \in Int /\ n + 1 \in Int /\ WindowLength \in Nat /\ End \in Int
      /\ n - WindowLength \in Int /\ (n + 1) - WindowLength \in Int /\ n + 1 <= End
      /\ n - WindowLength <= (n + 1) - WindowLength
  BY DEF Limiter!LimiterAssumption, Limiter!Times, End
<1>2. /\ Counted(adm, ks, n + 1, End) \in Nat /\ Counted(adm, ks, n, End) \in Nat
      /\ Counted(adm, ks, n + 1, End) <= Counted(adm, ks, n, End)
  BY <1>1, CountedWithin
<1>3. /\ Counted(adm, ks, (n + 1) - WindowLength, n + 1) \in Nat
      /\ Counted(adm, ks, n - WindowLength, n) \in Nat
      /\ Counted(adm, ks, (n + 1) - WindowLength, n + 1)
           <= Counted(adm, ks, n - WindowLength, n) + Counted(adm, ks, n, End)
  <2>1. Counted(adm, ks, n - WindowLength, n) \in Nat
    BY <1>1, CountedWithin
  <2>2. QED BY <1>1, <2>1, CountedCovered
<1>4. QED BY <1>2, <1>3 DEF Closed

\* Another client's requests do not count here.
LEMMA OthersKeep ==
  ASSUME Limiter!LimiterAssumption, NEW adm \in History, NEW ks \in SUBSET RelayKeys,
         NEW key \in RelayKeys \ ks, NEW n \in Limiter!Times, NEW limit \in Nat,
         NEW more, more = Admitted(adm, key, n)
  PROVE  /\ Closed(adm, ks, n, limit) => Closed(more, ks, n, limit)
         /\ \A win : Open(adm, ks, n, win, limit) => Open(more, ks, n, win, limit)
<1>1. \A a \in Int : \A b \in Int : Counted(more, ks, a, b) = Counted(adm, ks, a, b)
  BY CountedMore
<1>2. /\ n \in Int /\ WindowLength \in Int /\ End \in Int /\ n - WindowLength \in Int
      /\ \A t \in Limiter!Times : t \in Int /\ t + WindowLength \in Int
  BY DEF Limiter!LimiterAssumption, Limiter!Times, End
<1>3. Past(adm, ks, limit) => Past(more, ks, limit)
  BY <1>1, <1>2 DEF Past
<1>4. Closed(adm, ks, n, limit) => Closed(more, ks, n, limit)
  BY <1>1, <1>2, <1>3 DEF Closed
<1>5. ASSUME NEW win, Open(adm, ks, n, win, limit) PROVE Open(more, ks, n, win, limit)
  <2> DEFINE start == win.resetAt - WindowLength
  <2>1. win.resetAt \in Int /\ start \in Int /\ start - WindowLength \in Int
    BY <1>2, <1>5 DEF Open, Window
  <2> HIDE DEF Window
  <2>2. QED BY <1>1, <1>2, <1>3, <1>5, <2>1 DEF Open
<1>6. QED BY <1>4, <1>5

\* A window after one more request of somebody it counts.
LEMMA BumpedOpen ==
  ASSUME Limiter!LimiterAssumption, admitted \in History, now \in Limiter!Times,
         NEW ks \in SUBSET RelayKeys, NEW key \in ks, NEW limit \in Nat, NEW win,
         Open(admitted, ks, now, win, limit), NEW more,
         \/ more = admitted
         \/ Limiter!Bump(win).count <= limit /\ more = Admitted(admitted, key, now)
  PROVE  Open(more, ks, now, Limiter!Bump(win), limit)
<1> DEFINE next == Limiter!Bump(win)
<1>1. /\ win \in Window /\ win.resetAt \in Int /\ win.count \in Nat /\ now \in Int
      /\ WindowLength \in Nat
  BY DEF Open, Window, Limiter!LimiterAssumption, Limiter!Times
<1>2. CASE now >= win.resetAt
  <2>1. next \in Window /\ next.count = 1 /\ next.resetAt = now + WindowLength
    BY <1>1, <1>2 DEF Limiter!Bump, Window
  <2>2. win.resetAt <= now
    BY <1>1, <1>2
  <2>3. Closed(admitted, ks, now, limit)
    BY <2>2, WindowEnds
  <2>4. more = admitted \/ (1 <= limit /\ more = Admitted(admitted, key, now))
    BY <2>1
  <2> HIDE DEF next
  <2>5. Open(more, ks, now, next, limit)
    BY <2>1, <2>3, <2>4, WindowOpens
  <2>6. QED BY <2>5 DEF next
<1>3. CASE ~(now >= win.resetAt)
  <2>1. next = [win EXCEPT !.count = @ + 1]
    BY <1>3 DEF Limiter!Bump
  <2>2. next \in Window /\ next.count = win.count + 1 /\ next.resetAt = win.resetAt
    BY <1>1, <2>1 DEF Window
  <2>3. now < win.resetAt
    BY <1>1, <1>3
  <2>4. more = admitted \/ (next.count <= limit /\ more = Admitted(admitted, key, now))
    OBVIOUS
  <2> HIDE DEF next
  <2>5. Open(more, ks, now, next, limit)
    BY <2>2, <2>3, <2>4, WindowGoesOn
  <2>6. QED BY <2>5 DEF next
<1>4. QED BY <1>2, <1>3

\* A request counted, admitted or not.
LEMMA RequestCounted ==
  ASSUME Limiter!LimiterAssumption, LimiterInv, NEW key \in RelayKeys, NEW ok \in BOOLEAN,
         Limiter!CheckRateLimit(key, ok)
  PROVE  LimiterInv'
<1> DEFINE all == Limiter!Bump(globalWindow)
           reaches == all.count <= GlobalLimit
           fresh == [count |-> 0, resetAt |-> now + WindowLength]
           own == Limiter!Bump(IF key \in Limiter!Kept THEN perKey[key] ELSE fresh)
           kept == Limiter!Kept
<1>1. /\ ok = (reaches /\ own.count <= PerKeyLimit)
      /\ globalWindow' = all
      /\ perKey' = [k \in kept \cup (IF reaches THEN {key} ELSE {}) |->
                      IF reaches /\ k = key THEN own ELSE perKey[k]]
      /\ admitted' = IF ok THEN Admitted(admitted, key, now) ELSE admitted
      /\ now' = now
  BY DEF Limiter!CheckRateLimit, Admitted
<1>2. /\ admitted \in History /\ now \in Limiter!Times /\ now \in Int
      /\ Open(admitted, RelayKeys, now, globalWindow, GlobalLimit)
      /\ GlobalLimit \in Nat /\ PerKeyLimit \in Nat /\ WindowLength \in Nat \ {0}
  BY DEF LimiterInv, Limiter!LimiterAssumption, Limiter!Times
<1>3. /\ kept \subseteq DOMAIN perKey /\ kept \subseteq RelayKeys
      /\ \A k \in kept : Open(admitted, {k}, now, perKey[k], PerKeyLimit)
      /\ \A k \in DOMAIN perKey \ kept : ~(now < perKey[k].resetAt)
  BY DEF LimiterInv, Limiter!Kept
<1>4. \A k \in RelayKeys \ kept : Closed(admitted, {k}, now, PerKeyLimit)
  <2> SUFFICES ASSUME NEW k \in RelayKeys \ kept PROVE Closed(admitted, {k}, now, PerKeyLimit)
    OBVIOUS
  <2>1. CASE k \in DOMAIN perKey
    <3>1. Open(admitted, {k}, now, perKey[k], PerKeyLimit)
      BY <2>1 DEF LimiterInv
    <3>2. perKey[k].resetAt <= now
      BY <1>2, <1>3, <2>1, <3>1 DEF Open, Window
    <3>3. {k} \in SUBSET RelayKeys
      OBVIOUS
    <3>4. QED BY <1>2, <3>1, <3>2, <3>3, WindowEnds
  <2>2. CASE k \notin DOMAIN perKey
    BY <2>2 DEF LimiterInv
  <2>3. QED BY <2>1, <2>2
<1> HIDE DEF all, own, kept
<1>5. admitted' = admitted \/ (all.count <= GlobalLimit /\ admitted' = Admitted(admitted, key, now))
  BY <1>1
<1>6. admitted' \in History
  BY <1>2, <1>5, CountedMore
<1>7. Open(admitted', RelayKeys, now, all, GlobalLimit)
  <2>1. RelayKeys \in SUBSET RelayKeys
    OBVIOUS
  <2>2. QED BY <1>2, <1>5, <2>1, BumpedOpen DEF all
<1>8. reaches => Open(admitted', {key}, now, own, PerKeyLimit)
  <2>1. admitted' = admitted \/ (own.count <= PerKeyLimit /\ admitted' = Admitted(admitted, key, now))
    BY <1>1
  <2>2. {key} \in SUBSET RelayKeys /\ key \in {key}
    OBVIOUS
  <2>3. CASE key \in kept
    <3>1. own = Limiter!Bump(perKey[key])
      BY <2>3 DEF own, kept
    <3>2. QED BY <1>2, <1>3, <2>1, <2>2, <2>3, <3>1, BumpedOpen
  <2>4. CASE key \notin kept
    <3>1. own = Limiter!Bump(fresh)
      BY <2>4 DEF own, kept
    <3>2. own = [fresh EXCEPT !.count = fresh.count + 1]
      BY <1>2, <3>1 DEF Limiter!Bump
    <3>3. fresh \in Window /\ fresh.count = 0 /\ fresh.resetAt = now + WindowLength
      BY <1>2 DEF Window
    <3> HIDE DEF fresh
    <3>4. own \in Window /\ own.count = 1 /\ own.resetAt = now + WindowLength
      BY <3>2, <3>3 DEF Window
    <3>5. Closed(admitted, {key}, now, PerKeyLimit)
      BY <1>4, <2>4
    <3>6. admitted' = admitted \/ (1 <= PerKeyLimit /\ admitted' = Admitted(admitted, key, now))
      BY <2>1, <3>4
    <3>7. QED BY <1>2, <2>2, <3>4, <3>5, <3>6, WindowOpens
  <2>5. QED BY <2>3, <2>4
<1>9. ASSUME NEW k \in RelayKeys, k # key
      PROVE  /\ Closed(admitted, {k}, now, PerKeyLimit) => Closed(admitted', {k}, now, PerKeyLimit)
             /\ \A win : Open(admitted, {k}, now, win, PerKeyLimit)
                           => Open(admitted', {k}, now, win, PerKeyLimit)
  <2>1. {k} \in SUBSET RelayKeys /\ key \in RelayKeys \ {k}
    BY <1>9
  <2>2. QED BY <1>2, <1>5, <2>1, OthersKeep
<1>10. ~reaches => admitted' = admitted
  BY <1>1
<1>11. /\ DOMAIN perKey' = kept \cup (IF reaches THEN {key} ELSE {})
       /\ reaches => perKey'[key] = own
       /\ \A k \in kept : ~(reaches /\ k = key) => perKey'[k] = perKey[k]
  BY <1>1
<1> HIDE DEF reaches
<1>12. DOMAIN perKey' \subseteq RelayKeys
  BY <1>3, <1>11
<1>13. ASSUME NEW k \in DOMAIN perKey' PROVE Open(admitted', {k}, now, perKey'[k], PerKeyLimit)
  <2>1. CASE reaches /\ k = key
    BY <1>8, <1>11, <2>1
  <2>2. CASE ~(reaches /\ k = key)
    <3>1. k \in kept /\ k \in RelayKeys /\ perKey'[k] = perKey[k]
      BY <1>3, <1>11, <1>13, <2>2
    <3>2. QED BY <1>3, <1>9, <1>10, <2>2, <3>1
  <2>3. QED BY <2>1, <2>2
<1>14. ASSUME NEW k \in RelayKeys \ DOMAIN perKey' PROVE Closed(admitted', {k}, now, PerKeyLimit)
  <2>1. k \in RelayKeys \ kept /\ ~(reaches /\ k = key)
    BY <1>11, <1>14
  <2>2. QED BY <1>4, <1>9, <1>10, <2>1
<1>15. now' = now /\ globalWindow' = all
  BY <1>1
<1>16. QED BY <1>2, <1>6, <1>7, <1>12, <1>13, <1>14, <1>15 DEF LimiterInv

\* A limiter that has admitted nothing: no client known, the window of the
\* instance as the module's variable is initialised.
LEMMA LimiterStarts ==
  ASSUME Limiter!LimiterAssumption, now \in Limiter!Times, perKey = << >>,
         globalWindow = [count |-> 0, resetAt |-> 0], admitted = Limiter!NoneAdmitted
  PROVE  LimiterInv
<1> DEFINE all == RelayKeys \X Limiter!Times
<1>1. admitted = [slot \in all |-> 0]
  BY DEF Limiter!NoneAdmitted
<1>2. /\ admitted \in [all -> Nat] /\ admitted \in [all -> Int]
      /\ \A x \in all : admitted[x] = 0
  BY <1>1
<1>3. /\ now \in Nat /\ WindowLength \in Nat /\ End \in Int /\ PerKeyLimit \in Nat
      /\ GlobalLimit \in Nat
  BY DEF Limiter!LimiterAssumption, Limiter!Times, End
<1>4. ASSUME NEW ks \in SUBSET RelayKeys, NEW a, NEW b PROVE Counted(admitted, ks, a, b) = 0
  <2> DEFINE T == Slots(ks, a, b)
             part == [y \in T |-> admitted[y]]
  <2>1. T \in SUBSET all /\ IsFiniteSet(all)
    BY SlotsFinite DEF Slots
  <2>2. IsFiniteSet(T) /\ part \in [T -> Int] /\ \A x \in T : part[x] = 0
    BY <1>2, <2>1, FS_Subset
  <2> HIDE DEF T, part, all
  <2>3. SumFunctionOnSet(admitted, T) = SumFunctionOnSet(part, T)
    BY <1>2, <2>1, SumRestricted DEF part
  <2>4. SumFunctionOnSet(part, T) = 0
    BY <2>2, SumOfZeros
  <2>5. QED BY <2>3, <2>4 DEF Counted, T
<1>5. ASSUME NEW ks \in SUBSET RelayKeys, NEW limit \in Nat
      PROVE  /\ Open(admitted, ks, now, globalWindow, limit)
             /\ Closed(admitted, ks, now, limit)
  <2>1. Past(admitted, ks, limit)
    BY <1>4 DEF Past
  <2>2. globalWindow \in Window /\ globalWindow.count = 0 /\ globalWindow.resetAt = 0
    BY DEF Window
  <2> HIDE DEF Window
  <2>3. 0 - WindowLength <= now
    BY <1>3
  <2>4. QED BY <1>3, <1>4, <2>1, <2>2, <2>3 DEF Open, Closed
<1>6. DOMAIN perKey = {}
  OBVIOUS
<1>7. \A k \in RelayKeys : {k} \in SUBSET RelayKeys
  OBVIOUS
<1>8. RelayKeys \in SUBSET RelayKeys
  OBVIOUS
<1>9. QED BY <1>2, <1>3, <1>5, <1>6, <1>7, <1>8 DEF LimiterInv, History

\* Whatever the order of clients, refusals, dropped windows and restarts, no
\* stretch of time as long as a window lets through more than twice the limit, of
\* the instance or of one client: for any limits, any window and any clients.
THEOREM RatesAlwaysBounded ==
  ASSUME Limiter!LimiterAssumption
  PROVE  Limiter!LimiterSpec => []RatesBounded
<1>1. Limiter!LimiterInit => LimiterInv
  <2> SUFFICES ASSUME Limiter!LimiterInit PROVE LimiterInv
    OBVIOUS
  <2>1. now \in Limiter!Times
    BY DEF Limiter!LimiterInit, Limiter!Times, Limiter!LimiterAssumption
  <2>2. QED BY <2>1, LimiterStarts DEF Limiter!LimiterInit
<1>2. LimiterInv /\ [Limiter!LimiterNext]_(Limiter!limiterVars) => LimiterInv'
  <2> SUFFICES ASSUME LimiterInv, [Limiter!LimiterNext]_(Limiter!limiterVars) PROVE LimiterInv'
    OBVIOUS
  <2>1. ASSUME NEW key \in RelayKeys, Limiter!Request(key) PROVE LimiterInv'
    BY <2>1, RequestCounted DEF Limiter!Request
  <2>2. CASE Limiter!Wait
    <3>1. now < MaxNow /\ now' = now + 1 /\ UNCHANGED <<perKey, globalWindow, admitted>>
      BY <2>2 DEF Limiter!Wait
    <3>2. now' \in Limiter!Times /\ now \in Int /\ now' \in Int
      BY <3>1 DEF LimiterInv, Limiter!Times, Limiter!LimiterAssumption
    <3>3. \A ks, win, limit : Open(admitted, ks, now, win, limit)
                                => Open(admitted, ks, now', win, limit)
      <4> SUFFICES ASSUME NEW ks, NEW win, NEW limit, Open(admitted, ks, now, win, limit)
                   PROVE  Open(admitted, ks, now', win, limit)
        OBVIOUS
      <4>1. win.resetAt - WindowLength <= now'
        BY <3>1, <3>2 DEF Open, Window, Limiter!LimiterAssumption
      <4> HIDE DEF Window
      <4>2. QED BY <4>1 DEF Open
    <3>4. ASSUME NEW k \in RelayKeys \ DOMAIN perKey PROVE Closed(admitted, {k}, now', PerKeyLimit)
      <4>1. {k} \in SUBSET RelayKeys /\ PerKeyLimit \in Nat
        BY DEF Limiter!LimiterAssumption
      <4>2. QED BY <3>1, <4>1, ClosedWaits DEF LimiterInv
    <3>5. QED BY <3>1, <3>2, <3>3, <3>4 DEF LimiterInv
  <2>3. CASE Limiter!ColdStart
    <3>1. /\ perKey' = << >> /\ globalWindow' = [count |-> 0, resetAt |-> 0]
          /\ admitted' = Limiter!NoneAdmitted /\ now' \in Limiter!Times
      BY <2>3 DEF Limiter!ColdStart, LimiterInv
    <3>2. (now \in Limiter!Times /\ perKey = << >> /\ globalWindow = [count |-> 0, resetAt |-> 0]
             /\ admitted = Limiter!NoneAdmitted => LimiterInv)'
      BY LimiterStarts, PTL
    <3>3. QED BY <3>1, <3>2
  <2>4. CASE UNCHANGED Limiter!limiterVars
    BY <2>4 DEF Limiter!limiterVars, LimiterInv
  <2>5. QED BY <2>1, <2>2, <2>3, <2>4 DEF Limiter!LimiterNext
<1>3. LimiterInv => Limiter!RatesBounded
  <2> SUFFICES ASSUME LimiterInv, NEW t \in 0 .. now
               PROVE  /\ Limiter!AdmittedIn(RelayKeys, t) <= 2 * GlobalLimit
                      /\ \A k \in RelayKeys : Limiter!AdmittedIn({k}, t) <= 2 * PerKeyLimit
    BY DEF Limiter!RatesBounded
  <2>1. \A ks : Limiter!AdmittedIn(ks, t) = Counted(admitted, ks, t, t + WindowLength)
    BY DEF Limiter!AdmittedIn, Counted, Slots, Limiter!SumFunctionOnSet, SumFunctionOnSet,
           Limiter!FoldFunctionOnSet, FoldFunctionOnSet, Limiter!MapThenFoldSet, MapThenFoldSet
  <2>2. /\ Past(admitted, RelayKeys, GlobalLimit)
        /\ \A k \in RelayKeys : Past(admitted, {k}, PerKeyLimit)
    BY DEF LimiterInv, Open, Closed
  <2>3. t \in Limiter!Times
    BY DEF LimiterInv, Limiter!Times, Limiter!LimiterAssumption
  <2>4. QED BY <2>1, <2>2, <2>3 DEF Past
<1>4. QED BY <1>1, <1>2, <1>3, PTL DEF Limiter!LimiterSpec, RatesBounded

(***************************************************************************)
(* A market that follows splits                                            *)
(***************************************************************************)

SplitEntry ==
  [status : {"NONE", "ANNOUNCED", "CANCELLED"}, kind : SplitKinds \cup {"CASH"}, goal : {0},
   funded : {0}, claimed : {0}, paid : {{}}]

\* The splits a book lists, whatever the asset.
Listed(b) == {id \in SplitIds : b[id].status # "NONE" /\ b[id].kind = "INFO"}

Old(splits) == ProductOnSet(Market!OldPart, splits)
New(splits) == ProductOnSet(Market!NewPart, splits)
Most(splits) == ProductOnSet(Market!LargerPart, splits)

\* What rounding may have taken from the exact price after some splits: less
\* than a unit for each of them, each unit worth at most the product of the
\* larger sides.
Rounded(posted, shown, splits) ==
  /\ New(splits) <= Most(splits)
  /\ shown * New(splits) <= posted * Old(splits)
  /\ posted * Old(splits) - shown * New(splits) <= Cardinality(splits) * Most(splits)
  /\ splits = {} => shown = posted

Since(from, done, asset) == {id \in done \ from.splits : AssetOf[id] = asset}

MarketInv ==
  /\ splitBook \in [SplitIds -> SplitEntry]
  /\ price \in [Market!Assets -> Nat]
  /\ basis \in [Market!Assets -> [price : Nat, splits : SUBSET SplitIds]]
  /\ applied \subseteq Listed(splitBook)
  /\ \A asset \in Market!Assets :
       /\ basis[asset].splits \subseteq applied
       /\ Rounded(basis[asset].price, price[asset], Since(basis[asset], applied, asset))

\* Division by the new side and multiplication back loses less than that side.
LEMMA DivisionLoses ==
  ASSUME NEW a \in Nat, NEW b \in Nat \ {0}
  PROVE  /\ a \div b \in Nat
         /\ (a \div b) * b <= a
         /\ a < (a \div b) * b + b
OBVIOUS

LEMMA TimesMonotone ==
  ASSUME NEW a \in Nat, NEW b \in Nat, NEW c \in Nat, a <= b
  PROVE  a * c <= b * c /\ c * a <= c * b
OBVIOUS

\* One more split, in numbers: p is the price shown, q the next one, after a
\* split of w new for o old shares; l is the larger of the two.
LEMMA OneMoreRounding ==
  ASSUME NEW p \in Nat, NEW q \in Nat, NEW o \in Nat, NEW w \in Nat, NEW l \in Nat,
         NEW exact \in Nat, NEW pn \in Nat, NEW pl \in Nat, NEW n \in Nat,
         o <= l, w <= l, pn <= pl, q * w <= p * o, p * o <= q * w + w,
         p * pn <= exact, exact - p * pn <= n * pl
  PROVE  /\ w * pn <= l * pl
         /\ q * (w * pn) <= o * exact
         /\ o * exact - q * (w * pn) <= (n + 1) * (l * pl)
<1> DEFINE lost == exact - p * pn
           cut == p * o - q * w
<1>1. /\ lost \in Nat /\ cut \in Nat /\ lost <= n * pl /\ cut <= w
      /\ p * pn \in Nat /\ p * o \in Nat /\ q * w \in Nat /\ n * pl \in Nat
  OBVIOUS
<1>2. exact = p * pn + lost /\ p * o = q * w + cut
  BY <1>1
<1> HIDE DEF lost, cut
<1>3. o * exact = o * (p * pn) + o * lost
  BY <1>1, <1>2
<1>4. o * (p * pn) = (p * o) * pn
  OBVIOUS
<1>5. (p * o) * pn = (q * w) * pn + cut * pn
  BY <1>1, <1>2
<1>6. (q * w) * pn = q * (w * pn)
  OBVIOUS
<1>7. /\ o * lost \in Nat /\ cut * pn \in Nat /\ q * (w * pn) \in Nat
      /\ o * exact = q * (w * pn) + cut * pn + o * lost
  BY <1>1, <1>3, <1>4, <1>5, <1>6
<1>8. cut * pn <= l * pl /\ w * pn <= l * pl
  <2>1. cut * pn <= w * pn
    BY <1>1, TimesMonotone
  <2>2. w * pn <= l * pn
    BY TimesMonotone
  <2>3. l * pn <= l * pl
    BY TimesMonotone
  <2>4. cut * pn \in Nat /\ w * pn \in Nat /\ l * pn \in Nat /\ l * pl \in Nat
    BY <1>1
  <2>5. QED BY <2>1, <2>2, <2>3, <2>4
<1>9. o * lost <= n * (l * pl)
  <2>1. o * lost <= l * lost
    BY <1>1, TimesMonotone
  <2>2. l * lost <= l * (n * pl)
    BY <1>1, TimesMonotone
  <2>3. l * (n * pl) = n * (l * pl)
    OBVIOUS
  <2>4. o * lost \in Nat /\ l * lost \in Nat /\ l * (n * pl) \in Nat
    BY <1>1
  <2>5. QED BY <2>1, <2>2, <2>3, <2>4
<1>10. (n + 1) * (l * pl) = n * (l * pl) + l * pl
  OBVIOUS
<1>11. n * (l * pl) \in Nat /\ l * pl \in Nat /\ o * exact \in Nat
  OBVIOUS
<1>12. QED BY <1>7, <1>8, <1>9, <1>10, <1>11

\* The three factors of a ratio, and the sets of splits that can be multiplied.
LEMMA RatioParts ==
  ASSUME Market!MarketAssumption
  PROVE  /\ IsFiniteSet(SplitIds)
         /\ Market!OldPart \in [SplitIds -> Nat \ {0}]
         /\ Market!NewPart \in [SplitIds -> Nat \ {0}]
         /\ Market!LargerPart \in [SplitIds -> Nat \ {0}]
         /\ \A id \in SplitIds : /\ Market!OldPart[id] = RatioOf[id].old
                            /\ Market!NewPart[id] = RatioOf[id].new
                            /\ Market!OldPart[id] <= Market!LargerPart[id]
                            /\ Market!NewPart[id] <= Market!LargerPart[id]
<1>1. IsFiniteSet(SplitIds)
  BY DEF Market!MarketAssumption, Market!IsFiniteSet, IsFiniteSet
<1>2. \A id \in SplitIds : RatioOf[id].old \in Nat \ {0} /\ RatioOf[id].new \in Nat \ {0}
  BY DEF Market!MarketAssumption
<1>3. /\ Market!OldPart \in [SplitIds -> Nat \ {0}] /\ Market!NewPart \in [SplitIds -> Nat \ {0}]
      /\ \A id \in SplitIds : Market!OldPart[id] = RatioOf[id].old /\ Market!NewPart[id] = RatioOf[id].new
  BY <1>2 DEF Market!OldPart, Market!NewPart
<1>4. \A id \in SplitIds : Market!LargerPart[id] =
        IF Market!NewPart[id] > Market!OldPart[id] THEN Market!NewPart[id] ELSE Market!OldPart[id]
  BY DEF Market!LargerPart
<1>5. Market!LargerPart \in [SplitIds -> Nat \ {0}]
  BY <1>3 DEF Market!LargerPart
<1>6. ASSUME NEW id \in SplitIds
      PROVE  /\ Market!OldPart[id] <= Market!LargerPart[id]
             /\ Market!NewPart[id] <= Market!LargerPart[id]
  <2>1. Market!OldPart[id] \in Nat \ {0} /\ Market!NewPart[id] \in Nat \ {0}
    BY <1>3
  <2>2. QED BY <1>4, <2>1
<1>7. QED BY <1>1, <1>3, <1>5, <1>6

\* A price just posted is exact.
LEMMA PostedIsExact ==
  ASSUME Market!MarketAssumption, NEW p \in Nat
  PROVE  Rounded(p, p, {})
<1>1. Old({}) = 1 /\ New({}) = 1 /\ Most({}) = 1
  BY RatioParts, ProductEmpty DEF Old, New, Most
<1>2. Cardinality({}) = 0
  BY FS_EmptySet
<1>3. p * 1 = p /\ p - p = 0 /\ p <= p /\ 0 * 1 = 0
  OBVIOUS
<1>4. QED BY <1>1, <1>2, <1>3 DEF Rounded

\* A split not yet counted keeps the rounding bounded.
LEMMA OneMoreSplit ==
  ASSUME Market!MarketAssumption, NEW splits \in SUBSET SplitIds, NEW id \in SplitIds \ splits,
         NEW posted \in Nat, NEW shown \in Nat, Rounded(posted, shown, splits)
  PROVE  /\ Market!AdjustPrice(shown, RatioOf[id]) \in Nat
         /\ Rounded(posted, Market!AdjustPrice(shown, RatioOf[id]), splits \cup {id})
<1> DEFINE o == Market!OldPart[id]
           w == Market!NewPart[id]
           l == Market!LargerPart[id]
           q == Market!AdjustPrice(shown, RatioOf[id])
           more == splits \cup {id}
           n == Cardinality(splits)
<1>1. /\ o \in Nat \ {0} /\ w \in Nat \ {0} /\ l \in Nat /\ o <= l /\ w <= l
      /\ RatioOf[id].old = o /\ RatioOf[id].new = w
  BY RatioParts
<1>2. /\ Old(splits) \in Nat \ {0} /\ New(splits) \in Nat \ {0} /\ Most(splits) \in Nat \ {0}
      /\ Old(more) = o * Old(splits) /\ New(more) = w * New(splits) /\ Most(more) = l * Most(splits)
  <2>1. IsFiniteSet(SplitIds)
    BY RatioParts
  <2>2. ASSUME NEW f \in [SplitIds -> Nat \ {0}]
        PROVE  /\ ProductOnSet(f, splits) \in Nat \ {0}
               /\ ProductOnSet(f, splits \cup {id}) = f[id] * ProductOnSet(f, splits)
    BY ONLY <2>1, splits \in SUBSET SplitIds, id \in SplitIds \ splits, f \in [SplitIds -> Nat \ {0}], ProductMore
  <2>3. /\ Market!OldPart \in [SplitIds -> Nat \ {0}] /\ Market!NewPart \in [SplitIds -> Nat \ {0}]
        /\ Market!LargerPart \in [SplitIds -> Nat \ {0}]
    BY RatioParts
  <2>4. QED BY <2>2, <2>3 DEF Old, New, Most
<1>3. q \in Nat /\ q * w <= shown * o /\ shown * o <= q * w + w
  <2>1. q = (shown * o) \div w
    BY <1>1 DEF Market!AdjustPrice
  <2>2. shown * o \in Nat
    BY <1>1
  <2> HIDE DEF q, o, w
  <2>3. /\ (shown * o) \div w \in Nat
        /\ ((shown * o) \div w) * w <= shown * o
        /\ shown * o < ((shown * o) \div w) * w + w
    BY <1>1, <2>2, DivisionLoses
  <2>4. QED BY <1>1, <2>1, <2>2, <2>3
<1>4. n \in Nat /\ Cardinality(more) = n + 1
  BY RatioParts, FS_Subset, FS_CardinalityType, FS_AddElement
<1>5. posted * Old(splits) \in Nat
  BY <1>2
<1> DEFINE e == posted * Old(splits)
           pn == New(splits)
           pl == Most(splits)
<1>6. pn <= pl /\ shown * pn <= e /\ e - shown * pn <= n * pl
  BY DEF Rounded
<1>7. pn \in Nat /\ pl \in Nat /\ e \in Nat /\ o \in Nat /\ w \in Nat
  BY <1>1, <1>2, <1>5
<1>8. posted * Old(more) = o * e
  <2>1. posted * (o * Old(splits)) = o * (posted * Old(splits))
    BY <1>1, <1>2, Exchange
  <2>2. QED BY <1>2, <2>1
<1>9. New(more) = w * pn /\ Most(more) = l * pl /\ more # {}
  BY <1>2
<1>10. Cardinality(more) = n + 1
  BY <1>4
<1> HIDE DEF o, w, l, q, n, e, pn, pl, more
<1>11. /\ w * pn <= l * pl
       /\ q * (w * pn) <= o * e
       /\ o * e - q * (w * pn) <= (n + 1) * (l * pl)
  BY <1>1, <1>3, <1>4, <1>6, <1>7, OneMoreRounding
<1>12. Rounded(posted, q, more)
  BY <1>8, <1>9, <1>10, <1>11 DEF Rounded
<1>13. QED BY <1>3, <1>12 DEF q, more

\* The price a market shows is the last one posted, rescaled once by every split
\* of its asset applied since, less than a unit lost to rounding per split: for
\* any number of splits with any ratios, assets, keepers and prices.
THEOREM PricesFollowSplits ==
  ASSUME Market!MarketAssumption
  PROVE  Market!MarketSpec => []PriceFollowsSplits
<1>1. Market!BookInit /\ Market!MarketInit => MarketInv
  <2> SUFFICES ASSUME Market!BookInit, Market!MarketInit PROVE MarketInv
    OBVIOUS
  <2>1. splitBook \in [SplitIds -> SplitEntry]
    BY DEF Market!BookInit, Market!Blank, SplitEntry
  <2>2. /\ price \in [Market!Assets -> Nat]
        /\ basis \in [Market!Assets -> [price : Nat, splits : SUBSET SplitIds]]
        /\ applied = {}
        /\ \A asset \in Market!Assets : /\ price[asset] = 0
                                        /\ basis[asset].price = 0 /\ basis[asset].splits = {}
    BY DEF Market!MarketInit
  <2>3. \A asset \in Market!Assets : Since(basis[asset], applied, asset) = {}
    BY <2>2 DEF Since
  <2>4. Rounded(0, 0, {})
    BY PostedIsExact
  <2>5. QED BY <2>1, <2>2, <2>3, <2>4 DEF MarketInv
<1>2. MarketInv /\ [Market!MarketNext]_<<splitBook, Market!marketVars>> => MarketInv'
  <2> SUFFICES ASSUME MarketInv, [Market!MarketNext]_<<splitBook, Market!marketVars>> PROVE MarketInv'
    OBVIOUS
  <2>1. ASSUME NEW caller \in Accounts, NEW next \in Accounts, Market!SetKeeper(caller, next)
        PROVE  MarketInv'
    BY <2>1 DEF Market!SetKeeper, MarketInv
  <2>2. ASSUME NEW caller \in Accounts, NEW asset \in Market!Assets, NEW p \in Prices,
               Market!SetPrice(caller, asset, p)
        PROVE  MarketInv'
    <3>1. /\ price' = [price EXCEPT ![asset] = p] /\ splitBook' = splitBook /\ applied' = applied
          /\ basis' = [basis EXCEPT ![asset] = [price |-> p, splits |-> applied]]
      BY <2>2 DEF Market!SetPrice
    <3>2. p \in Nat /\ applied \in SUBSET SplitIds
      BY DEF Market!MarketAssumption, MarketInv, Listed
    <3>3. /\ price \in [Market!Assets -> Nat]
          /\ basis \in [Market!Assets -> [price : Nat, splits : SUBSET SplitIds]]
      BY DEF MarketInv
    <3>4. /\ price' \in [Market!Assets -> Nat]
          /\ basis' \in [Market!Assets -> [price : Nat, splits : SUBSET SplitIds]]
          /\ price'[asset] = p /\ basis'[asset].price = p /\ basis'[asset].splits = applied
          /\ \A other \in Market!Assets \ {asset} :
               price'[other] = price[other] /\ basis'[other] = basis[other]
      BY <3>1, <3>2, <3>3
    <3>5. Since(basis'[asset], applied', asset) = {}
      BY <3>1, <3>4 DEF Since
    <3>6. Rounded(p, p, {})
      BY <3>2, PostedIsExact
    <3>7. ASSUME NEW other \in Market!Assets
          PROVE  /\ basis'[other].splits \subseteq applied'
                 /\ Rounded(basis'[other].price, price'[other], Since(basis'[other], applied', other))
      <4>1. CASE other = asset
        BY <4>1, <3>1, <3>4, <3>5, <3>6
      <4>2. CASE other # asset
        BY <4>2, <3>1, <3>4 DEF MarketInv
      <4>3. QED BY <4>1, <4>2
    <3>8. QED BY <3>1, <3>4, <3>7 DEF MarketInv
  <2>3. ASSUME NEW caller \in Accounts, NEW id \in SplitIds, Market!ApplySplit(caller, id)
        PROVE  MarketInv'
    <3> DEFINE asset == AssetOf[id]
               q == Market!AdjustPrice(price[asset], RatioOf[id])
    <3>1. /\ id \in Market!Splits(asset) /\ id \notin applied /\ applied' = applied \cup {id}
          /\ price' = [price EXCEPT ![asset] = q]
          /\ splitBook' = splitBook /\ basis' = basis
      BY <2>3 DEF Market!ApplySplit
    <3>2. asset \in Market!Assets /\ id \in Listed(splitBook)
      BY <3>1 DEF Market!Assets, Market!Splits, Listed, Market!At
    <3>3. /\ price \in [Market!Assets -> Nat] /\ applied \subseteq Listed(splitBook)
          /\ basis \in [Market!Assets -> [price : Nat, splits : SUBSET SplitIds]]
          /\ \A other \in Market!Assets :
               /\ basis[other].splits \subseteq applied
               /\ Rounded(basis[other].price, price[other], Since(basis[other], applied, other))
      BY DEF MarketInv
    <3> DEFINE since == Since(basis[asset], applied, asset)
    <3>4. since \in SUBSET SplitIds /\ id \in SplitIds \ since /\ Since(basis[asset], applied', asset) = since \cup {id}
      BY <3>1, <3>2, <3>3 DEF Since, Listed
    <3>5. \A other \in Market!Assets \ {asset} : Since(basis[other], applied', other) = Since(basis[other], applied, other)
      BY <3>1 DEF Since
    <3>6. basis[asset].price \in Nat /\ price[asset] \in Nat /\ Rounded(basis[asset].price, price[asset], since)
      BY <3>2, <3>3
    <3> HIDE DEF since
    <3>7. q \in Nat /\ Rounded(basis[asset].price, q, since \cup {id})
      BY <3>4, <3>6, OneMoreSplit
    <3> HIDE DEF q, asset
    <3>8. /\ price' \in [Market!Assets -> Nat] /\ price'[asset] = q
          /\ \A other \in Market!Assets \ {asset} : price'[other] = price[other]
      BY <3>1, <3>2, <3>3, <3>7
    <3>9. ASSUME NEW other \in Market!Assets
          PROVE  /\ basis'[other].splits \subseteq applied'
                 /\ Rounded(basis'[other].price, price'[other], Since(basis'[other], applied', other))
      <4>1. CASE other = asset
        BY <4>1, <3>1, <3>3, <3>4, <3>7, <3>8
      <4>2. CASE other # asset
        BY <4>2, <3>1, <3>3, <3>5, <3>8
      <4>3. QED BY <4>1, <4>2
    <3>10. QED BY <3>1, <3>2, <3>3, <3>8, <3>9 DEF MarketInv
  <2>4. ASSUME NEW id \in SplitIds, Market!Void(id), UNCHANGED Market!marketVars PROVE MarketInv'
    <3>1. splitBook[id].status \in {"ANNOUNCED", "ROOT_PUBLISHED"} /\ splitBook \in [SplitIds -> SplitEntry]
          /\ splitBook' = [splitBook EXCEPT ![id].status = "CANCELLED", ![id].funded = 0]
      BY <2>4 DEF Market!Void, MarketInv
    <3>2. splitBook' \in [SplitIds -> SplitEntry]
      <4>1. splitBook[id] \in SplitEntry
        BY <3>1
      <4>2. [splitBook[id] EXCEPT !.status = "CANCELLED", !.funded = 0] \in SplitEntry
        BY ONLY <4>1, id \in SplitIds DEF SplitEntry
      <4>3. splitBook' = [splitBook EXCEPT ![id] = [splitBook[id] EXCEPT !.status = "CANCELLED", !.funded = 0]]
        BY <3>1
      <4>4. QED BY ONLY <3>1, <4>2, <4>3, id \in SplitIds
    <3>3. Listed(splitBook) \subseteq Listed(splitBook')
      BY <3>1 DEF Listed
    <3>4. QED BY <2>4, <3>2, <3>3 DEF Market!marketVars, MarketInv
  <2>5. ASSUME NEW id \in SplitIds, NEW kind \in SplitKinds, Market!Announce(id, kind), UNCHANGED Market!marketVars
        PROVE  MarketInv'
    <3>1. splitBook[id].status = "NONE" /\ splitBook \in [SplitIds -> SplitEntry]
          /\ splitBook' = [splitBook EXCEPT ![id].status = "ANNOUNCED", ![id].kind = kind]
      BY <2>5 DEF Market!Announce, Market!At, MarketInv
    <3>2. splitBook' \in [SplitIds -> SplitEntry]
      <4>1. splitBook[id] \in SplitEntry
        BY <3>1
      <4>2. [splitBook[id] EXCEPT !.status = "ANNOUNCED", !.kind = kind] \in SplitEntry
        BY ONLY <4>1, id \in SplitIds, kind \in SplitKinds DEF SplitEntry
      <4>3. splitBook' = [splitBook EXCEPT ![id] = [splitBook[id] EXCEPT !.status = "ANNOUNCED", !.kind = kind]]
        BY <3>1
      <4>4. QED BY ONLY <3>1, <4>2, <4>3, id \in SplitIds
    <3>3. \A k \in SplitIds \ {id} : splitBook'[k] = splitBook[k]
      BY <3>1
    <3>4. Listed(splitBook) \subseteq Listed(splitBook')
      BY <3>1, <3>3 DEF Listed
    <3>5. QED BY <2>5, <3>2, <3>4 DEF Market!marketVars, MarketInv
  <2>6. CASE UNCHANGED <<splitBook, Market!marketVars>>
    BY <2>6 DEF Market!marketVars, MarketInv
  <2>7. QED BY <2>1, <2>2, <2>3, <2>4, <2>5, <2>6 DEF Market!MarketNext
<1>3. MarketInv => Market!PriceFollowsSplits
  <2> SUFFICES ASSUME MarketInv, NEW asset \in Market!Assets
               PROVE  LET since == (applied \ basis[asset].splits) \cap Market!Splits(asset)
                          exact == basis[asset].price * Market!Product(Market!OldPart, since)
                          shown == price[asset] * Market!Product(Market!NewPart, since)
                      IN  /\ shown <= exact
                          /\ exact - shown <= Market!Cardinality(since) * Market!Product(Market!LargerPart, since)
                          /\ since = {} => shown = exact
    BY DEF Market!PriceFollowsSplits
  <2> DEFINE since == (applied \ basis[asset].splits) \cap Market!Splits(asset)
  <2>1. since = Since(basis[asset], applied, asset)
    BY DEF MarketInv, Since, Listed, Market!Splits, Market!At
  <2>2. /\ Rounded(basis[asset].price, price[asset], since)
        /\ price[asset] \in Nat /\ basis[asset].price \in Nat
    BY <2>1 DEF MarketInv
  <2> HIDE DEF since
  <2>3. /\ Market!Product(Market!OldPart, since) = Old(since)
        /\ Market!Product(Market!NewPart, since) = New(since)
        /\ Market!Product(Market!LargerPart, since) = Most(since)
    BY DEF Market!Product, Old, New, Most, ProductOnSet, Market!FoldFunctionOnSet, FoldFunctionOnSet,
           Market!MapThenFoldSet, MapThenFoldSet
  <2>4. Market!Cardinality(since) = Cardinality(since)
    BY DEF Market!Cardinality, Cardinality
  <2>5. since = {} => New(since) = 1 /\ Old(since) = 1
    BY RatioParts, ProductEmpty DEF Old, New
  <2>6. since = {} => price[asset] * New(since) = basis[asset].price * Old(since)
    BY <2>2, <2>5 DEF Rounded
  <2>7. /\ price[asset] * New(since) <= basis[asset].price * Old(since)
        /\ basis[asset].price * Old(since) - price[asset] * New(since)
             <= Cardinality(since) * Most(since)
    BY <2>2 DEF Rounded
  <2>8. QED BY <2>3, <2>4, <2>6, <2>7 DEF since
<1>4. QED BY <1>1, <1>2, <1>3, PTL DEF Market!MarketSpec, PriceFollowsSplits
=============================================================================
