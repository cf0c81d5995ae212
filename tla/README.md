# Parvalon: a verification project

Parvalon settles corporate actions of tokenized stocks on chain.  An issuer
announces an action in a registry contract, takes a snapshot of the holders at
the record block off chain, publishes the Merkle root of what each holder is
due, and the payout is funded and claimed through a distributor contract.
Monitors, a subgraph, a web app, an SDK and agents observe and drive the two
contracts from outside.

This directory models that system in TLA+, checks it with TLC on small
instances and proves its central properties with TLAPS.

## 1. Inventory

| Component | State it keeps | Operations | What makes it hard |
|---|---|---|---|
| `CorporateActionRegistry.sol` | `_actionCount`, `_actions`, `_assetIssuer`, the action source, `DISTRIBUTOR_ROLE`, pause | announce, publishRoot, cancelAction (issuer); markClaimable, markFinalized, cancelPublishedAction (distributor role); setAssetIssuer, setActionSource, roles, pause (admin) | one status word written by five functions under three authorities; a block clock that differs between L1 and L2; issuers and roles that change under a running action |
| `DividendDistributor.sol` | `_claimed` bitmaps, `_funded`, `_claimedTotal`, pause; a pooled balance per token | fund, claim, sweepUnclaimed, cancelPublishedAction, pause | all actions of a token share one balance; nothing on chain relates a root's leaves to the published total; fee-on-transfer tokens; claims race the sweep at the deadline; every call spans two contracts and a token |
| `AdminActionSource.sol`, `FunctionsActionSource.sol`, `functions/` | attestations; requests in flight | attest, revoke, setAutoAttest; requestAttestation, handleOracleFulfillment | late, lost or reordered oracle answers; attestations that outlive their use |
| `SplitAwareCollateral.sol`, `SplitAdjuster.sol` | keeper, price, applied flags | setKeeper, setPrice, applySplit | a keeper and a split race for one price; rounding |
| `tooling/snapshot` | the scan's position and chunk size, folded balances; the output file and its pin | scan, fold, derive entitlements, build and verify trees; the command line, pinning, sharding | a provider that truncates, fails or reorganises between two calls; retries; rounding of pro-rata amounts; kills between the pin and the two writes |
| `tooling/monitor` | last pause flags, cooldowns, claim-failure window, funding transactions seen | start and stop, poll, subscriptions, checks, notify, configuration | reads of two contracts that are not one snapshot; events handled out of step with polls; handlers that are never awaited |
| `subgraph` | entities folded from events | one handler per event | the order of logs in a transaction; blocks that are dropped; an event without a handler leaves a stale field |
| `app` API routes | proof, receipt and file caches; rate-limit windows | actions, claim-tx, proof, relay-claim | negative answers cached for ever; reads of three moments in one answer; many requests in flight |
| `app` panels | console step and id, row phase and hash, last read count | announce, publish, fund, claim, mint | transactions sent without waiting for receipts; a row that forgets what it sent; decimals found by token, chain and environment |
| `packages/sdk`, `examples/agent` | a wallet / the agent's positions | reads, writes, event streams, claims; react to announcements | approve-then-fund on a wallet others use; streams joined late |
| scripts, infra, CI, `contracts/lib` | none | deployment; vendored code | — |

Interactions.  The distributor calls the registry synchronously inside its own
transactions (`actionView`, `assetIssuer`, the three `mark*` calls); the
registry calls the configured source inside `announceAction`.  Tokens are
called by the distributor.  Everything off chain reads the contracts through
RPC calls that are not atomic with each other, or through events.

What makes each part correct:

* registry: an action's terms never change, its status only moves along the
  documented graph, a published action is a cash dividend with a root, a target
  and a record block in the past;
* distributor: for every token it holds at least what it owes; no action is
  ever paid from another's deposit; its books agree with the registry's status;
  no leaf is paid twice; an honest leaf is always payable and, with time,
  paid; money moves only in its window;
* sources: only a vouched announcement is recorded, and a verdict stands until
  a newer one replaces it;
* snapshot: every transfer up to the record block is counted exactly once, and
  the sum of the entitlements never exceeds the published total;
* monitor: a page exactly when the contracts fall short, no anomaly reported of what the
  contracts do of their own, and a lasting shortfall is paged over and over; while it runs it polls;
* subgraph, event streams, lists: what they show is the contracts' storage at some
  block, a status is never ahead of its money, and the index catches up;
* app: what it calls paid has been paid, its proofs come from the right file, its
  amounts are in the token's decimals, its deposits have their allowance;
* market: the price of an asset is the posted one, rescaled once per split.

## 2. Modules

| Module | Models |
|---|---|
| `CorporateActionRegistry` | the registry contract: one action per function that writes storage |
| `DividendDistributor` | the distributor composed with the registry and the payout tokens |
| `IsolatedVaults` | the abstract promise of the distributor: one vault per action |
| `ActionBook` | the abstract picture of both contracts: one record per action |
| `ActionFeed` | that book as a chain: calls, the transactions they are made in, the events of each, dropped blocks, the pooled balance |
| `ActionSource` | the admin and the oracle source behind `announceAction`, swapped at run time; refines the registry |
| `SplitCollateral` | the market that rescales prices for the registry's splits |
| `Entitlements` | the pure half of the snapshot tool: fold, exclusions, withholding, leaves, artifact, verifier |
| `ClaimBuilder` | the SDK's claims over that artifact, up to the last payment |
| `LogCollection` | the abstract promise of a scan: every block read exactly once |
| `SnapshotScan`, `ParallelScan` | the sequential scanner against a moving chain and a limited provider, and the concurrent one |
| `SnapshotRun` | the command line: options, generation, pin, writes, kills, next run |
| `ProofStore` | sharded and whole proof files, and the two app routes that cache them |
| `Monitor` | a poll, read by read, with its checks and the notifier's cooldown |
| `MonitorEvents` | the monitor's event handlers, one task per log |
| `MonitorLoop` | start, stop, a subscription that may fail to open, and the ticks that reschedule themselves |
| `MonitorConfig` | flags, environment and deployments file, field by field |
| `Subgraph` | the handlers and the store the node rolls back |
| `EventWatch` | the SDK's six event streams and the agent's decision |
| `ActionViews` | the list of actions the app and the SDK read, call by call |
| `RelayLimiter` | the relay's two rate-limit windows |
| `ClaimDesk` | a holder's panel and row, the relay behind it (over `RelayLimiter`) and the chain |
| `IssuerConsole` | the console's transaction sequence and a script on the same wallet |
| `AppTokens` | which registry, token and decimals each build of the app and the agent use |
| `SnapshotTools`, `Clients` | the snapshot tools and the programs at the edges side by side, each an instance with parameters of its own, for the proofs and TLC alike |
| `FiniteSums` | lemmas about sums and products of functions over finite sets, and about folds in a chosen order |
| `RegistryProofs`, `IsolatedVaultsProofs`, `DistributorProofs`, `ActionSourceProofs`, `SnapshotProofs`, `ReaderProofs`, `ClientProofs` | the theorems of section 4 |
| `MCRegistry`, `MCDistributor`, `MCActionSource`, `MCSnapshot`, `MCEntitlements`, `MCOffchain`, `MCMonitor` | instances for TLC |

How the modules compose.  `DividendDistributor` extends `CorporateActionRegistry`;
it implements `IsolatedVaults` (its money) and `ActionBook` (what a reader can see)
by two refinement mappings.  Every module that only reads the contracts stands on
`ActionBook`, directly or through `ActionFeed`: what it can meet is everything the
book allows, and `ImplementsBook` shows that the contracts allow no more.  `ClaimDesk`
extends `RelayLimiter`, `ClaimBuilder` extends `Entitlements`, and the scanners
implement `LogCollection`.  The remaining modules share nothing but files or
addresses, which appear in each as inputs; `SnapshotTools` and `Clients` put them
side by side and name what is checked and proved of each.

How state and actions correspond to the code.  A transaction is atomic, so each
external function is one action whose guard is the conjunction of the function's
checks; a revert is a step that is not enabled.  A call into another contract
is part of the caller's action: `Fund` contains the token transfer and, when it
completes the funding, `MarkClaimable` with its role check, so that a revoked
role disables the whole deposit.  `PROJECT.json` maps every definition to the
lines it stands for.

Abstractions.  A Merkle root is the set of leaves that verify against it
(keccak256 is taken to be collision free).  `metadataURI`, `holderCount` and
events are left out of the contracts' state: no branch reads them.  Allowances
are left out: a `transferFrom` without allowance is a deposit that does not
happen.  `actions` holds the zero struct for ids that were never announced, as
a mapping does; `Exists` is the code's own test on it.  In the registry alone
the action source may refuse any announcement, which covers every source;
`ActionSource` then models the two sources of the repository and refines it.
There a data hash is the record of the fields that are hashed, so two hashes are
equal exactly when the fields are.  What a request sends to the script is the data the
admin configured, whatever fields the request hashes (`SetRequestData`,
`RequestAttestation`); the comment on `requestAttestation` leaves carrying the fields
over to a production builder that is not in this repository.  The vendor script is its
list of comparisons, over a ticker that is not part of the hash, and its answer is
true, false or an error; its optional arguments, ex-date and split ratio, can only turn
a yes into a no, which it may say at any time.  Balances and accounting are
uint256 values up to `MaxUint`; an operation that would exceed it is not
enabled, as checked arithmetic reverts.  The L2 height and the timestamp
saturate at `MaxBlock` and `MaxTime`, above every constant they are compared
with, so later times are indistinguishable.  A fee-on-transfer token debits the
sender in full and credits the receiver net of the fee, which goes to `Sink`,
as the repository's mock does; other token behaviours (rebasing, callbacks) are
not modelled.

In the scanners the logs of one block are one value and what a request returns
is the chain's value of each block at that moment: the chain may change between
any two requests.  Splitting the fold (`Entitlements`) from the scan is sound
because the fold does not depend on the order of the logs, which
`SharesFollowLogs` says.  Backoff delays are not modelled; a request takes as long
as it takes.  A reorganisation replaces one of the last `ReorgDepth` blocks, several
in several steps, without lowering the head.  In `Entitlements` addresses are
numbers (the tool sorts them numerically), the tool always tracks the withholding
rate (a run without it writes what rate 0 writes, less the gross amounts), and the
artifact's descriptive fields are left out.  A file that reaches the verifier may lack
any of the optional fields; it lists an address once (two spellings of one address are
left out), and the proof beside a claim leads to the root exactly when the claim's leaf
is one of the root's; in `SnapshotRun` an artifact is known by
what determines it, and a CID by the bytes it addresses.

`ActionBook` leaves out time, pauses, issuers and roles: they only forbid steps.
`ActionFeed` gives each call to the contracts a block of its own with its events in the
order the contracts emit them, and names the transaction the call was made in: a
transaction makes one call or several in a row, and is dropped whole.  A read pinned to a
height sees that block's state, an unpinned one the latest.  Readers may thus look between
two calls of one transaction, which a real chain does not show them: what is true of every
such reader is true of the real ones.  The theorems are about transactions of any number
of calls; in TLC's runs the `listener` meets two deposits in one transaction, every other
program one call in each.  In `Monitor` one unit of time is one poll interval, the
pooled balance may leak (the faulty token of its threat model), and alert texts,
Slack and webhook deliveries are left out.  In `MonitorEvents` the actions that the
plausibility checks flag are a constant, since those checks are comparisons of the
announced terms with thresholds.  The verdict on a large deposit is exact there, while `checks.ts:415` divides the amounts
as floating-point numbers; no property depends on the difference.  In `EventWatch` a
subscription survives, as the client library's does.  No watcher looks at `removed`: a log
that a reorganisation took back is handed on like any other.  Its streams are therefore
checked over chains that lose no block.  In `RelayLimiter` the keys, limits and window length are small but
relate as the real ones do.  In `ClaimDesk` the app's chain is one action's status,
one bit and the claims that were broadcast.  In `IssuerConsole` a transaction is
mined in the order it was sent, as nonces order them, and may revert.  In `AppTokens`
an amount is known by the number of decimals it was written with.  In
`SplitCollateral` `mulDiv`'s 512-bit product is the integers'.

## 3. Runs

| Run | Instance | Question |
|---|---|---|
| `registry` | 2 actions, 2 issuers, 2 possible distributors, 2 roots, totals 0..2, one announcement per branch and per revert reason, heights 0..2; and 2 vaults, 2 coins, amounts 0..3 | can any order of calls move an action back, change its terms, or publish too early; does the vaults' promise keep the pool covered |
| `pool` | 2 dividends in one token; an honest root and one that promises too much and reuses an index; 2 claimants; supply 4 | can one action pay from another's deposit; are honest leaves always payable; is it a vault system |
| `edge` | 1 action, a token that keeps half of every transfer, 2 issuers in succession, a leaf naming the distributor, deadlines absent, equal and later than the payable time | do the books of the two contracts agree through every partial failure; is the window respected; is every honest leaf settled; do readers see only what the book allows |
| `source` | 1 action, 2 oracle requests, 2 sets of fields, 2 configurations of the script's data (one the vendor bears out), both sources; nobody becomes issuer of the second stock, no pause (`MCSpec`) | can anything be recorded that no attester vouched for and no request answered yes had hashed; does each answer count once |
| `snapshot` | one of five tools per behaviour, below | is every log counted once, is the artifact payable and exactly verified, does the pin match, are served proofs the right ones, do scans end |
| `offchain` | one of fourteen programs per behaviour, below | is what each program reports, pages, shows or sends right, whatever the chain does meanwhile |
| `app_rates`, `source_fields`, `entitlements_index`, `scan_range`, `monitor_info`, `console` | as their modules | the six disagreements below |

Why the bounds are enough for the contracts: two actions are what pooling needs
to go wrong, and the third only repeats the second; a total of 2 lets a deposit be
partial, complete or too large; two leaves let one claim precede another, and a
time range up to 3 has instants before, at and after both `payableAt` = 1 and
`claimDeadline` = 2.  In `pool` the admin's and issuers' rights are not reduced:
pauses, role revocation and cancellation interleave with both actions.
Two requests let answers cross, and a request outlive the source it was sent for.
The theorems of section 4 remove the bounds for every safety property of the passing runs
and for the refinements to vaults, book and registry; what stays bounded is liveness, named
at the end of that section.

`registry` checks two modules that know nothing of each other in one run (`part` says
which a behaviour has).  `snapshot` and `offchain` do the same for programs that run
beside each other and write nothing another reads, so running one per behaviour loses
no interleaving:

| Tool | Bounds and what they reach |
|---|---|
| `sequential` | blocks 1..6, head up to 8, reorganisations of 2 blocks behind 2 confirmations, windows of 3 against answers of 2, 2 retries: windows it can and cannot read, shrink, regrow, a cut last window |
| `parallel` | blocks 1..10, windows of 4 against a limit of 2 (splits once or, on a rate limit, twice), 2 workers, 2 attempts |
| `fold` | all histories of at most 2 transfers between 2 holders and the zero address, 3 longer ones over 3 holders; 2 rates, 3 withholdings; any claims dropped or one changed, alone or with the totals and the root brought in line, a header field changed, any renumbering, and 4 files of other producers: one that lists nobody under a root that pays, a shared slot, missing optional fields; claims until nothing is left.  A denominator of 4 and a unit of 2 make both divisions round |
| `cli` | any options, two histories between runs, kills at every step, two pinned documents: a lost answer and a repeated pin |
| `store` | a sharded and a whole action, files written one after the other while both routes answer and cache, restarts, a scan span shorter than the chain |

| Program | Bounds and what they reach |
|---|---|
| `patrol` | 1 dividend, 5 blocks, a leak, one claim per window: torn reads, a failed read, cooldown of 1 |
| `vigil` | 4 blocks, a leak, pauses of the distributor, cooldown of 2: liveness of paging among other alerts |
| `listener` | 1 dividend in up to two deposits, of one transaction or of two, 4 calls, each log delivered at most twice, late and failing reads |
| `loop` | four ticks alive at once, any starts and stops, a `subscribe()` that succeeds or throws at either of its watches |
| `indexer`, `follower` | 2 actions of either kind, 5 blocks of which the last may be dropped; a smaller one for liveness |
| `watcher` | 1 action of either kind, all six streams, started anywhere, any batches, 6 blocks (a whole life of an action) |
| `lister` | 2 dividends, 4 blocks between any two reads, failing reads |
| `desk` | 1 holder, 2 clicks, a rival claim, a sweep, a relay that admits 2 requests of a client and 3 in all, lost answers, refetches |
| `limiter` | the same limits, 2 clients, a map that remembers 1, time for two windows, restarts |
| `console` | 1 action, 5 transactions, a script with 2 of them that never awaits (one that does can do no more), reverts, refused signatures |
| `resolver` | every combination of set, unset and malformed sources of each field |
| `builder` | every environment and set of files, one amount written by one build and read by another |
| `market` | 3 actions over 2 assets with ratios 4:1, 2:3 and 1:5, a change of keeper |

The readers of the chain share their constants, those of the largest; `Reach` in `MCOffchain`
says how much of the chain's life each of them meets: which actions, kinds, claims, pauses
and leaks, how many blocks, and whether the last one may be dropped (only under the index).
The desk and the limiter share theirs.

Fairness.  `edge`: time passes (blocks are produced whatever the
contracts do), a pause of the distributor is eventually lifted (the pauser's
mandate is an emergency stop), and every leaf is submitted again whenever it is
claimable infinitely often (a claim needs no permission: holders, relayers and
agents submit it).  Nothing is assumed of issuers, of the admin or of the
registry's pause, and nothing forces a sweep.  `snapshot`: the process
runs, and each request is answered or rejected in the end (the client's
timeout rejects it); nothing is assumed about which of the two.  `offchain`:

* monitor: its timer fires, its reads and the notifier end, time passes (weak);
  each kind of read succeeds in the end if asked again and again (strong: a provider
  may fail any number of times, and a poll starts over each time);
* loop: a poll returns, because `pollOnce` catches its errors, and a timeout fires;
* subgraph: the node indexes and undoes blocks (weak);
* desk: the page polls (weak, `refetchInterval`), and its two lookups succeed in the
  end (strong, as the polls start them over).

No fairness is given to the chain, to issuers or to holders there.

Six runs show where the code and a sentence of the repository disagree:

* `source_fields`: `functions/corporate-action-source.js:9-12` says the hash is computed
  from the exact fields sent to the DON, so that it cannot vouch for fields it did not
  verify, and `FunctionsActionSource.sol:104` repeats it.  `requestAttestation` hashes its
  arguments and sends the admin's `requestData` (line 124), which nothing ties to them.  Of
  what is sent the script compares the ticker, the type, a dividend's rate and, if given,
  ex-date and ratio, never the payout token, the record block or the deadlines.  In the run
  a dividend is attested whose payout token was neither sent nor compared.
* `entitlements_index`: `docs/INTEGRATION.md:86` calls `index` the holder's unique
  position.  `verifyProofs` accepts a file in which two holders share one; the
  distributor then pays only the first who claims.
* `scan_range`: the comment at `tooling/snapshot/src/balances.ts:71` promises to shrink
  to `minChunk` before declaring the provider unusable.  A retry repeats the rejected
  window; only the window after it shrinks, so a window whose answer exceeds the
  provider's limit aborts the scan.
* `monitor_info`: `tooling/monitor/README.md:5` says the monitor pages when the solvency
  invariant breaks.  Once an informational action exists its payout token, `address(0)`,
  is among the tokens whose balance is read; the read throws, every poll ends as
  `rpc_error`, and no shortfall is paged any more.
* `console`: `app/src/components/IssuerConsole.tsx:266` says the action is now claimable.
  No receipt is awaited, so the id may be that of an earlier action and the deposit may
  still fail.
* `app_rates`: `app/src/lib/tokens.ts:9` asks for the token's real decimals everywhere;
  the feed shows rates with 18 while the console writes them with 6 on the testnet.

Every property of a passing run has a mutant in `PROJECT.json`: an operator marked `Mutant` in
the module, a plausible slip in the code it maps to, under which TLC finds the
property violated.

## 4. Proofs

All theorems hold for every value of the constants that satisfies the named
assumptions: any sets of accounts, tokens, roots and leaves, any fee up to 100
percent, any number of actions, any uint range.

* `RegistryProofs`.  `RegistryInv` = types, `IdsDense`, `PublishedSound`.
  `IdsDense` is the strengthening: it says the next id still holds the zero
  struct, which `announceAction` overwrites, so nothing recorded is lost.
  From it: `RegistryTypeCorrect`, `RegistryPublishedSound`,
  `RegistryLifecycleForward`.
* `IsolatedVaultsProofs`.  The pool of each coin covers the sum of the vaults
  that hold it; the sums are the library's folds, whose behaviour under a
  one-point update is proved in `FiniteSums` from the well-foundedness of
  strict inclusion (no induction theorem with an operator parameter is used).
* `DistributorProofs`.  `DistInv` adds to it `CashHasToken` (the announcement's
  check on the token, which no later call repeats), the types of the books
  and `Books(id)` for every action.  `NextIsRegistryStep` shows each step of the
  pair to be a registry step or a registry stutter, so the registry lemmas are
  reused (`ImplementsRegistry`); one lemma per operation shows that it keeps the
  money part.  From it: `TypeCorrect`, `BooksAlwaysMatch`, `ClaimsStayInWindow`.
  Its second part is the refinement: under the mapping of `DividendDistributor` every
  step opens, fills, pays, closes or gives to one vault, or does nothing
  (`VaultRefinement`).  The vaults' theorem, instantiated with the mapping, then
  gives `AlwaysSolvent` without another induction over the contract's steps.
  In the third, `SumsUp` says of every action that `_claimedTotal` is the
  sum of the leaves its bitmap marks; it is kept because a leaf is paid only while
  its index is unmarked, so the marked set grows by exactly that leaf (with unique
  indices), and `FiniteSums` says what one more member does to a sum.  From it:
  `ClaimsAlwaysAddUp`.  `HonestLeavesAlwaysPayable` then needs no induction: the
  marked leaves and one more are a part of all the leaves, whose sum an honest total
  covers (`SumMonotone`), and `AlwaysSolvent` puts the escrow in the balance.  The
  last part shows one step of `ActionBook` per operation (`BookRefinement`): what the
  off-chain programs are checked against is all the contracts can show them, for any
  constants.
* `ActionSourceProofs`.  `SourceInv` adds to the types that every recorded action
  is `Backed`: under the attester by a call that vouched for exactly its fields, under the
  oracle by a request that hashed exactly its fields and was answered yes, on data the
  vendor's feed bears out.  That those data are about the same fields is what the code does
  not ensure (`source_fields`), and `GateHolds` does not claim it.  The registry's invariant carries over because each step is a registry step
  (`GateRefinesRegistry`).
* `SnapshotProofs`.  `ScanInv` says that what was collected is the prefix of the
  range below the cursor, and that once the gate was passed it stays passed: the
  head only grows, so every later reorganisation lies above the record block.  The
  prefix also gives `ScanCollects`: a block below the cursor was read once, one above
  it never, and the scan is complete when the cursor has passed the record block.
  `ParallelInv` does the same for the concurrent scanner, where there is no prefix: the
  blocks collected, the windows on the workers' stacks and the windows nobody has taken
  are disjoint and together the range, and a worker's stack is in order, so a block in an
  answer was not collected before (`ParallelScanCollects`).  `CliInv` relates the file,
  the pinned documents and the point a run has reached (`CidsMatchFiles`); `StoreInv` says
  of every cached entry which files it was read from and that files only appear
  (`AnswersAlwaysTrue`).
  The second half is the file itself, for any number of holders, any history of transfers
  and any rates.  What a fold over the logs gives is found without induction over
  sequences: the library's fold is a table over the subsets of the logs' positions, two such
  tables agree and one exists (`FoldTablesAgree`, `FoldTableExists`, by the
  well-foundedness of inclusion), and the table of balances is everywhere what a holder
  received less what it sent; reading the logs backwards reindexes that sum
  (`SumReindexed`).  Hence `SharesAlwaysFollowLogs`, with `SumRounded` for what two
  divisions per holder can lose.  `FileInv` says that an unaltered file is the one the
  logs give, and that an altered or replaced one is at least of the artifact's format,
  whoever wrote it; what the verifier then checks of it is enough for `VerifierExact`, so
  the theorem is about every file that format allows.  It has two cases, as the code has:
  without claims no root is derived, and all an accepted file says is that it promises
  nothing.  `PaidInv` says that the deposit holds the sum of the shares whose slots are free.
  Slots are the ranks of the eligible holders, a bijection onto an initial segment, so
  the leaves are as many as the holders and their sum reindexes to the sum of the shares
  (`ArtifactsPayable`, `VerifierExact`, `HoldersAlwaysPaid`).
* `ReaderProofs`.  `BookOK` holds the books of one action to its status and `Later` is
  what an action may show after what it showed; both are kept by every action of
  `ActionBook`.  `FeedInv` carries them along the chain: each block is sound, later than
  the ones before it, and its events name what they say they do.  On this rest three
  readers.  `ViewInv`: a read binds the entry to some height not after the present, so a
  total read before or after its status is bounded by it (`ListingsCoherent`).
  `ListenInv`: what a handler has read, and what it remembers of deposits, follows from the
  deliveries of the event's log so far; for deposits, from all deliveries that share action
  and transaction, of which the first handled leaves the key the others find
  (`RepeatsAloneFlagged`, `LateReadsHarmless`).
  `PollInv`: the accounts read so far are those of the pinned height, and
  `ObligationIsOwed` equates the monitor's sum over them with the contracts' sum over
  all actions, because those it skips owe nothing (`PagesForShortfalls`).

  The two readers that fold the whole sequence of events need to know that a block's events
  are all that changed in it and nothing less.  `LinkInv` says so of every two
  consecutive blocks: they are `Linked`, either `Quiet` (the books are equal and no event
  is about an action) or the `Turn` of exactly one action, whose one or two logs spell
  out the difference (`Announces`, `Publishes`, `Funds`, `Pays`, `Sweeps`, `Voids`; where an
  operation emits two, their order is part of the formula).  It survives dropped blocks,
  since a reorganisation only cuts the chain.
  `IndexInv` adds that the store of every indexed block `Matches` the book of that same
  block, also when the chain no longer holds it: that is what makes undoing sound, because
  the block the index falls back to brings its own store.  Per action it compares the `Card`
  of the store (entity, sums of the child records, slots claimed) with the book (`Mirrors`);
  `EventPosts` says what each handler does to the card of its own action and that it
  `Spares` the others, `BlockMirrors` folds the one or two events of a block,
  and `KeysGrow` says that a record's key, made from block and position, is fresh, so no
  record overwrites another (`EntitiesAlwaysMatch`, for any depth of reorganisation).
  `StreamInv` says of each stream what was told between the two heights (`Tells`), one case
  for each topic.  It is stronger than `Follows`: a status log needs a status that is not
  NONE and a root needs a positive target, else one more block could contradict what was
  told.  A batch of blocks is one step of the model but any number of blocks of the
  chain: `BatchTells` carries `Tells` block by block along the fold, again
  by the least counterexample instead of an induction theorem (`StreamsAlwaysTell`).
* `ClientProofs`.  One invariant for each program at the edges: `LoopInv` (a running
  monitor has a tick, and at most the one subscription of its latest start), `ResolverInv` and `AppInv` (what was resolved or written follows from
  the inputs: `SettingsResolved`, `RegistryAlwaysShared`), `DeskInv` (a transaction the row or the history trusts is on the
  chain), `ConsoleInv` (the wallet's transactions are in order, the allowance covers what
  was approved and not yet spent, and whatever else was spent has its culprit),
  `LimiterInv` and `MarketInv`.  `LimiterInv` says of every client which stretches of time
  its window still bounds and which are over; two windows cover any stretch of one
  window's length, hence the factor two in `RatesAlwaysBounded`.  `MarketInv` bounds
  what rounding has taken by one unit per split, each worth the product of the larger
  sides of the ratios; `OneMoreRounding` is the arithmetic of one more split and
  `FiniteSums` the product over one more member (`PricesFollowSplits`).

Assumptions.  The contracts' modules state theirs as `ASSUME`.  A module that others
instantiate states them as a definition, which is a hypothesis of its theorem and which
`MCOffchain` and `MCSnapshot` assume of their instances (`InstanceAssumption`), so TLC
evaluates them: `FeedAssumption` (ids counted from one, amounts that are naturals, a token
for every action), `CoinAssumption` (finitely many tokens, none of them the zero address),
`ParallelAssumption` (a range that is not empty, a positive width), `FoldAssumption` (transfers of natural numbers among a last address and
those before it, a withholding of at most the whole, positive units, files of the artifact's
format), `StoreAssumption` (no
id is one of the words for no id), `ConfigAssumption` (a deployments file has a name and
what the deployment script writes), `ConsoleAssumption`, `LimiterAssumption` (finitely many
clients, a positive window; the limits may be 0) and `MarketAssumption` (positive ratios, which the contract
checks).  The theorems about lists, event
handlers, polls and event streams also assume `NoBlockLost`, that the behaviour drops no
block: a dropped block can take a deposit with it between two reads that are not pinned,
after the alert, or after the payload was handed on, and then what was reported was true
of a block that is gone.  `Reach` in `MCOffchain` lets only the `indexer` and the
`follower` lose a block for the same reason.  `EntitiesAlwaysMatch` needs no such assumption.

Model-checked only: liveness, which is outside the prover's reach
(`HonestClaimsSettle`, `ScansEnd`, `ShortfallPagedAgain`, `StoppedComesToRest`,
`CatchesUp`, `HolderSeesPayment`), each under the fairness of section 3.  No safety
property of a passing run is left to TLC alone.

## 5. Plan

1. `CorporateActionRegistry`, `DividendDistributor`, `IsolatedVaults`: done, with the
   theorems above.
2. `ActionSource`: done, proved for any number of requests.
3. The snapshot tooling from the logs to the served proof: done.
4. The book and every program over it (monitor, subgraph, SDK and agent, app, market):
   done.
5. Proofs: done for every safety property a passing run checks.

## 6. What reading the code showed beside the runs

These are not properties of a run, because no sentence of the repository says
otherwise or because they concern one line.

* Monitor.  The cooldown key of a pause alert ignores the direction
  (`checks.ts:603`), so an unpause soon after a pause is quiet; `ShortfallPagedAgain` is about
  shortfalls and would not notice.  Reads pinned by number,
  not by hash, can straddle a reorganisation (`monitor.ts:107`).  A stop and start during
  a poll leaves two loops until the older poll returns (`monitor.ts:470`; `StoppedComesToRest`
  shows both end).  The chain id of a deployments file replaces the one from the flag
  (`config.ts:77`, the header at `config.ts:4` says flags win); `ConfigResolved` leaves the
  chain id out.  A misspelled severity flag hides
  a good environment value, and misspelled thresholds fall back silently
  (`config.ts:97`).  The "rolling window" of claims is reset at each poll.  No code
  raises `unknown_asset`.
* Monitor, events.  A second deposit to an action in the same transaction is reported as a
  duplicate although nothing was delivered twice: the key is id and transaction
  (`checks.ts:368`, where the comment speaks of a replay).  A `subscribe()` that throws at
  its second watch leaves the first open: `unwatchers` never gets it, no stop closes it, and
  the next start opens another (`monitor.ts:256-269`; `stray` in `MonitorLoop`).
* Verifier.  A file without claims is accepted under any root, if its count and totals are
  zero (`verify.ts:166`).
* Snapshot.  `--chain-id` goes into the artifact without being compared with the
  node's (`cli.ts:261`).
* Subgraph.  `totalFunded` keeps its value after a cancellation
  (`mappings.ts:152`), which `EntitiesMatchBook` excepts; the same holds for the last
  `Funded` event in `StreamsTellTheBook`.
* App.  A lookup that found no proof is remembered as such for ever
  (`api/proof/route.ts:45`), while `lib/proofs.ts:33` forgets it; `AnswersTrue` therefore
  speaks of a process started over a complete store.  The row of a claim forgets its hash at every
  refetch, so a second relay is possible and its simulation (`relay-claim/route.ts:80`)
  does not see the first.  Finalised actions leave the holder's history.  On the local
  chain a USDG named by the environment is written with 18 decimals and shown with the
  declared ones (`tokens.ts:72`).  A blank `NEXT_PUBLIC_REGISTRY_ADDRESS` makes the agent
  throw where the app falls back.  The default chains differ: 46630 in the app, 31337 in the agent
  and in the feed page's example.
* SDK.  Two `fundWithApproval` calls of one wallet overwrite each other's allowance;
  that is the exception `DepositsApproved` names.  The watchers hand removed
  logs on without saying so.
* Contracts.  `InvariantDistributor.t.sol:76` states an equality that no longer holds after a
  sweep, which its handler does not call.  `applySplit` does not look at the action's status or record block.
  After `setAssetIssuer` the successor sweeps or cancels what its predecessor deposited.

## 7. Not modelled and why

* Vendored OpenZeppelin and forge-std, with their own generators and scripts (a quarter
  of the repository's lines): external code, of which the modules hold what the contracts
  rely on.
* The documentation page, the landing page and its globe, layout, formatting and wallet
  connection: they hold no state of the protocol.
* The agent's demo and x402 stub, which return constants; `parseProofsFile`, which only narrows
  a type; `adjustQuantity`, which no contract calls.
* Deployment scripts, infrastructure and CI: one-shot; what they leave behind is
  the initial state of the modules.
* Alert delivery (Slack, webhook, console), help texts, HTTP details.
* Token behaviours other than plain and fee-on-transfer.  Constructors' and setters'
  zero-address checks appear as the constants' assumptions.
