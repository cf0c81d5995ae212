--------------------------- MODULE SnapshotTools ---------------------------
(***************************************************************************)
(* The snapshot tools, side by side: the sequential scanner (extended) and *)
(* the concurrent one, the fold with the verifier and the SDK that claims  *)
(* from its file, the command line with its pinning, and the store the app *)
(* serves proofs from.  They meet in files only; each is an instance over  *)
(* parameters of its own, and what is checked of them with TLC and proved  *)
(* of them is named here once.                                             *)
(***************************************************************************)
EXTENDS SnapshotScan

CONSTANTS
  ParallelLast, Width, Workers, MaxAttempts, RangeLimit,          \* of ParallelScan
  MaxAddress, Histories, Rates, Withholdings, Exclusions,         \* of ClaimBuilder
  One, Denominator, NotGiven, ForeignFiles, MaxAmount,
  Excludable, NodeChain, Chains, Artifacts, MaxPinned,            \* of SnapshotRun
  Ids, Payees, Sharded, HoldersOf, PrefixOf,                      \* of ProofStore
  RecordBlock, MaxSpan, MaxHeight, MaxClaimed

VARIABLES
  idx, tasks, collected, outcome,                                 \* ParallelScan
  logs, rate, bps, excluded, stage, file, posted, escrow, used,   \* ClaimBuilder
  step, options, artifact, output, pinned, exit,                  \* SnapshotRun
  shards, wholes, meta, height, claimedAt,                        \* ProofStore
  shardCache, wholeCache, txCache, fresh, reply

Parallel == INSTANCE ParallelScan WITH Last <- ParallelLast

Fold == INSTANCE ClaimBuilder

Cli == INSTANCE SnapshotRun WITH
  Addresses <- Excludable, Histories <- Artifacts, phase <- step, file <- output

Store == INSTANCE ProofStore WITH Holders <- Payees, head <- height, MaxHead <- MaxHeight

(***************************************************************************)
(* Properties: those of the instances, stated and explained in their       *)
(* modules                                                                 *)
(***************************************************************************)

\* The workers' answers, in any order, are every block once (ParallelScan).
ParallelCollects == Parallel!ParallelCollects

\* Balances are the logs' in any order, and rounding never promises more than
\* the pro-rata share (Entitlements).
SharesFollowLogs == Fold!SharesFollowLogs

\* The root the tool publishes can be paid in full (Entitlements).
ArtifactPayable == Fold!ArtifactPayable

\* verify accepts what the tool wrote, and of other files that list claims only
\* those that list the leaves of their root (Entitlements).
VerifyIsExact == Fold!VerifyIsExact

\* Claims built from the tool's file pay every eligible holder (ClaimBuilder).
EveryHolderPaid == Fold!EveryHolderPaid

\* The CID in the file on disk addresses the file's own pinned bytes (SnapshotRun).
PinMatchesFile == Cli!PinMatchesFile

\* Proofs and receipts come from the right file and payment (ProofStore).
AnswersTrue == Store!AnswersTrue
=============================================================================
