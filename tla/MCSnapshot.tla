----------------------------- MODULE MCSnapshot -----------------------------
(***************************************************************************)
(* The snapshot tooling and what becomes of its file: the two scanners,    *)
(* the fold, the verifier and the SDK that claims from the file, the       *)
(* command line with its pinning, and the store the app serves proofs      *)
(* from.  They are run at different times and share nothing but files, so  *)
(* a behaviour has one of them: `tool` says which.                         *)
(***************************************************************************)
EXTENDS SnapshotTools

VARIABLE tool

parallelVars == <<idx, tasks, collected, outcome>>
foldVars == <<logs, rate, bps, excluded, stage, file, posted, escrow, used>>
cliVars == <<step, options, artifact, output, pinned, exit>>
storeVars ==
  <<shards, wholes, meta, height, claimedAt, shardCache, wholeCache, txCache, fresh, reply>>

Seqs == INSTANCE SequencesExt

\* Every history of at most two transfers between two holders and the zero
\* address, including those a scan that starts too late would return, and
\* longer ones over three holders.
T(from, to, value) == [from |-> from, to |-> to, value |-> value]
Pairs == {T(f, t, v) : f \in 0..2, t \in 0..2, v \in {1, 3}}
Long == <<T(0, 3, 5), T(3, 1, 2), T(3, 2, 3), T(2, 2, 1), T(1, 0, 1)>>
MCHistories == Seqs!BoundedSeq(Pairs, 2) \cup {Long, SubSeq(Long, 1, 3), SubSeq(Long, 2, 5)}

\* Files of other producers: one that lists nobody under a root that pays somebody,
\* one in which two holders share a slot, one of the format without its optional
\* fields, and one that says the gross of one claim of two.
Claim(index, gross, amount) == [index |-> index, gross |-> gross, amount |-> amount]
Foreign(claims, root, total, gross, withheld, holders) ==
  [claims |-> claims, root |-> root, totalPayout |-> total, totalGross |-> gross,
   withholdingBps |-> withheld, holderCount |-> holders]
MCForeignFiles ==
  {Foreign(<<>>, {<<0, 1, 3>>}, 0, 0, NotGiven, 0),
   Foreign(<<Claim(0, NotGiven, 1), Claim(0, NotGiven, 2)>>, {<<0, 1, 1>>, <<0, 2, 2>>}, 3, NotGiven, NotGiven, 2),
   Foreign(<<Claim(0, NotGiven, 1)>>, {<<0, 1, 1>>, <<1, 2, 2>>}, 1, NotGiven, 1, 1),
   Foreign(<<Claim(1, 4, 3), Claim(0, NotGiven, 1)>>, {<<1, 1, 3>>, <<0, 2, 1>>}, 4, 4, 1, 2)}

\* A sharded action with two holders and a small one with one of them; the
\* chain goes two blocks past the record block and MAX_SPAN is one.
MCHoldersOf == [id \in {"a", "b"} |-> IF id = "a" THEN {"x", "y"} ELSE {"x"}]
MCPrefixOf == [h \in {"x", "y"} |-> h]

\* The theorems about these instances rest on assumptions their values meet.
ASSUME InstanceAssumption ==
  Parallel!ParallelAssumption /\ Fold!FoldAssumption /\ Store!StoreAssumption

Runs(name) == tool = name
Sequentially == Runs("sequential")

AnyInit ==
  /\ tool \in {"sequential", "parallel", "fold", "cli", "store"}
  /\ Init
  /\ ~Sequentially => head = 0 /\ \A b \in 0..MaxHead : chain[b] = NoLogs
  /\ Parallel!Init
  /\ IF Runs("fold") THEN Fold!Init
     ELSE /\ logs = <<>> /\ rate = 0 /\ bps = 0 /\ excluded = {}
          /\ stage = "logs" /\ file = Fold!NoFile
  /\ Fold!ClaimInit
  /\ Cli!RunInit
  /\ Store!StoreInit

AnyNext ==
  /\ UNCHANGED tool
  /\ \/ Sequentially /\ Next /\ UNCHANGED <<parallelVars, foldVars, cliVars, storeVars>>
     \/ Runs("parallel") /\ Parallel!Next /\ UNCHANGED <<vars, foldVars, cliVars, storeVars>>
     \/ Runs("fold") /\ Fold!ClaimNext /\ UNCHANGED <<vars, parallelVars, cliVars, storeVars>>
     \/ Runs("cli") /\ Cli!RunNext /\ UNCHANGED <<vars, parallelVars, foldVars, storeVars>>
     \/ Runs("store") /\ Store!StoreNext /\ UNCHANGED <<vars, parallelVars, foldVars, cliVars>>

\* FairSpec of SnapshotScan and Spec of ParallelScan, for the scanner that runs.
AnySpec ==
  /\ AnyInit
  /\ [][AnyNext]_<<tool, vars, parallelVars, foldVars, cliVars, storeVars>>
  /\ WF_vars(Sequentially /\ ScannerStep)
  /\ \A w \in Workers : WF_parallelVars(Runs("parallel") /\ Parallel!WorkerStep(w))
  /\ WF_parallelVars(Runs("parallel") /\ Parallel!Finish)

(***************************************************************************)
(* Properties: those of the modules, explained there                       *)
(***************************************************************************)

\* Either tool ends, with all blocks or with an error (ScanEnds, ParallelEnds).
ScansEnd == (Sequentially => ScanEnds) /\ (Runs("parallel") => Parallel!ParallelEnds)
=============================================================================
