--------------------------- MODULE LogCollection ---------------------------
(***************************************************************************)
(* What a scan of a token's history promises: every block of the range is  *)
(* read exactly once, in whatever order and however often a request had to *)
(* be repeated, and the scan is complete only when all of them are.        *)
(***************************************************************************)
EXTENDS Integers

CONSTANTS First, Last   \* deployBlock and recordBlock

Blocks == First..Last

VARIABLES
  reads,    \* how often the logs of each block were collected
  outcome   \* "running", "complete" or "failed"

collectionVars == <<reads, outcome>>

CollectionInit ==
  /\ reads = [b \in Blocks |-> 0]
  /\ outcome = "running"

\* One answer of the provider adds the logs of some blocks not read before.
Collect ==
  /\ outcome = "running"
  /\ reads' \in [Blocks -> 0..1]
  /\ \A b \in Blocks : reads[b] <= reads'[b]

Finish ==
  /\ outcome = "running"
  /\ outcome' \in {"complete", "failed"}
  /\ outcome' = "complete" => \A b \in Blocks : reads'[b] = 1

CollectionNext ==
  \/ Collect /\ (UNCHANGED outcome \/ Finish)
  \/ Finish /\ UNCHANGED reads

CollectionSpec == CollectionInit /\ [][CollectionNext]_collectionVars
=============================================================================
