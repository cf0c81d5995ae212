---------------------------- MODULE ParallelScan ----------------------------
(***************************************************************************)
(* The concurrent scanner of tooling/snapshot/scan-parallel.ts: workers    *)
(* take windows off a shared list, a window the provider finds too wide is *)
(* split in two, and what the requests return is appended to one array in  *)
(* the order the answers arrive.  Only which blocks were read matters      *)
(* here: the fold does not depend on their order (module Entitlements).    *)
(***************************************************************************)
EXTENDS Integers, Sequences

CONSTANTS
  First, Last,   \* DEPLOY_BLOCK, RECORD_BLOCK
  Width,         \* WINDOW
  Workers,       \* CONCURRENCY of them
  MaxAttempts,   \* retries of one window
  RangeLimit     \* the widest window the provider answers

\* Windows have a width, and the range is not empty.
ParallelAssumption ==
  First \in Nat /\ Last \in Nat /\ First <= Last /\ Width \in Nat \ {0}

VARIABLES
  idx,        \* windows handed out so far
  tasks,      \* each worker's call stack of fetchWindow, innermost first
  collected,  \* how often each block's logs are in the array all
  outcome     \* "running", "complete" or "failed"

vars == <<idx, tasks, collected, outcome>>

Blocks == First..Last

(***************************************************************************)
(* Operators                                                               *)
(***************************************************************************)

Task(from, to, attempt) == [from |-> from, to |-> to, attempt |-> attempt]

WindowCount == (Last - First + Width) \div Width

\* The i-th of the disjoint windows built up front.
Window(i) ==
  LET from == First + (i - 1) * Width
      to == from + Width - 1 IN
    Task(from, IF to < Last THEN to ELSE Last, 0)

Middle(task) == task.from + (task.to - task.from) \div 2

\* Mutant: both halves hold the middle block.
HalvesOverlapping(task) ==
  <<Task(task.from, Middle(task), 0), Task(Middle(task), task.to, 0)>>

\* The two recursive calls, the second one after the first has returned.
Halves(task) ==
  <<Task(task.from, Middle(task), 0), Task(Middle(task) + 1, task.to, 0)>>

\* Mutant: the attempt picks the delay from a table and starts over at its end.
RetryCycling(task) == [task EXCEPT !.attempt = (@ + 1) % MaxAttempts]

Retry(task) == [task EXCEPT !.attempt = @ + 1]

TooWide(task) == task.to - task.from + 1 > RangeLimit

\* Errors whose message makes the scanner split: a range or rate limit.
LooksLikeRange(error) == error = "limit"

(***************************************************************************)
(* Workers                                                                 *)
(***************************************************************************)

Busy(w) == tasks[w] # <<>>

\* idx is read and incremented without an await between.
Take(w) ==
  /\ outcome = "running"
  /\ ~Busy(w)
  /\ idx < WindowCount
  /\ idx' = idx + 1
  /\ tasks' = [tasks EXCEPT ![w] = <<Window(idx + 1)>>]
  /\ UNCHANGED <<collected, outcome>>

Fetched(w) ==
  /\ outcome = "running"
  /\ Busy(w)
  /\ ~TooWide(Head(tasks[w]))
  /\ LET task == Head(tasks[w]) IN
       collected' = [b \in DOMAIN collected |->
                       collected[b] + (IF b \in task.from..task.to THEN 1 ELSE 0)]
  /\ tasks' = [tasks EXCEPT ![w] = Tail(@)]
  /\ UNCHANGED <<idx, outcome>>

\* The catch branch of fetchWindow.
Rejected(w, error) ==
  /\ outcome = "running"
  /\ Busy(w)
  /\ LET task == Head(tasks[w])
         rest == Tail(tasks[w])
         splits == task.to > task.from /\ LooksLikeRange(error) IN
       \/ /\ splits
          /\ tasks' = [tasks EXCEPT ![w] = Halves(task) \o rest]
          /\ UNCHANGED outcome
       \/ /\ ~splits
          /\ task.attempt < MaxAttempts
          /\ tasks' = [tasks EXCEPT ![w] = <<Retry(task)>> \o rest]
          /\ UNCHANGED outcome
       \/ /\ ~splits
          /\ task.attempt >= MaxAttempts
          /\ outcome' = "failed"
          /\ UNCHANGED tasks
  /\ UNCHANGED <<idx, collected>>

\* Promise.all over the workers.
Finish ==
  /\ outcome = "running"
  /\ idx = WindowCount
  /\ \A w \in Workers : ~Busy(w)
  /\ outcome' = "complete"
  /\ UNCHANGED <<idx, tasks, collected>>

Init ==
  /\ idx = 0
  /\ tasks = [w \in Workers |-> <<>>]
  /\ collected = [b \in Blocks |-> 0]
  /\ outcome = "running"

WorkerStep(w) ==
  \/ Take(w)
  \/ Fetched(w)
  \/ \E error \in {"limit", "network"} : Rejected(w, error)

Next == (\E w \in Workers : WorkerStep(w)) \/ Finish

\* Every request is answered or rejected in the end, and the process goes on.
Spec == Init /\ [][Next]_vars /\ (\A w \in Workers : WF_vars(WorkerStep(w))) /\ WF_vars(Finish)

(***************************************************************************)
(* Properties                                                              *)
(***************************************************************************)

\* However the windows are handed out, split and retried, and in whatever order
\* their answers arrive: every block is read exactly once, and the scan
\* completes only with all of them.
Collection == INSTANCE LogCollection WITH reads <- collected
ParallelCollects == Collection!CollectionSpec

\* The scan ends: splits and retries cannot go on for ever.
ParallelEnds == <>(outcome # "running")
=============================================================================
