---------------------------- MODULE SnapshotScan ----------------------------
(***************************************************************************)
(* The sequential scanner of tooling/snapshot/src/balances.ts, run against *)
(* a chain that grows and reorganises and a provider that rejects wide     *)
(* windows and fails now and then.  balancesAt is a loop of awaits: the    *)
(* chain moves between any two of its requests, and each request sees the  *)
(* chain as it is at that moment.                                          *)
(*                                                                         *)
(* The logs of a block are one value of Contents; what they say is folded  *)
(* in module Entitlements.                                                 *)
(***************************************************************************)
EXTENDS Integers, Sequences, FiniteSets

CONSTANTS
  First,          \* deployBlock
  Last,           \* recordBlock
  MaxHead,        \* bound: the chain grows up to this height
  Contents,       \* what the logs of one block may be
  NoLogs,         \* the logs of a block without a transfer, or not there yet
  ReorgDepth,     \* a reorganisation replaces at most this many last blocks
  Confirmations,  \* --confirmations
  InitialChunk,   \* --chunk
  MinChunk,       \* minChunk
  MaxRetries,     \* maxRetries
  ResultLimit     \* blocks with logs the provider returns at most in one answer

ASSUME ScanAssumption ==
  /\ First \in Nat /\ Last \in Nat /\ MaxHead \in Nat
  /\ First <= Last /\ Last <= MaxHead
  /\ ReorgDepth \in Nat /\ Confirmations \in Nat
  /\ InitialChunk \in Nat \ {0} /\ MinChunk \in Nat \ {0}
  /\ MaxRetries \in Nat /\ ResultLimit \in Nat \ {0}
  /\ NoLogs \in Contents

VARIABLES
  head,       \* eth_blockNumber
  chain,      \* the logs of each block; none beyond the head
  phase,      \* "start", "asking", "done", or "refused", "failed"
  cursor,     \* first block not read yet
  windowEnd,  \* last block of the window being asked for
  chunk,      \* width of the next window
  attempt,    \* failures of the present window
  errors,     \* kinds of those failures
  out         \* what was collected: one entry per block read

chainVars == <<head, chain>>
scanVars == <<phase, cursor, windowEnd, chunk, attempt, errors, out>>
vars == <<chainVars, scanVars>>

(***************************************************************************)
(* Operators                                                               *)
(***************************************************************************)

Least(a, b) == IF a < b THEN a ELSE b
Greatest(a, b) == IF a > b THEN a ELSE b

WindowEnd(from, width) == Least(from + width - 1, Last)

Depth(height) == Greatest(height - Last, 0)

\* Mutant: the record block itself counts as a confirmation.
FinalInclusive(height) == Confirmations > 0 => Depth(height) + 1 >= Confirmations

\* assertFinal; with confirmations 0 the head is not read.
Final(height) == Confirmations > 0 => Depth(height) >= Confirmations

\* Mutant: the next window starts at the last block of this one.
AdvanceOverlapping == windowEnd

Advance == windowEnd + 1

\* The onShrink callback, and the growth after a clean read.
Shrunk == Greatest(MinChunk, chunk \div 2)
Grown == IF chunk < InitialChunk THEN Least(InitialChunk, chunk * 2) ELSE chunk

\* looksLikeRangeError
LooksLikeRange(error) == error \in {"range", "rate"}

\* The provider limits the size of an answer, so that whether a window is too
\* wide depends on what its blocks hold when it is asked for.
TooWide == Cardinality({b \in cursor..windowEnd : chain[b] # NoLogs}) > ResultLimit

\* What a request may fail with: always when the window is too wide, now and
\* then with a rate limit or a broken connection.
PossibleErrors == IF TooWide THEN {"range", "rate", "network"} ELSE {"rate", "network"}

Read(from, to) == [i \in 1..(to - from + 1) |-> [block |-> from + i - 1, logs |-> chain[from + i - 1]]]

(***************************************************************************)
(* The chain                                                               *)
(***************************************************************************)

NewBlock ==
  /\ head < MaxHead
  /\ head' = head + 1
  /\ \E c \in Contents : chain' = [chain EXCEPT ![head + 1] = c]
  /\ UNCHANGED scanVars

\* One block of the last ReorgDepth is replaced; several in several steps.
Reorganise ==
  /\ \E b \in (head - ReorgDepth + 1)..head :
        /\ b >= 0
        /\ \E c \in Contents : chain' = [chain EXCEPT ![b] = c]
  /\ UNCHANGED <<head, scanVars>>

(***************************************************************************)
(* The scanner                                                             *)
(***************************************************************************)

\* balancesAt up to the first request.
Start ==
  /\ phase = "start"
  /\ \/ /\ Final(head)
        /\ phase' = "asking"
     \/ /\ ~Final(head)
        /\ phase' = "refused"
  /\ UNCHANGED <<chainVars, cursor, windowEnd, chunk, attempt, errors, out>>

\* The request is answered: one turn of the loop of scanTransfers.
Answered ==
  /\ phase = "asking"
  /\ ~TooWide
  /\ out' = out \o Read(cursor, windowEnd)
  /\ cursor' = Advance
  /\ chunk' = Grown
  /\ windowEnd' = WindowEnd(Advance, Grown)
  /\ attempt' = 0
  /\ errors' = {}
  /\ phase' = IF Advance > Last THEN "done" ELSE "asking"
  /\ UNCHANGED chainVars

\* The catch branch of getLogsWithRetry: the same window is asked for again;
\* only the width of the next one shrinks.
Rejected(error) ==
  /\ phase = "asking"
  /\ error \in PossibleErrors
  /\ errors' = errors \cup {error}
  /\ attempt' = attempt + 1
  /\ IF attempt + 1 > MaxRetries
       THEN phase' = "failed" /\ UNCHANGED chunk
       ELSE /\ chunk' = IF LooksLikeRange(error) THEN Shrunk ELSE chunk
            /\ UNCHANGED phase
  /\ UNCHANGED <<chainVars, cursor, windowEnd, out>>

ScannerStep ==
  \/ Start
  \/ Answered
  \/ \E error \in {"range", "rate", "network"} : Rejected(error)

(***************************************************************************)
(* Specification                                                           *)
(***************************************************************************)

\* The tool may be started at any height, below the record block too.
Init ==
  /\ head \in 0..MaxHead
  /\ chain \in [0..MaxHead -> Contents]
  /\ \A b \in (head + 1)..MaxHead : chain[b] = NoLogs
  /\ phase = "start"
  /\ cursor = First
  /\ chunk = InitialChunk
  /\ windowEnd = WindowEnd(First, InitialChunk)
  /\ attempt = 0
  /\ errors = {}
  /\ out = <<>>

Next == NewBlock \/ Reorganise \/ ScannerStep

Spec == Init /\ [][Next]_vars

\* The tool runs until it ends; a request is answered or rejected in the end.
FairSpec == Spec /\ WF_vars(ScannerStep)

(***************************************************************************)
(* Properties                                                              *)
(***************************************************************************)

Phases == {"start", "asking", "done", "refused", "failed"}

ScanTypeOK ==
  /\ head \in 0..MaxHead
  /\ chain \in [0..MaxHead -> Contents]
  /\ phase \in Phases
  /\ cursor \in First..(Last + 1)
  /\ windowEnd \in (First - 1)..Last
  /\ phase = "asking" => cursor <= windowEnd
  /\ chunk \in Nat \ {0}
  /\ attempt \in 0..(MaxRetries + 1)
  /\ errors \subseteq {"range", "rate", "network"}
  /\ out \in Seq([block : First..Last, logs : Contents])

\* What was collected is the prefix of the range below the cursor.
InOrder ==
  /\ Len(out) = cursor - First
  /\ \A i \in 1..Len(out) : out[i].block = First + i - 1

\* The finality gate does what it is for: when it asks for as many
\* confirmations as the chain can lose blocks, everything collected is what
\* the chain holds at that block, now and for ever, although the chain moved
\* on and reorganised between any two requests and after the last.
SnapshotStaysTrue ==
  Confirmations > 0 /\ Confirmations >= ReorgDepth =>
    \A i \in 1..Len(out) : out[i].logs = chain[out[i].block]

\* How often the logs of a block were collected, and how the scan stands.
ReadsOf(b) == Cardinality({i \in 1..Len(out) : out[i].block = b})
Outcome == CASE phase = "done" -> "complete"
             [] phase \in {"refused", "failed"} -> "failed"
             [] OTHER -> "running"
Collection == INSTANCE LogCollection WITH
  reads <- [b \in First..Last |-> ReadsOf(b)], outcome <- Outcome

\* Whatever the provider answers and however the chain reorganises, every block
\* of the range is read exactly once through all retries, shrunk and regrown
\* windows, and the scan is complete only with all of them.
ImplementsCollection == Collection!CollectionSpec

\* The scan ends, one way or another, however often the provider fails.
ScanEnds == <>(phase \in {"done", "refused", "failed"})

\* The comment on minChunk calls it the smallest chunk the scan shrinks to
\* before declaring the provider unusable: a scan that gives up over range
\* errors alone was asking for a window no wider than that.
UnusableOnlyAtMinChunk ==
  phase = "failed" /\ errors = {"range"} => windowEnd - cursor + 1 <= MinChunk
=============================================================================
