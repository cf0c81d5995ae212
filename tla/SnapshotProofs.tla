--------------------------- MODULE SnapshotProofs ---------------------------
(***************************************************************************)
(* Proofs about the snapshot tooling: the two scanners, for every range,   *)
(* chunk size, retry limit, reorganisation depth and provider limit, the   *)
(* command line with its pinning, and the store proofs are served from.    *)
(***************************************************************************)
EXTENDS SnapshotTools, FiniteSums, TLAPS

\* The gate was passed before anything was collected, and the head only grows.
Gated ==
  /\ phase \in {"start", "refused"} => out = <<>>
  /\ phase \notin {"start", "refused"} => Final(head)

\* The window being asked for starts at the cursor, and the end of the range
\* and the end of the scan coincide.
WindowSound ==
  /\ phase \in {"start", "asking"} => cursor <= windowEnd
  /\ phase = "done" => cursor = Last + 1

ScanInv == ScanTypeOK /\ InOrder /\ Gated /\ WindowSound /\ SnapshotStaysTrue

\* A window of positive width lies inside the range.
LEMMA WindowBounds ==
  ASSUME NEW from \in First..Last, NEW width \in Nat \ {0}
  PROVE  WindowEnd(from, width) \in from..Last
BY ScanAssumption DEF WindowEnd, Least

\* Past the range the window is empty.
LEMMA WindowPastEnd ==
  ASSUME NEW width \in Nat \ {0}
  PROVE  WindowEnd(Last + 1, width) = Last
<1>1. Last \in Nat /\ Last + 1 + width - 1 >= Last
  BY ScanAssumption
<1>2. ~(Last + 1 + width - 1 < Last)
  BY <1>1
<1>3. QED BY <1>2 DEF WindowEnd, Least

\* Once the gate is open it stays open: the head only grows.
LEMMA FinalGrows ==
  ASSUME NEW h \in Nat, NEW k \in Nat, k >= h, Final(h)
  PROVE  Final(k)
<1>1. Last \in Nat /\ Confirmations \in Nat
  BY ScanAssumption
<1>2. CASE Confirmations = 0
  BY <1>1, <1>2 DEF Final
<1>3. CASE Confirmations > 0
  <2>1. h - Last >= Confirmations
    BY <1>1, <1>3 DEF Final, Depth, Greatest
  <2>2. k - Last > 0 /\ k - Last >= Confirmations
    BY <1>1, <1>3, <2>1
  <2>3. Depth(k) = k - Last
    BY <2>2 DEF Depth, Greatest
  <2>4. QED BY <2>2, <2>3 DEF Final
<1>4. QED BY <1>1, <1>2, <1>3

LEMMA ChunkBounds ==
  ASSUME ScanTypeOK
  PROVE  Shrunk \in Nat \ {0} /\ Grown \in Nat \ {0}
<1>1. chunk \in Nat \ {0} /\ MinChunk \in Nat \ {0} /\ InitialChunk \in Nat \ {0}
  BY ScanAssumption DEF ScanTypeOK
<1>2. chunk \div 2 \in Nat /\ chunk * 2 \in Nat \ {0}
  BY <1>1
<1>3. QED BY <1>1, <1>2 DEF Shrunk, Grown, Greatest, Least

\* What a read of a window appends.
LEMMA ReadBlocks ==
  ASSUME ScanTypeOK, NEW from \in First..Last, NEW to \in from..Last
  PROVE  /\ Read(from, to) \in Seq([block : First..Last, logs : Contents])
         /\ Len(Read(from, to)) = to - from + 1
         /\ \A i \in 1..(to - from + 1) :
               /\ Read(from, to)[i].block = from + i - 1
               /\ Read(from, to)[i].logs = chain[from + i - 1]
<1> DEFINE n == to - from + 1
           e(i) == [block |-> from + i - 1, logs |-> chain[from + i - 1]]
<1>1. n \in Nat
  BY ScanAssumption
<1>2. \A i \in 1..n : e(i) \in [block : First..Last, logs : Contents]
  BY ScanAssumption DEF ScanTypeOK
<1>3. Read(from, to) = [i \in 1..n |-> e(i)]
  BY DEF Read
<1>4. Read(from, to) \in [1..n -> [block : First..Last, logs : Contents]]
  BY <1>2, <1>3
<1>5. \A i \in 1..n : Read(from, to)[i] = e(i)
  BY <1>3
<1>6. Read(from, to) \in Seq([block : First..Last, logs : Contents]) /\ Len(Read(from, to)) = n
  <2> DEFINE S == [block : First..Last, logs : Contents]
  <2>1. \A g \in [1..n -> S] : g \in Seq(S) /\ Len(g) = n
    <3> HIDE DEF S, n
    <3>1. QED BY <1>1
  <2>2. QED BY <1>4, <2>1
<1>7. \A i \in 1..n : Read(from, to)[i].block = from + i - 1 /\ Read(from, to)[i].logs = chain[from + i - 1]
  <2> TAKE i \in 1..n
  <2>1. Read(from, to)[i] = [block |-> from + i - 1, logs |-> chain[from + i - 1]]
    BY <1>5
  <2>2. QED BY <2>1
<1>8. QED BY <1>6, <1>7

LEMMA ScanInitInv == Init => ScanInv
<1> SUFFICES ASSUME Init PROVE ScanInv
  OBVIOUS
<1>1. windowEnd \in First..Last
  BY WindowBounds, ScanAssumption DEF Init
<1>2. <<>> \in Seq([block : First..Last, logs : Contents])
  OBVIOUS
<1>3. ScanTypeOK
  BY <1>1, <1>2, ScanAssumption DEF Init, ScanTypeOK, Phases
<1>4. InOrder /\ SnapshotStaysTrue
  BY ScanAssumption DEF Init, InOrder, SnapshotStaysTrue
<1>5. Gated /\ WindowSound
  BY <1>1, ScanAssumption DEF Init, Gated, WindowSound
<1>6. QED BY <1>3, <1>4, <1>5 DEF ScanInv

\* A chain that grows or reorganises never touches a block that was collected
\* behind the finality gate.
LEMMA ChainKeeps ==
  ASSUME ScanInv, NewBlock \/ Reorganise
  PROVE  ScanInv'
<1>1. /\ head' \in 0..MaxHead /\ head' >= head
      /\ chain' \in [0..MaxHead -> Contents]
      /\ UNCHANGED scanVars
  BY ScanAssumption DEF ScanInv, ScanTypeOK, NewBlock, Reorganise
<1>2. ScanTypeOK' /\ InOrder' /\ WindowSound'
  BY <1>1 DEF ScanInv, ScanTypeOK, InOrder, WindowSound, scanVars
<1>3. Gated'
  <2>1. Final(head) => Final(head')
    <3>1. head \in Nat /\ head' \in Nat /\ head' >= head
      BY <1>1, ScanAssumption DEF ScanInv, ScanTypeOK
    <3>2. QED BY <3>1, FinalGrows
  <2>2. Final(head)' <=> Final(head')
    BY DEF Final, Depth, Greatest
  <2>3. QED BY <1>1, <2>1, <2>2 DEF ScanInv, Gated, scanVars
<1>4. SnapshotStaysTrue'
  <2> SUFFICES ASSUME Confirmations > 0, Confirmations >= ReorgDepth, NEW i \in 1..Len(out)
               PROVE  out[i].logs = chain'[out[i].block]
    BY <1>1 DEF SnapshotStaysTrue, scanVars
  <2>1. out[i].block \in First..Last /\ out[i].logs = chain[out[i].block]
    <3> DEFINE E == [block : First..Last, logs : Contents]
    <3>1. out[i] \in E
      <4>1. out \in Seq(E)
        BY DEF ScanInv, ScanTypeOK
      <4> HIDE DEF E
      <4>2. QED BY <4>1
    <3>2. QED BY <3>1 DEF ScanInv, SnapshotStaysTrue
  <2>2. head >= Last + Confirmations
    <3>1. Len(out) # 0
      BY DEF ScanInv, ScanTypeOK
    <3>2. Final(head)
      BY <3>1 DEF ScanInv, Gated
    <3>3. QED BY <3>2, ScanAssumption DEF Final, Depth, Greatest, ScanInv, ScanTypeOK
  <2>3. CASE NewBlock
    BY <2>1, <2>2, <2>3, ScanAssumption DEF NewBlock, ScanInv, ScanTypeOK
  <2>4. CASE Reorganise
    <3>1. PICK b \in (head - ReorgDepth + 1)..head :
            b >= 0 /\ \E c \in Contents : chain' = [chain EXCEPT ![b] = c]
      BY <2>4 DEF Reorganise
    <3>2. b > Last
      BY <2>2, ScanAssumption DEF ScanInv, ScanTypeOK
    <3>3. QED BY <2>1, <3>1, <3>2, ScanAssumption DEF ScanInv, ScanTypeOK
  <2>5. QED BY <2>3, <2>4
<1>5. QED BY <1>2, <1>3, <1>4 DEF ScanInv

LEMMA StartKeeps == ASSUME ScanInv, Start PROVE ScanInv'
<1>1. ScanTypeOK' /\ InOrder' /\ WindowSound' /\ SnapshotStaysTrue'
  BY DEF ScanInv, ScanTypeOK, InOrder, WindowSound, SnapshotStaysTrue, Start, Phases, chainVars
<1>2. Gated'
  BY DEF ScanInv, Gated, Start, chainVars, Final, Depth
<1>3. QED BY <1>1, <1>2 DEF ScanInv

LEMMA RejectedKeeps ==
  ASSUME ScanInv, NEW error \in {"range", "rate", "network"}, Rejected(error)
  PROVE  ScanInv'
<1>1. Shrunk \in Nat \ {0}
  BY ChunkBounds DEF ScanInv
<1>2. attempt' \in 0..(MaxRetries + 1)
  BY ScanAssumption DEF ScanInv, ScanTypeOK, Rejected
<1>3. ScanTypeOK'
  BY <1>1, <1>2 DEF ScanInv, ScanTypeOK, Rejected, Phases, chainVars
<1>4. InOrder' /\ WindowSound' /\ SnapshotStaysTrue'
  BY DEF ScanInv, InOrder, WindowSound, SnapshotStaysTrue, Rejected, chainVars
<1>5. Gated'
  BY DEF ScanInv, Gated, Rejected, chainVars, Final, Depth
<1>6. QED BY <1>3, <1>4, <1>5 DEF ScanInv

\* What a concatenation holds.
LEMMA Concatenated ==
  ASSUME NEW E, NEW s \in Seq(E), NEW t \in Seq(E)
  PROVE  /\ s \o t \in Seq(E) /\ Len(s \o t) = Len(s) + Len(t)
         /\ \A i \in 1..Len(s \o t) : (s \o t)[i] = IF i <= Len(s) THEN s[i] ELSE t[i - Len(s)]
OBVIOUS

\* One answer extends the collected prefix by exactly the window asked for.
LEMMA AnsweredKeeps == ASSUME ScanInv, Answered PROVE ScanInv'
<1> DEFINE r == Read(cursor, windowEnd)
           E == [block : First..Last, logs : Contents]
<1>1. cursor \in First..Last /\ windowEnd \in cursor..Last
  BY ScanAssumption DEF ScanInv, ScanTypeOK, WindowSound, Answered
<1>2. /\ r \in Seq(E) /\ Len(r) = windowEnd - cursor + 1
      /\ \A i \in 1..Len(r) : r[i].block = cursor + i - 1 /\ r[i].logs = chain[cursor + i - 1]
  BY <1>1, ReadBlocks DEF ScanInv
<1>3. out \in Seq(E) /\ out' = out \o r /\ Len(out) = cursor - First
  BY DEF ScanInv, ScanTypeOK, InOrder, Answered
<1> HIDE DEF r, E
<1>4. /\ out' \in Seq(E) /\ Len(out') = Len(out) + Len(r)
      /\ \A i \in 1..Len(out') : out'[i] = IF i <= Len(out) THEN out[i] ELSE r[i - Len(out)]
  <2>1. out \in Seq(E) /\ r \in Seq(E) /\ out' = out \o r
    BY <1>2, <1>3
  <2>2. QED BY ONLY <2>1, Concatenated
<1>5. cursor' = windowEnd + 1 /\ cursor' \in (First + 1)..(Last + 1)
  BY <1>1, ScanAssumption DEF Answered, Advance
<1>6. chunk' \in Nat \ {0}
  BY ChunkBounds DEF ScanInv, Answered
<1>7. /\ windowEnd' \in (First - 1)..Last
      /\ cursor' <= Last => cursor' <= windowEnd'
  <2>1. windowEnd' = WindowEnd(cursor', chunk')
    BY <1>5 DEF Answered, Advance
  <2>2. cursor' <= Last => windowEnd' \in cursor'..Last
    <3>1. SUFFICES ASSUME cursor' <= Last PROVE windowEnd' \in cursor'..Last
      OBVIOUS
    <3>2. cursor' \in First..Last
      BY <1>5, <3>1, ScanAssumption
    <3>3. QED BY <1>6, <2>1, <3>2, WindowBounds
  <2>3. cursor' = Last + 1 => windowEnd' = Last
    BY <1>6, <2>1, WindowPastEnd
  <2>4. QED BY <1>5, <2>2, <2>3, ScanAssumption
<1>8. /\ phase' = IF cursor' > Last THEN "done" ELSE "asking"
      /\ attempt' = 0 /\ errors' = {} /\ UNCHANGED <<head, chain>>
  BY <1>5 DEF Answered, Advance, chainVars
<1>9. ScanTypeOK'
  BY <1>4, <1>5, <1>6, <1>7, <1>8, ScanAssumption DEF ScanInv, ScanTypeOK, Phases, E
<1>10. InOrder'
  <2>1. Len(out') = cursor' - First
    BY <1>1, <1>2, <1>3, <1>4, <1>5, ScanAssumption
  <2>2. ASSUME NEW i \in 1..Len(out')
        PROVE  out'[i].block = First + i - 1
    <3>1. CASE i <= Len(out)
      BY <1>4, <3>1 DEF ScanInv, InOrder
    <3>2. CASE i > Len(out)
      <4>1. i - Len(out) \in 1..Len(r) /\ out'[i] = r[i - Len(out)]
        BY <1>2, <1>3, <1>4, <3>2
      <4>2. out'[i].block = cursor + (i - Len(out)) - 1
        BY <1>2, <4>1
      <4>3. QED BY <1>1, <1>3, <4>2, ScanAssumption
    <3>3. QED BY <1>3, <3>1, <3>2
  <2>3. QED BY <2>1, <2>2 DEF InOrder
<1>11. Gated' /\ WindowSound'
  BY <1>5, <1>7, <1>8, ScanAssumption DEF ScanInv, Gated, WindowSound, Answered, Final, Depth
<1>12. SnapshotStaysTrue'
  <2> SUFFICES ASSUME Confirmations > 0, Confirmations >= ReorgDepth, NEW i \in 1..Len(out')
               PROVE  out'[i].logs = chain[out'[i].block]
    BY <1>8 DEF SnapshotStaysTrue
  <2>1. CASE i <= Len(out)
    BY <1>4, <2>1 DEF ScanInv, SnapshotStaysTrue
  <2>2. CASE i > Len(out)
    <3>1. i - Len(out) \in 1..Len(r) /\ out'[i] = r[i - Len(out)]
      BY <1>2, <1>3, <1>4, <2>2
    <3>2. QED BY <1>2, <3>1
  <2>3. QED BY <1>3, <2>1, <2>2
<1>13. QED BY <1>9, <1>10, <1>11, <1>12 DEF ScanInv

LEMMA ScanStepKeeps == ASSUME ScanInv, [Next]_vars PROVE ScanInv'
<1>1. CASE UNCHANGED vars
  BY <1>1 DEF vars, chainVars, scanVars, ScanInv, ScanTypeOK, InOrder, Gated, WindowSound,
              SnapshotStaysTrue, Final, Depth
<1>2. QED BY <1>1, ChainKeeps, StartKeeps, RejectedKeeps, AnsweredKeeps DEF Next, ScannerStep

LEMMA ScanInvariant == Spec => []ScanInv
<1>1. ScanInv /\ [Next]_vars => ScanInv'
  BY ScanStepKeeps
<1>2. QED BY ScanInitInv, <1>1, PTL DEF Spec

\* With as many confirmations as the chain can lose blocks, what was collected
\* is what the chain holds, for ever, however it moves during and after the scan.
THEOREM SnapshotNeverReorged == Spec => []SnapshotStaysTrue
<1>1. ScanInv => SnapshotStaysTrue
  BY DEF ScanInv
<1>2. QED BY ScanInvariant, <1>1, PTL

(***************************************************************************)
(* Every block once                                                        *)
(***************************************************************************)

readsNow == [b \in First..Last |-> ReadsOf(b)]

\* In order below the cursor: each block there was read once, none above it.
LEMMA ReadsBelowCursor ==
  ScanInv => readsNow = [b \in First..Last |-> IF b < cursor THEN 1 ELSE 0]
<1> SUFFICES ASSUME ScanInv, NEW b \in First..Last
             PROVE  ReadsOf(b) = IF b < cursor THEN 1 ELSE 0
  BY DEF readsNow
<1> DEFINE S == {i \in 1..Len(out) : out[i].block = b}
<1>1. /\ Len(out) = cursor - First
      /\ cursor \in First..(Last + 1) /\ First \in Nat /\ Last \in Nat
      /\ \A i \in 1..Len(out) : out[i].block = First + i - 1
  BY ScanAssumption DEF ScanInv, InOrder, ScanTypeOK
<1>2. S = IF b < cursor THEN {b - First + 1} ELSE {}
  <2>1. \A i \in S : i = b - First + 1 /\ b < cursor
    BY <1>1
  <2>2. b < cursor => b - First + 1 \in S
    BY <1>1
  <2>3. QED BY <2>1, <2>2
<1>3. Cardinality({b - First + 1}) = 1 /\ Cardinality({}) = 0
  BY FS_Singleton, FS_EmptySet
<1>4. QED BY <1>2, <1>3 DEF ReadsOf

LEMMA CollectionInitial == Init => Collection!CollectionInit
<1> SUFFICES ASSUME Init PROVE Collection!CollectionInit
  OBVIOUS
<1>1. ScanInv /\ cursor = First /\ phase = "start"
  BY ScanInitInv DEF Init
<1>2. readsNow = [b \in First..Last |-> 0]
  BY <1>1, ReadsBelowCursor, ScanAssumption
<1>3. Outcome = "running"
  BY <1>1 DEF Outcome
<1>4. QED BY <1>2, <1>3 DEF Collection!CollectionInit, Collection!Blocks, readsNow

\* An answer collects the blocks of its window; with the last of them the scan
\* is complete.
LEMMA AnswerCollects ==
  ASSUME ScanInv, ScanInv', Answered
  PROVE  /\ Outcome = "running"
         /\ readsNow' \in [First..Last -> 0..1]
         /\ \A b \in First..Last : readsNow[b] <= readsNow'[b]
         /\ Outcome' \in {"running", "complete"}
         /\ Outcome' = "complete" => \A b \in First..Last : readsNow'[b] = 1
<1>1. /\ cursor \in First..Last /\ windowEnd \in cursor..Last
      /\ cursor' = windowEnd + 1
      /\ phase = "asking"
      /\ phase' = IF cursor' > Last THEN "done" ELSE "asking"
  BY ScanAssumption DEF ScanInv, ScanTypeOK, WindowSound, Answered, Advance
<1>2. readsNow = [b \in First..Last |-> IF b < cursor THEN 1 ELSE 0]
  BY ReadsBelowCursor
<1>3. readsNow' = [b \in First..Last |-> IF b < cursor' THEN 1 ELSE 0]
  <2>1. (ScanInv => readsNow = [b \in First..Last |-> IF b < cursor THEN 1 ELSE 0])'
    BY ReadsBelowCursor, PTL
  <2>2. QED BY <2>1
<1>4. Outcome = "running" /\ Outcome' = IF cursor' > Last THEN "complete" ELSE "running"
  BY <1>1 DEF Outcome
<1>5. QED BY <1>1, <1>2, <1>3, <1>4, ScanAssumption

\* Nothing else reads a block: a scan starts, is refused, gives up, or the
\* chain moves under it.
LEMMA OthersCollectNothing ==
  ASSUME ScanInv, NewBlock \/ Reorganise \/ Start \/ UNCHANGED vars
                  \/ \E error \in {"range", "rate", "network"} : Rejected(error)
  PROVE  /\ readsNow' = readsNow
         /\ Outcome' # Outcome => Outcome = "running" /\ Outcome' = "failed"
<1>1. UNCHANGED out
  BY DEF NewBlock, Reorganise, Start, Rejected, vars, scanVars
<1>2. \/ UNCHANGED phase
      \/ phase = "start" /\ phase' \in {"asking", "refused"}
      \/ phase = "asking" /\ phase' = "failed"
  BY DEF NewBlock, Reorganise, Start, Rejected, vars, scanVars
<1>3. QED BY <1>1, <1>2 DEF readsNow, ReadsOf, Outcome

LEMMA StepCollects ==
  ASSUME ScanInv, ScanInv', [Next]_vars
  PROVE  [Collection!CollectionNext]_(Collection!collectionVars)
<1>1. CASE Answered
  <2>1. /\ Outcome = "running"
        /\ readsNow' \in [First..Last -> 0..1]
        /\ \A b \in First..Last : readsNow[b] <= readsNow'[b]
        /\ Outcome' \in {"running", "complete"}
        /\ Outcome' = "complete" => \A b \in First..Last : readsNow'[b] = 1
    BY <1>1, AnswerCollects
  <2>2. Collection!Collect
    BY <2>1 DEF Collection!Collect, Collection!Blocks, readsNow
  <2>3. Outcome' = Outcome \/ Collection!Finish
    BY <2>1 DEF Collection!Finish, Collection!Blocks, readsNow
  <2>4. QED BY <2>2, <2>3 DEF Collection!CollectionNext
<1>2. CASE NewBlock \/ Reorganise \/ Start \/ UNCHANGED vars
           \/ \E error \in {"range", "rate", "network"} : Rejected(error)
  <2>1. /\ readsNow' = readsNow
        /\ Outcome' # Outcome => Outcome = "running" /\ Outcome' = "failed"
    BY <1>2, OthersCollectNothing
  <2>2. Outcome' # Outcome => Collection!Finish
    BY <2>1 DEF Collection!Finish
  <2>3. QED
    BY <2>1, <2>2 DEF Collection!CollectionNext, Collection!collectionVars, readsNow
<1>3. QED BY <1>1, <1>2 DEF Next, ScannerStep

\* For every range, chunk size, retry limit and provider limit, and however the
\* chain moves under the scan: every block of the range is read at most once, and
\* the scan is complete only when each was read.
THEOREM ScanCollects == Spec => ImplementsCollection
<1>1. ScanInv /\ ScanInv' /\ [Next]_vars =>
        [Collection!CollectionNext]_(Collection!collectionVars)
  BY StepCollects
<1>2. QED
  BY <1>1, CollectionInitial, ScanInvariant, PTL
     DEF Spec, ImplementsCollection, Collection!CollectionSpec

(***************************************************************************)
(* The concurrent scanner                                                  *)
(***************************************************************************)

\* Windows still to be read, and their blocks.
Windows == {t \in [from : First..ParallelLast, to : First..ParallelLast, attempt : Nat] : t.from <= t.to}
Span(t) == t.from..t.to

\* The blocks a call stack has yet to read; none of them twice.
Held(s) == {b \in First..ParallelLast : \E i \in DOMAIN s : b \in Span(s[i])}
StackOK(s) ==
  /\ s \in Seq(Windows)
  /\ \A i, j \in DOMAIN s : i # j => Span(s[i]) \cap Span(s[j]) = {}

\* What the workers hold is apart and not yet collected, and a block has been
\* handed out exactly if it is held by one of them or was collected.
ParallelInv ==
  /\ idx \in 0..Parallel!WindowCount
  /\ tasks \in [Workers -> Seq(Windows)]
  /\ collected \in [First..ParallelLast -> 0..1]
  /\ \A w \in Workers : StackOK(tasks[w])
  /\ \A w, v \in Workers : w # v => Held(tasks[w]) \cap Held(tasks[v]) = {}
  /\ \A w \in Workers : \A b \in Held(tasks[w]) : collected[b] = 0
  /\ \A b \in First..ParallelLast :
       b < First + idx * Width <=> collected[b] = 1 \/ \E w \in Workers : b \in Held(tasks[w])

\* A window put on a stack that holds none of its blocks.
LEMMA PushedStack ==
  ASSUME Parallel!ParallelAssumption, NEW s, StackOK(s), NEW t \in Windows,
         Span(t) \cap Held(s) = {}
  PROVE  StackOK(<<t>> \o s) /\ Held(<<t>> \o s) = Span(t) \cup Held(s)
<1> DEFINE p == <<t>> \o s
<1>1. s \in Seq(Windows) /\ <<t>> \in Seq(Windows) /\ Len(<<t>>) = 1 /\ <<t>>[1] = t
  BY DEF StackOK
<1>2. Len(s) \in Nat /\ DOMAIN s = 1..Len(s)
  BY <1>1
<1>3. p \in Seq(Windows) /\ Len(p) = Len(s) + 1 /\ DOMAIN p = 1..(Len(s) + 1)
  BY <1>1, <1>2
<1>4. p[1] = t /\ \A i \in 2..(Len(s) + 1) : p[i] = s[i - 1]
  BY <1>1, <1>2
<1> HIDE DEF p
<1>5. \A i \in DOMAIN p : i = 1 \/ i \in 2..(Len(s) + 1)
  BY <1>2, <1>3
<1>6. \A i \in 2..(Len(s) + 1) : i - 1 \in DOMAIN s
  BY <1>2
<1>7. \A i \in DOMAIN s : i + 1 \in 2..(Len(s) + 1) /\ i + 1 \in DOMAIN p /\ p[i + 1] = s[i]
  <2> TAKE i \in DOMAIN s
  <2>1. i + 1 \in 2..(Len(s) + 1) /\ i + 1 \in 1..(Len(s) + 1) /\ (i + 1) - 1 = i
    BY <1>2
  <2>2. QED BY <1>3, <1>4, <2>1
<1>8. \A i \in DOMAIN s : s[i] \in Windows
  BY <1>1
<1>9. \A u \in Windows : Span(u) \subseteq First..ParallelLast
  BY DEF Parallel!ParallelAssumption, Windows, Span
<1>10. Held(p) = Span(t) \cup Held(s)
  <2>1. Held(p) \subseteq Span(t) \cup Held(s)
    BY <1>4, <1>5, <1>6 DEF Held
  <2>2. Held(s) \subseteq Held(p)
    BY <1>7 DEF Held
  <2>3. 1 \in DOMAIN p
    BY <1>2, <1>3
  <2>4. Span(t) \subseteq Held(p)
    BY <1>4, <1>9, <2>3 DEF Held
  <2>5. QED BY <2>1, <2>2, <2>4
<1>11. ASSUME NEW i \in DOMAIN p, NEW j \in DOMAIN p, i # j
       PROVE  Span(p[i]) \cap Span(p[j]) = {}
  <2>1. \A k \in DOMAIN s : Span(s[k]) \subseteq Held(s)
    BY <1>8, <1>9 DEF Held
  <2>2. CASE i = 1
    <3>1. j - 1 \in DOMAIN s /\ p[j] = s[j - 1]
      BY <1>4, <1>5, <1>6, <1>11, <2>2
    <3>2. QED BY <1>4, <2>1, <2>2, <3>1
  <2>3. CASE j = 1
    <3>1. i - 1 \in DOMAIN s /\ p[i] = s[i - 1]
      BY <1>4, <1>5, <1>6, <1>11, <2>3
    <3>2. QED BY <1>4, <2>1, <2>3, <3>1
  <2>4. CASE i # 1 /\ j # 1
    <3>1. i \in 2..(Len(s) + 1) /\ j \in 2..(Len(s) + 1)
      BY <1>5, <2>4
    <3>2. i - 1 \in DOMAIN s /\ j - 1 \in DOMAIN s /\ i - 1 # j - 1
      BY <1>2, <1>6, <1>11, <3>1
    <3>3. p[i] = s[i - 1] /\ p[j] = s[j - 1]
      BY <1>4, <3>1
    <3>4. QED BY <3>2, <3>3 DEF StackOK
  <2>5. QED BY <2>2, <2>3, <2>4
<1>12. QED BY <1>3, <1>10, <1>11 DEF StackOK, p

\* The innermost call and what is left when it returns.
LEMMA PoppedStack ==
  ASSUME Parallel!ParallelAssumption, NEW s, StackOK(s), s # <<>>
  PROVE  /\ Head(s) \in Windows /\ StackOK(Tail(s))
         /\ Held(s) = Span(Head(s)) \cup Held(Tail(s))
         /\ Span(Head(s)) \cap Held(Tail(s)) = {}
<1> DEFINE r == Tail(s)
<1>1. s \in Seq(Windows) /\ Len(s) \in Nat /\ Len(s) # 0 /\ DOMAIN s = 1..Len(s)
  BY DEF StackOK
<1>2. r \in Seq(Windows) /\ Len(r) = Len(s) - 1 /\ DOMAIN r = 1..(Len(s) - 1)
  BY <1>1
<1>3. Head(s) = s[1] /\ s[1] \in Windows /\ \A i \in 1..(Len(s) - 1) : r[i] = s[i + 1]
  BY <1>1
<1> HIDE DEF r
<1>4. \A i \in DOMAIN r : i + 1 \in DOMAIN s /\ i + 1 # 1 /\ r[i] = s[i + 1]
  BY <1>1, <1>2, <1>3
<1>5. \A i \in DOMAIN s : i # 1 => i - 1 \in DOMAIN r /\ r[i - 1] = s[i]
  <2> SUFFICES ASSUME NEW i \in DOMAIN s, i # 1 PROVE i - 1 \in DOMAIN r /\ r[i - 1] = s[i]
    OBVIOUS
  <2>1. i - 1 \in 1..(Len(s) - 1) /\ (i - 1) + 1 = i
    BY <1>1
  <2>2. QED BY <1>2, <1>3, <2>1
<1>6. 1 \in DOMAIN s
  BY <1>1
<1>7. \A u \in Windows : Span(u) \subseteq First..ParallelLast
  BY DEF Parallel!ParallelAssumption, Windows, Span
<1>8. Held(s) = Span(s[1]) \cup Held(r)
  <2>1. Held(s) \subseteq Span(s[1]) \cup Held(r)
    BY <1>5 DEF Held
  <2>2. Held(r) \subseteq Held(s)
    BY <1>4 DEF Held
  <2>3. Span(s[1]) \subseteq Held(s)
    BY <1>3, <1>6, <1>7 DEF Held
  <2>4. QED BY <2>1, <2>2, <2>3
<1>9. Span(s[1]) \cap Held(r) = {}
  BY <1>4, <1>6 DEF Held, StackOK
<1>10. StackOK(r)
  <2>1. ASSUME NEW i \in DOMAIN r, NEW j \in DOMAIN r, i # j
        PROVE  Span(r[i]) \cap Span(r[j]) = {}
    <3>1. i + 1 \in DOMAIN s /\ j + 1 \in DOMAIN s /\ i + 1 # j + 1
      BY <1>2, <1>4, <2>1
    <3>2. QED BY <1>4, <3>1 DEF StackOK
  <2>2. QED BY <1>2, <2>1 DEF StackOK
<1>11. QED BY <1>3, <1>8, <1>9, <1>10 DEF r

\* Division rounds down.
LEMMA QuotientBounds ==
  ASSUME NEW a \in Nat, NEW d \in Nat \ {0}
  PROVE  a \div d \in Nat /\ (a \div d) * d <= a /\ a < (a \div d) * d + d
OBVIOUS

LEMMA ProductGrows ==
  ASSUME NEW i \in Nat, NEW j \in Nat, i <= j, NEW d \in Nat
  PROVE  i * d \in Nat /\ i * d <= j * d /\ (i + 1) * d = i * d + d
OBVIOUS

\* The windows built up front cut the range into pieces of one width.
LEMMA WindowSpan ==
  ASSUME Parallel!ParallelAssumption, NEW i \in Nat, i < Parallel!WindowCount
  PROVE  /\ Parallel!Window(i + 1) \in Windows
         /\ Span(Parallel!Window(i + 1))
              = {b \in First..ParallelLast : First + i * Width <= b /\ b < First + (i + 1) * Width}
<1> DEFINE q == Parallel!WindowCount
           x == i * Width
           t == Parallel!Window(i + 1)
<1>1. First \in Nat /\ ParallelLast \in Nat /\ First <= ParallelLast /\ Width \in Nat \ {0}
  BY DEF Parallel!ParallelAssumption
<1>2. q \in Nat /\ q * Width <= ParallelLast - First + Width
  BY <1>1, QuotientBounds DEF Parallel!WindowCount
<1>3. x \in Nat /\ (i + 1) * Width = x + Width
  BY <1>1, ProductGrows
<1>4. (i + 1) * Width <= q * Width
  <2>1. i + 1 \in Nat /\ i + 1 <= q
    BY <1>2
  <2> HIDE DEF q
  <2>2. QED BY <1>1, <1>2, <2>1, ProductGrows
<1>5. q * Width \in Nat
  BY <1>1, <1>2, ProductGrows
<1>6. x <= ParallelLast - First
  <2> HIDE DEF x, q
  <2>1. QED BY <1>1, <1>2, <1>3, <1>4, <1>5
<1>7. t = [from |-> First + x,
           to |-> IF First + x + Width - 1 < ParallelLast THEN First + x + Width - 1 ELSE ParallelLast,
           attempt |-> 0]
  <2>1. (i + 1) - 1 = i
    OBVIOUS
  <2>2. QED BY <2>1 DEF Parallel!Window, Parallel!Task
<1> HIDE DEF t, x
<1>8. /\ t.from = First + x
      /\ t.to = IF First + x + Width - 1 < ParallelLast THEN First + x + Width - 1 ELSE ParallelLast
  BY <1>7
<1>9. t \in Windows
  <2>1. First + x \in First..ParallelLast
    BY <1>1, <1>3, <1>6
  <2>2. (IF First + x + Width - 1 < ParallelLast THEN First + x + Width - 1 ELSE ParallelLast) \in (First + x)..ParallelLast
    BY <1>1, <1>3, <1>6
  <2>3. t \in [from : First..ParallelLast, to : First..ParallelLast, attempt : Nat]
    BY <1>1, <1>3, <1>7, <2>1, <2>2
  <2>4. QED BY <1>1, <1>3, <1>8, <2>2, <2>3 DEF Windows
<1>10. Span(t) = {b \in First..ParallelLast : First + x <= b /\ b < First + (x + Width)}
  BY <1>1, <1>3, <1>6, <1>8 DEF Span
<1>11. QED BY <1>3, <1>9, <1>10 DEF t, x

\* The windows reach to the end of the range.
LEMMA WindowsCover ==
  ASSUME Parallel!ParallelAssumption
  PROVE  Parallel!WindowCount \in Nat /\ ParallelLast < First + Parallel!WindowCount * Width
<1>1. First \in Nat /\ ParallelLast \in Nat /\ First <= ParallelLast /\ Width \in Nat \ {0}
  BY DEF Parallel!ParallelAssumption
<1> DEFINE a == ParallelLast - First + Width
<1>2. a \in Nat
  BY <1>1
<1> HIDE DEF a
<1>3. a \div Width \in Nat /\ a < (a \div Width) * Width + Width /\ (a \div Width) * Width \in Nat
  BY <1>1, <1>2, QuotientBounds, ProductGrows
<1>4. QED BY <1>1, <1>3 DEF Parallel!WindowCount, a

\* The halves of a window share no block and leave none out.
LEMMA HalvesSplit ==
  ASSUME Parallel!ParallelAssumption, NEW t \in Windows, t.to > t.from
  PROVE  LET a == Parallel!Task(t.from, Parallel!Middle(t), 0)
             b == Parallel!Task(Parallel!Middle(t) + 1, t.to, 0)
         IN  /\ Parallel!Halves(t) = <<a, b>> /\ a \in Windows /\ b \in Windows
             /\ Span(a) \cap Span(b) = {} /\ Span(a) \cup Span(b) = Span(t)
<1> DEFINE m == Parallel!Middle(t)
           a == [from |-> t.from, to |-> m, attempt |-> 0]
           b == [from |-> m + 1, to |-> t.to, attempt |-> 0]
<1>1. t.from \in First..ParallelLast /\ t.to \in First..ParallelLast /\ First \in Nat /\ ParallelLast \in Nat
  BY DEF Parallel!ParallelAssumption, Windows
<1>2. m \in t.from..(t.to - 1)
  BY <1>1 DEF Parallel!Middle
<1> HIDE DEF m
<1>3. a \in Windows /\ b \in Windows
  BY <1>1, <1>2 DEF Windows
<1>4. Span(a) = t.from..m /\ Span(b) = (m + 1)..t.to
  BY DEF Span
<1>5. Span(a) \cap Span(b) = {} /\ Span(a) \cup Span(b) = Span(t)
  BY <1>1, <1>2, <1>4 DEF Span
<1>6. QED BY <1>3, <1>5 DEF m, Parallel!Halves, Parallel!Task

(***************************************************************************)
(* Its steps                                                               *)
(***************************************************************************)

LEMMA ParallelInitInv == Parallel!ParallelAssumption /\ Parallel!Init => ParallelInv
<1> SUFFICES ASSUME Parallel!ParallelAssumption, Parallel!Init PROVE ParallelInv
  OBVIOUS
<1>1. /\ idx = 0 /\ tasks = [w \in Workers |-> <<>>]
      /\ collected = [b \in First..ParallelLast |-> 0]
  BY DEF Parallel!Init, Parallel!Blocks
<1>2. StackOK(<<>>) /\ Held(<<>>) = {}
  BY DEF StackOK, Held
<1>3. idx \in 0..Parallel!WindowCount
  BY <1>1, WindowsCover
<1>4. idx * Width = 0 /\ First \in Nat
  BY <1>1 DEF Parallel!ParallelAssumption
<1>5. tasks \in [Workers -> Seq(Windows)] /\ collected \in [First..ParallelLast -> 0..1]
  BY <1>1
<1>6. \A w \in Workers : Held(tasks[w]) = {} /\ StackOK(tasks[w])
  BY <1>1, <1>2
<1>7. \A b \in First..ParallelLast : ~(b < First + idx * Width) /\ collected[b] = 0
  BY <1>1, <1>4
<1>8. QED BY <1>3, <1>5, <1>6, <1>7 DEF ParallelInv

\* A worker's stack may be exchanged for another one of the same blocks.
LEMMA SameBlocksKeep ==
  ASSUME ParallelInv, NEW w \in Workers, NEW s, StackOK(s), Held(s) = Held(tasks[w]),
         tasks' = [tasks EXCEPT ![w] = s], UNCHANGED <<idx, collected>>
  PROVE  ParallelInv'
<1>1. s \in Seq(Windows)
  BY DEF StackOK
<1>2. tasks' \in [Workers -> Seq(Windows)] /\ \A v \in Workers : tasks'[v] = IF v = w THEN s ELSE tasks[v]
  BY <1>1 DEF ParallelInv
<1>3. \A v \in Workers : StackOK(tasks'[v]) /\ Held(tasks'[v]) = Held(tasks[v])
  BY <1>2 DEF ParallelInv
<1>4. QED BY <1>2, <1>3 DEF ParallelInv, Parallel!WindowCount

LEMMA TakeKeeps ==
  ASSUME Parallel!ParallelAssumption, ParallelInv, NEW w \in Workers, Parallel!Take(w)
  PROVE  ParallelInv' /\ collected' = collected
<1> DEFINE t == Parallel!Window(idx + 1)
           x == idx * Width
           y == (idx + 1) * Width
<1>1. /\ tasks[w] = <<>> /\ idx < Parallel!WindowCount
      /\ idx' = idx + 1 /\ tasks' = [tasks EXCEPT ![w] = <<t>>] /\ UNCHANGED collected
  BY DEF Parallel!Take, Parallel!Busy
<1>2. idx \in Nat /\ idx' \in 0..Parallel!WindowCount
  BY <1>1, WindowsCover DEF ParallelInv
<1>3. t \in Windows /\ Span(t) = {b \in First..ParallelLast : First + x <= b /\ b < First + y}
  BY <1>1, <1>2, WindowSpan
<1>4. First \in Nat /\ ParallelLast \in Nat /\ x \in Nat /\ y = x + Width /\ Width \in Nat
  BY <1>2, ProductGrows DEF Parallel!ParallelAssumption
<1>5. idx' * Width = y
  BY <1>1
<1> HIDE DEF t, x, y
<1>6. StackOK(<<t>>) /\ Held(<<t>>) = Span(t)
  <2>1. StackOK(<<>>) /\ Held(<<>>) = {} /\ <<t>> \o <<>> = <<t>>
    BY <1>3 DEF StackOK, Held
  <2>2. StackOK(<<t>> \o <<>>) /\ Held(<<t>> \o <<>>) = Span(t) \cup {}
    BY <1>3, <2>1, PushedStack
  <2>3. QED BY <2>1, <2>2
<1>7. /\ tasks' \in [Workers -> Seq(Windows)]
      /\ \A v \in Workers : tasks'[v] = IF v = w THEN <<t>> ELSE tasks[v]
  BY <1>1, <1>3 DEF ParallelInv
<1>8. \A b \in First..ParallelLast : b < First + x <=> collected[b] = 1 \/ \E v \in Workers : b \in Held(tasks[v])
  BY DEF ParallelInv, x
<1>9. \A v \in Workers : \A b \in Held(tasks[v]) : b < First + x /\ b \in First..ParallelLast
  BY <1>8 DEF Held
<1>10. Held(tasks[w]) = {}
  BY <1>1 DEF Held
<1>11. \A v \in Workers : Held(tasks'[v]) = (IF v = w THEN Span(t) ELSE Held(tasks[v])) /\ StackOK(tasks'[v])
  BY <1>6, <1>7 DEF ParallelInv
<1>12. \A v \in Workers : Span(t) \cap Held(tasks[v]) = {}
  BY <1>3, <1>4, <1>9
<1>13. \A u, v \in Workers : u # v => Held(tasks'[u]) \cap Held(tasks'[v]) = {}
  BY <1>11, <1>12 DEF ParallelInv
<1>14. \A v \in Workers : \A b \in Held(tasks'[v]) : collected[b] = 0
  <2>1. \A b \in Span(t) : collected[b] = 0
    <3>1. \A b \in Span(t) : b \in First..ParallelLast /\ collected[b] # 1
      BY <1>3, <1>4, <1>8
    <3>2. QED BY <3>1 DEF ParallelInv
  <2>2. QED BY <1>11, <2>1 DEF ParallelInv
<1>15. \A b \in First..ParallelLast :
         b < First + y <=> collected[b] = 1 \/ \E v \in Workers : b \in Held(tasks'[v])
  <2> TAKE b \in First..ParallelLast
  <2>1. b < First + y <=> b < First + x \/ b \in Span(t)
    BY <1>3, <1>4
  <2>2. (\E v \in Workers : b \in Held(tasks'[v])) <=> b \in Span(t) \/ \E v \in Workers : b \in Held(tasks[v])
    BY <1>10, <1>11
  <2>3. QED BY <1>8, <2>1, <2>2
<1>16. collected' = collected /\ UNCHANGED Parallel!WindowCount
  BY <1>1 DEF Parallel!WindowCount
<1>17. collected' \in [First..ParallelLast -> 0..1] /\ \A v \in Workers : StackOK(tasks'[v])
  BY <1>11, <1>16 DEF ParallelInv
<1>18. \A b \in First..ParallelLast :
         b < First + idx' * Width <=> collected'[b] = 1 \/ \E v \in Workers : b \in Held(tasks'[v])
  BY <1>5, <1>15, <1>16
<1>19. \A v \in Workers : \A b \in Held(tasks'[v]) : collected'[b] = 0
  BY <1>14, <1>16
<1>20. ParallelInv'
  BY ONLY <1>2, <1>7, <1>13, <1>16, <1>17, <1>18, <1>19 DEF ParallelInv
<1>21. QED BY <1>16, <1>20

\* An answer moves the blocks of one window from a stack to the array.
LEMMA FetchedKeeps ==
  ASSUME Parallel!ParallelAssumption, ParallelInv, NEW w \in Workers, Parallel!Fetched(w)
  PROVE  ParallelInv' /\ \A b \in First..ParallelLast : collected[b] <= collected'[b]
<1> DEFINE t == Head(tasks[w])
           r == Tail(tasks[w])
<1>1. /\ tasks[w] # <<>> /\ tasks' = [tasks EXCEPT ![w] = r] /\ UNCHANGED idx
      /\ collected' = [b \in DOMAIN collected |-> collected[b] + (IF b \in Span(t) THEN 1 ELSE 0)]
  BY DEF Parallel!Fetched, Parallel!Busy, Span
<1>2. StackOK(tasks[w]) /\ collected \in [First..ParallelLast -> 0..1]
  BY DEF ParallelInv
<1>3. /\ StackOK(r) /\ Held(tasks[w]) = Span(t) \cup Held(r) /\ Span(t) \cap Held(r) = {}
  BY <1>1, <1>2, PoppedStack
<1> HIDE DEF t, r
<1>4. r \in Seq(Windows)
  BY <1>3 DEF StackOK
<1>5. \A v \in Workers : tasks'[v] = IF v = w THEN r ELSE tasks[v]
  BY <1>1 DEF ParallelInv
<1>6. Span(t) \subseteq First..ParallelLast /\ \A b \in Span(t) : collected[b] = 0
  BY <1>3 DEF ParallelInv, Held
<1>7. \A b \in First..ParallelLast : collected'[b] = IF b \in Span(t) THEN 1 ELSE collected[b]
  BY <1>1, <1>2, <1>6
<1>8. collected' \in [First..ParallelLast -> 0..1]
  <2>1. \A b \in First..ParallelLast : (IF b \in Span(t) THEN 1 ELSE collected[b]) \in 0..1
    BY <1>2
  <2>2. DOMAIN collected' = First..ParallelLast
    BY <1>1, <1>2
  <2>3. collected' = [b \in First..ParallelLast |-> collected'[b]]
    BY <1>1, <2>2
  <2>4. QED BY <1>7, <2>1, <2>3
<1>9. \A v \in Workers : StackOK(tasks'[v]) /\ Held(tasks'[v]) = IF v = w THEN Held(r) ELSE Held(tasks[v])
  BY <1>3, <1>5 DEF ParallelInv
<1>10. \A u, v \in Workers : u # v => Held(tasks'[u]) \cap Held(tasks'[v]) = {}
  BY <1>3, <1>9 DEF ParallelInv
<1>11. \A v \in Workers : Held(tasks'[v]) \cap Span(t) = {} /\ Held(tasks'[v]) \subseteq Held(tasks[v])
  BY <1>3, <1>9 DEF ParallelInv
<1>12. \A v \in Workers : \A b \in Held(tasks'[v]) : collected'[b] = 0
  <2>1. \A v \in Workers : \A b \in Held(tasks[v]) : b \in First..ParallelLast /\ collected[b] = 0
    BY DEF ParallelInv, Held
  <2>2. QED BY <1>7, <1>11, <2>1
<1>13. \A b \in First..ParallelLast :
         b < First + idx * Width <=> collected'[b] = 1 \/ \E v \in Workers : b \in Held(tasks'[v])
  <2> TAKE b \in First..ParallelLast
  <2>1. (\E v \in Workers : b \in Held(tasks[v]))
          <=> b \in Span(t) \/ \E v \in Workers : b \in Held(tasks'[v])
    BY <1>3, <1>9
  <2>2. b < First + idx * Width <=> collected[b] = 1 \/ \E v \in Workers : b \in Held(tasks[v])
    BY DEF ParallelInv
  <2>3. QED BY <1>7, <2>1, <2>2
<1>14. tasks' \in [Workers -> Seq(Windows)]
  BY <1>1, <1>4 DEF ParallelInv
<1>15. \A b \in First..ParallelLast : collected[b] <= collected'[b]
  BY <1>2, <1>7
<1>16. QED
  BY <1>1, <1>8, <1>9, <1>10, <1>12, <1>13, <1>14, <1>15 DEF ParallelInv, Parallel!WindowCount

\* Two windows put on a stack at once, or one after the other.
LEMMA PushTwice ==
  ASSUME NEW a \in Windows, NEW b \in Windows, NEW r \in Seq(Windows)
  PROVE  <<a, b>> \o r = <<a>> \o (<<b>> \o r)
<1> DEFINE x == <<a, b>> \o r
           s == <<b>> \o r
           y == <<a>> \o s
<1>1. Len(r) \in Nat
  OBVIOUS
<1>2. x \in Seq(Windows) /\ Len(x) = Len(r) + 2
  BY <1>1
<1>3. x[1] = a /\ x[2] = b /\ \A i \in 3..(Len(r) + 2) : x[i] = r[i - 2]
  BY <1>1
<1>4. s \in Seq(Windows) /\ Len(s) = Len(r) + 1 /\ s[1] = b /\ \A i \in 2..(Len(r) + 1) : s[i] = r[i - 1]
  BY <1>1
<1> HIDE DEF s, x
<1>5. y \in Seq(Windows) /\ Len(y) = Len(r) + 2 /\ y[1] = a /\ \A i \in 2..(Len(r) + 2) : y[i] = s[i - 1]
  BY <1>1, <1>4
<1> HIDE DEF y
<1>6. ASSUME NEW i \in 1..(Len(r) + 2) PROVE x[i] = y[i]
  <2>1. CASE i = 1
    BY <1>3, <1>5, <2>1
  <2>2. CASE i = 2
    BY <1>1, <1>3, <1>4, <1>5, <2>2
  <2>3. CASE i \in 3..(Len(r) + 2)
    <3>1. i - 1 \in 2..(Len(r) + 1) /\ (i - 1) - 1 = i - 2
      BY <1>1, <2>3
    <3>2. y[i] = s[i - 1] /\ s[i - 1] = r[i - 2]
      BY <1>1, <1>4, <1>5, <3>1
    <3>3. QED BY <1>3, <2>3, <3>2
  <2>4. QED BY <1>1, <2>1, <2>2, <2>3
<1>7. x = y
  BY <1>2, <1>5, <1>6
<1>8. QED BY <1>7 DEF x, y, s

LEMMA ParallelRejectedKeeps ==
  ASSUME Parallel!ParallelAssumption, ParallelInv, NEW w \in Workers, NEW error \in {"limit", "network"},
         Parallel!Rejected(w, error)
  PROVE  /\ ParallelInv' /\ collected' = collected
         /\ outcome' # outcome => outcome = "running" /\ outcome' = "failed"
<1> DEFINE t == Head(tasks[w])
           r == Tail(tasks[w])
           splits == t.to > t.from /\ Parallel!LooksLikeRange(error)
<1>1. tasks[w] # <<>> /\ outcome = "running" /\ UNCHANGED <<idx, collected>>
  BY DEF Parallel!Rejected, Parallel!Busy
<1>2. /\ t \in Windows /\ StackOK(r)
      /\ Held(tasks[w]) = Span(t) \cup Held(r) /\ Span(t) \cap Held(r) = {}
  <2>1. StackOK(tasks[w])
    BY DEF ParallelInv
  <2>2. QED BY <1>1, <2>1, PoppedStack
<1>3. \/ splits /\ tasks' = [tasks EXCEPT ![w] = Parallel!Halves(t) \o r] /\ UNCHANGED outcome
      \/ tasks' = [tasks EXCEPT ![w] = <<Parallel!Retry(t)>> \o r] /\ UNCHANGED outcome
      \/ outcome' = "failed" /\ UNCHANGED tasks
  BY DEF Parallel!Rejected
<1> HIDE DEF t, r
<1>4. ASSUME NEW p, StackOK(p), Held(p) = Held(tasks[w]), tasks' = [tasks EXCEPT ![w] = p]
      PROVE  ParallelInv'
  BY <1>1, <1>4, SameBlocksKeep
<1>5. CASE splits /\ tasks' = [tasks EXCEPT ![w] = Parallel!Halves(t) \o r] /\ UNCHANGED outcome
  <2> DEFINE a == Parallel!Task(t.from, Parallel!Middle(t), 0)
             b == Parallel!Task(Parallel!Middle(t) + 1, t.to, 0)
  <2>1. /\ Parallel!Halves(t) = <<a, b>> /\ a \in Windows /\ b \in Windows
        /\ Span(a) \cap Span(b) = {} /\ Span(a) \cup Span(b) = Span(t)
    BY <1>2, <1>5, HalvesSplit
  <2> HIDE DEF a, b
  <2>2. Span(b) \cap Held(r) = {}
    BY <1>2, <2>1
  <2>3. StackOK(<<b>> \o r) /\ Held(<<b>> \o r) = Span(b) \cup Held(r)
    BY <1>2, <2>1, <2>2, PushedStack
  <2> DEFINE s == <<b>> \o r
  <2>4. Span(a) \cap Held(s) = {}
    BY <1>2, <2>1, <2>3
  <2>5. StackOK(s) /\ Held(s) = Span(b) \cup Held(r)
    BY <2>3
  <2> HIDE DEF s
  <2>6. StackOK(<<a>> \o s) /\ Held(<<a>> \o s) = Span(a) \cup Held(s)
    BY <2>1, <2>4, <2>5, PushedStack
  <2>7. <<a, b>> \o r = <<a>> \o s
    <3>1. r \in Seq(Windows)
      BY <1>2 DEF StackOK
    <3>2. <<a, b>> \o r = <<a>> \o (<<b>> \o r)
      BY <2>1, <3>1, PushTwice
    <3>3. QED BY <3>2 DEF s
  <2>8. Held(<<a>> \o s) = Held(tasks[w])
    BY <1>2, <2>1, <2>5, <2>6
  <2>9. tasks' = [tasks EXCEPT ![w] = <<a>> \o s]
    BY <1>5, <2>1, <2>7
  <2> DEFINE p == <<a>> \o s
  <2>10. StackOK(p) /\ Held(p) = Held(tasks[w]) /\ tasks' = [tasks EXCEPT ![w] = p]
    BY <2>6, <2>8, <2>9
  <2> HIDE DEF p
  <2>11. ParallelInv'
    BY <1>1, <1>4, <2>10
  <2>12. QED BY <1>1, <1>5, <2>11
<1>6. CASE tasks' = [tasks EXCEPT ![w] = <<Parallel!Retry(t)>> \o r] /\ UNCHANGED outcome
  <2> DEFINE u == Parallel!Retry(t)
  <2>1. u \in Windows /\ Span(u) = Span(t)
    <3>1. t \in [from : First..ParallelLast, to : First..ParallelLast, attempt : Nat] /\ t.from <= t.to
      BY <1>2 DEF Windows
    <3>2. u \in [from : First..ParallelLast, to : First..ParallelLast, attempt : Nat] /\ u.from = t.from /\ u.to = t.to
      BY <3>1 DEF Parallel!Retry
    <3>3. QED BY <3>1, <3>2 DEF Windows, Span
  <2> HIDE DEF u
  <2>2. StackOK(<<u>> \o r) /\ Held(<<u>> \o r) = Span(u) \cup Held(r)
    BY <1>2, <2>1, PushedStack
  <2> DEFINE p == <<u>> \o r
  <2>3. StackOK(p) /\ Held(p) = Held(tasks[w]) /\ tasks' = [tasks EXCEPT ![w] = p]
    BY <1>2, <1>6, <2>1, <2>2 DEF u
  <2> HIDE DEF p
  <2>4. ParallelInv'
    BY <1>1, <1>4, <2>3
  <2>5. QED BY <1>1, <1>6, <2>4
<1>7. CASE outcome' = "failed" /\ UNCHANGED tasks
  BY <1>1, <1>7 DEF ParallelInv, Parallel!WindowCount
<1>8. QED BY <1>3, <1>5, <1>6, <1>7

\* All windows handed out and no worker busy: every block was collected.
LEMMA FinishComplete ==
  ASSUME Parallel!ParallelAssumption, ParallelInv, Parallel!Finish
  PROVE  ParallelInv' /\ collected' = collected /\ \A b \in First..ParallelLast : collected[b] = 1
<1>1. /\ idx = Parallel!WindowCount /\ \A w \in Workers : tasks[w] = <<>>
      /\ UNCHANGED <<idx, tasks, collected>>
  BY DEF Parallel!Finish, Parallel!Busy
<1>2. \A w \in Workers : Held(tasks[w]) = {}
  BY <1>1 DEF Held
<1> DEFINE y == Parallel!WindowCount * Width
<1>3. ParallelLast < First + y /\ First \in Nat /\ ParallelLast \in Nat /\ y \in Nat
  BY WindowsCover, ProductGrows DEF Parallel!ParallelAssumption
<1>4. \A b \in First..ParallelLast : b < First + y <=> collected[b] = 1 \/ \E w \in Workers : b \in Held(tasks[w])
  BY <1>1 DEF ParallelInv
<1> HIDE DEF y
<1>5. \A b \in First..ParallelLast : collected[b] = 1
  BY <1>2, <1>3, <1>4
<1>6. QED BY <1>1, <1>5 DEF ParallelInv, Parallel!WindowCount

\* From its initial state on, a step of the concurrent scanner is a step of the
\* collection it stands for or none.
LEMMA ParallelStepCollects ==
  ASSUME Parallel!ParallelAssumption, ParallelInv, [Parallel!Next]_(Parallel!vars)
  PROVE  /\ ParallelInv'
         /\ [Parallel!Collection!CollectionNext]_(Parallel!Collection!collectionVars)
<1> USE DEF Parallel!Collection!CollectionNext, Parallel!Collection!Collect, Parallel!Collection!Finish,
            Parallel!Collection!collectionVars, Parallel!Collection!Blocks
<1>1. ASSUME NEW w \in Workers, Parallel!Take(w)
      PROVE  ParallelInv' /\ UNCHANGED <<collected, outcome>>
  BY <1>1, TakeKeeps DEF Parallel!Take
<1>2. ASSUME NEW w \in Workers, Parallel!Fetched(w)
      PROVE  ParallelInv' /\ Parallel!Collection!CollectionNext
  <2>1. ParallelInv' /\ \A b \in First..ParallelLast : collected[b] <= collected'[b]
    BY <1>2, FetchedKeeps
  <2>2. outcome = "running" /\ UNCHANGED outcome
    BY <1>2 DEF Parallel!Fetched
  <2>3. collected' \in [First..ParallelLast -> 0..1]
    BY <2>1 DEF ParallelInv
  <2>4. QED BY <2>1, <2>2, <2>3
<1>3. ASSUME NEW w \in Workers, NEW error \in {"limit", "network"}, Parallel!Rejected(w, error)
      PROVE  ParallelInv' /\ (UNCHANGED <<collected, outcome>> \/ Parallel!Collection!CollectionNext)
  <2>1. /\ ParallelInv' /\ collected' = collected
        /\ outcome' # outcome => outcome = "running" /\ outcome' = "failed"
    BY <1>3, ParallelRejectedKeeps
  <2>2. QED BY <2>1
<1>4. CASE Parallel!Finish
  <2>1. ParallelInv' /\ collected' = collected /\ \A b \in First..ParallelLast : collected[b] = 1
    BY <1>4, FinishComplete
  <2>2. outcome = "running" /\ outcome' = "complete"
    BY <1>4 DEF Parallel!Finish
  <2>3. QED BY <2>1, <2>2
<1>5. CASE UNCHANGED Parallel!vars
  BY <1>5 DEF Parallel!vars, ParallelInv, Parallel!WindowCount
<1>6. QED BY <1>1, <1>2, <1>3, <1>4, <1>5 DEF Parallel!Next, Parallel!WorkerStep

\* However many workers there are, however the windows are split and retried,
\* and in whatever order the answers arrive: every block of the range is read at
\* most once, and the scan is complete only when each was read.
THEOREM ParallelScanCollects ==
  ASSUME Parallel!ParallelAssumption
  PROVE  Parallel!Spec => ParallelCollects
<1>1. Parallel!Init => Parallel!Collection!CollectionInit
  BY DEF Parallel!Init, Parallel!Collection!CollectionInit, Parallel!Blocks, Parallel!Collection!Blocks
<1>2. ParallelInv /\ [Parallel!Next]_(Parallel!vars) => ParallelInv'
  BY ParallelStepCollects
<1>3. ParallelInv /\ [Parallel!Next]_(Parallel!vars) =>
        [Parallel!Collection!CollectionNext]_(Parallel!Collection!collectionVars)
  BY ParallelStepCollects
<1>4. Parallel!Init => ParallelInv
  BY ParallelInitInv
<1>5. QED
  BY <1>1, <1>2, <1>3, <1>4, PTL
     DEF Parallel!Spec, ParallelCollects, Parallel!ParallelCollects, Parallel!Collection!CollectionSpec

(***************************************************************************)
(* The command line                                                        *)
(***************************************************************************)

ArtifactContents == (Chains \cup {NodeChain}) \X (SUBSET Excludable) \X Artifacts
Documents ==
  [content : ArtifactContents, cid : SUBSET [content : ArtifactContents, stamped : BOOLEAN]]

\* A CID, in memory or on disk, addresses pinned bytes of its own document; the
\* document in memory is the one of this run's options, and it stays there after
\* a run only as the file's.
CliInv ==
  /\ options \in [excluded : SUBSET Excludable, chain : Chains \cup {NodeChain},
                  pin : BOOLEAN, api : BOOLEAN]
  /\ artifact \subseteq Documents /\ output.document \subseteq Documents
  /\ \A document \in artifact \cup output.document : \A bytes \in document.cid :
       bytes \in pinned /\ bytes = Cli!Bytes(document.content, FALSE)
  /\ \A document \in artifact :
       document.content[1] = options.chain /\ document.content[2] = options.excluded
  /\ exit = "0" => step = "idle"
  /\ step = "idle" => artifact = {} \/ output.document = artifact

LEMMA CliInitInv == Cli!RunInit => CliInv
<1> SUFFICES ASSUME Cli!RunInit PROVE CliInv
  OBVIOUS
<1>1. options = [excluded |-> {}, chain |-> NodeChain, pin |-> FALSE, api |-> FALSE]
  BY DEF Cli!RunInit
<1>2. artifact = {} /\ output.document = {} /\ exit # "0"
  BY DEF Cli!RunInit, Cli!NoFile
<1>3. QED BY <1>1, <1>2 DEF CliInv

LEMMA StartRunKeeps == ASSUME CliInv, Cli!Start PROVE CliInv'
<1>1. PICK flags \in Cli!Flags, env \in Cli!Environment, listed \in Cli!ReadExcludeFile :
        /\ options' = Cli!SnapshotInput(flags, env, listed)
        /\ exit' # "0"
  BY DEF Cli!Start
<1>2. artifact' = {} /\ output' = output /\ pinned' = pinned
  BY DEF Cli!Start
<1>3. /\ flags.exclude \subseteq Excludable /\ flags.pinIpfs \in BOOLEAN
      /\ flags.chainId \in Chains \cup {Cli!Unset}
      /\ env.api \in BOOLEAN /\ listed.addresses \subseteq Excludable
  <2>1. listed \in [ok : {TRUE}, addresses : SUBSET Excludable] \/ listed = [ok |-> FALSE, addresses |-> {}]
    BY DEF Cli!ReadExcludeFile
  <2>2. listed.addresses \subseteq Excludable
    <3>1. CASE listed \in [ok : {TRUE}, addresses : SUBSET Excludable]
      BY <3>1
    <3>2. CASE listed = [ok |-> FALSE, addresses |-> {}]
      <4>1. listed.addresses = {}
        BY <3>2, Zenon
      <4>2. QED BY <4>1
    <3>3. QED BY <2>1, <3>1, <3>2
  <2>3. /\ flags.exclude \subseteq Excludable /\ flags.pinIpfs \in BOOLEAN
        /\ flags.chainId \in Chains \cup {Cli!Unset}
    BY DEF Cli!Flags
  <2>4. env.api \in BOOLEAN
    BY DEF Cli!Environment
  <2>5. QED BY <2>2, <2>3, <2>4
<1>4. options' \in [excluded : SUBSET Excludable, chain : Chains \cup {NodeChain},
                    pin : BOOLEAN, api : BOOLEAN]
  BY <1>1, <1>3 DEF Cli!SnapshotInput
<1>5. QED BY <1>1, <1>2, <1>4 DEF CliInv, Cli!Bytes

LEMMA GenerateKeeps == ASSUME CliInv, Cli!Generate PROVE CliInv'
<1>1. PICK holders \in Artifacts :
        artifact' = {[content |-> <<options.chain, options.excluded, holders>>, cid |-> {}]}
  BY DEF Cli!Generate
<1> DEFINE c == <<options.chain, options.excluded, holders>>
           d == [content |-> c, cid |-> {}]
<1>2. c \in ArtifactContents /\ c[1] = options.chain /\ c[2] = options.excluded
  BY DEF CliInv, ArtifactContents
<1>3. artifact' = {d}
  BY <1>1
<1> HIDE DEF c
<1>4. d \in Documents /\ d.content = c /\ d.cid = {}
  BY <1>2 DEF Documents
<1> HIDE DEF d
<1>5. step = "generating" /\ step' = "generated" /\ UNCHANGED <<options, output, pinned, exit>>
  BY DEF Cli!Generate
<1>6. exit # "0"
  BY <1>5 DEF CliInv
<1>7. QED BY <1>2, <1>3, <1>4, <1>5, <1>6 DEF CliInv, Cli!Bytes

LEMMA PinKeeps == ASSUME CliInv, Cli!Pin PROVE CliInv'
<1>1. step = "generated" /\ step' = "writing" /\ UNCHANGED <<options, output, exit>> /\ exit # "0"
  BY DEF Cli!Pin, CliInv
<1>2. CASE UNCHANGED <<artifact, pinned>>
  BY <1>1, <1>2 DEF CliInv, Cli!Bytes
<1>3. ASSUME NEW document \in artifact, NEW response \in Cli!Responses, Cli!HttpPin(document, response)
      PROVE  CliInv'
  <2> DEFINE b == Cli!Upload(document)
             x == Cli!ExtractCid(response, b)
             d == [document EXCEPT !.cid = x]
  <2>1. document \in Documents /\ document.content \in ArtifactContents
    BY DEF CliInv, Documents
  <2>2. b = Cli!Bytes(document.content, FALSE) /\ b \in [content : ArtifactContents, stamped : BOOLEAN]
    BY <2>1 DEF Cli!Upload, Cli!Bytes
  <2>3. /\ artifact' = {d}
        /\ pinned' \in {pinned \cup {b}} \cup (IF response = "error" THEN {pinned} ELSE {})
    BY <1>3 DEF Cli!HttpPin
  <2>4. x = {} \/ (x = {b} /\ response = "cid")
    BY DEF Cli!ExtractCid
  <2> HIDE DEF b, x
  <2>5. d \in Documents /\ d.content = document.content /\ d.cid = x
    BY <2>1, <2>2, <2>4 DEF Documents
  <2> HIDE DEF d
  <2>6. pinned \subseteq pinned' /\ \A bytes \in x : bytes \in pinned' /\ bytes = Cli!Bytes(document.content, FALSE)
    BY <2>2, <2>3, <2>4
  <2>7. document.content[1] = options.chain /\ document.content[2] = options.excluded
    BY DEF CliInv
  <2>8. QED BY <1>1, <2>3, <2>5, <2>6, <2>7 DEF CliInv, Cli!Bytes
<1>4. QED BY <1>2, <1>3 DEF Cli!Pin, Cli!NoopPin

LEMMA CliStepKeeps == ASSUME CliInv, [Cli!RunNext]_(Cli!runVars) PROVE CliInv'
<1>1. CASE Cli!RejectFlags
  BY <1>1 DEF Cli!RejectFlags, CliInv, Cli!Bytes
<1>2. CASE Cli!Write
  <2>1. /\ output' = [state |-> "written", document |-> artifact]
        /\ step' = "idle" /\ UNCHANGED <<options, artifact, pinned>>
    BY <1>2 DEF Cli!Write
  <2>2. output'.document = artifact
    BY <2>1
  <2>3. QED BY <2>1, <2>2 DEF CliInv, Cli!Bytes
<1>3. CASE Cli!Kill
  <2>1. artifact' = {} /\ exit' = "1" /\ UNCHANGED <<options, pinned>>
    BY <1>3 DEF Cli!Kill
  <2>2. output' = output \/ output'.document = {}
    BY <1>3 DEF Cli!Kill
  <2>3. QED BY <2>1, <2>2 DEF CliInv, Cli!Bytes
<1>4. CASE Cli!Verify
  BY <1>4 DEF Cli!Verify, CliInv, Cli!Bytes
<1>5. CASE UNCHANGED Cli!runVars
  BY <1>5 DEF Cli!runVars, CliInv, Cli!Bytes
<1>6. QED
  BY <1>1, <1>2, <1>3, <1>4, <1>5, StartRunKeeps, GenerateKeeps, PinKeeps DEF Cli!RunNext

\* Through failed uploads, answers nobody could read, kills and reruns: the CID
\* in the file addresses pinned bytes, the file's own without the CID, and a run
\* that ended well has left its own file.
THEOREM CidsMatchFiles == Cli!RunSpec => []PinMatchesFile
<1>1. CliInv /\ [Cli!RunNext]_(Cli!runVars) => CliInv'
  BY CliStepKeeps
<1>2. CliInv => PinMatchesFile
  BY DEF CliInv, PinMatchesFile, Cli!PinMatchesFile
<1>3. QED BY CliInitInv, <1>1, <1>2, PTL DEF Cli!RunSpec

(***************************************************************************)
(* The store of proofs                                                     *)
(***************************************************************************)

ShardKeys == Ids \X Store!Prefixes

\* What the caches may hold: an entry is of its own action, and a process that
\* was started over a complete store has remembered no missing file.
CachesSound ==
  /\ DOMAIN shardCache = ShardKeys /\ DOMAIN wholeCache = Ids
  /\ \A id \in Ids : \A prefix \in Store!Prefixes : shardCache[<<id, prefix>>] \in {"unknown", "null", id}
  /\ \A id \in Ids : wholeCache[id] \in {"unknown", "null", id}
  /\ fresh => /\ Store!Complete
              /\ \A id \in Ids : \A h \in HoldersOf[id] :
                   id \in Sharded => shardCache[<<id, PrefixOf[h]>>] # "null"
              /\ \A id \in Ids : id \notin Sharded => wholeCache[id] # "null"

ReceiptsSound ==
  /\ DOMAIN txCache = Ids \X Payees /\ DOMAIN claimedAt = Ids \X Payees
  /\ \A key \in Ids \X Payees : txCache[key] \in {-1, 0, claimedAt[key]}

StoreInv ==
  /\ DOMAIN shards = ShardKeys /\ DOMAIN wholes = Ids
  /\ CachesSound /\ ReceiptsSound /\ Store!AnswersTrue

LEMMA StoreInitInv == Store!StoreAssumption /\ Store!StoreInit => StoreInv
<1> SUFFICES ASSUME Store!StoreAssumption, Store!StoreInit PROVE StoreInv
  OBVIOUS
<1>1. /\ shards = [key \in ShardKeys |-> "absent"] /\ wholes = [id \in Ids |-> "absent"]
      /\ shardCache = [key \in ShardKeys |-> "unknown"] /\ wholeCache = [id \in Ids |-> "unknown"]
      /\ txCache = [key \in Ids \X Payees |-> -1] /\ claimedAt = [key \in Ids \X Payees |-> 0]
      /\ fresh = FALSE
  BY DEF Store!StoreInit, ShardKeys
<1>2. reply.route = "none"
  BY DEF Store!StoreInit, Store!NoReply
<1>3. \A id \in Ids : \A prefix \in Store!Prefixes : shardCache[<<id, prefix>>] = "unknown"
  BY <1>1 DEF ShardKeys
<1>4. CachesSound
  BY <1>1, <1>3 DEF CachesSound
<1>5. ReceiptsSound
  BY <1>1 DEF ReceiptsSound
<1>6. QED BY <1>1, <1>2, <1>4, <1>5 DEF StoreInv, Store!AnswersTrue

\* Files are only ever completed, so a complete store stays complete.
LEMMA FilesKeep ==
  ASSUME Store!StoreAssumption, StoreInv, DOMAIN shards' = ShardKeys, DOMAIN wholes' = Ids,
         \A key \in ShardKeys : shards[key] = "written" => shards'[key] = "written",
         \A id \in Ids : wholes[id] = "written" => wholes'[id] = "written",
         UNCHANGED <<claimedAt, shardCache, wholeCache, txCache, fresh>>, reply' = Store!NoReply
  PROVE  StoreInv'
<1>1. Store!Complete => Store!Complete'
  <2> SUFFICES ASSUME Store!Complete, NEW id \in Ids PROVE Store!Published(id)'
    BY DEF Store!Complete
  <2>1. \A h \in HoldersOf[id] : <<id, PrefixOf[h]>> \in ShardKeys
    BY DEF ShardKeys, Store!Prefixes, Store!StoreAssumption
  <2>2. QED BY <2>1 DEF Store!Complete, Store!Published
<1>2. CachesSound'
  BY <1>1 DEF StoreInv, CachesSound
<1>3. ReceiptsSound'
  BY DEF StoreInv, ReceiptsSound
<1>4. reply'.route = "none"
  BY DEF Store!NoReply
<1>5. QED BY <1>2, <1>3, <1>4 DEF StoreInv, Store!AnswersTrue

LEMMA GetProofKeeps ==
  ASSUME Store!StoreAssumption, StoreInv, NEW id \in Ids, NEW h \in Payees, Store!GetProof(id, h)
  PROVE  StoreInv'
<1> DEFINE key == <<id, PrefixOf[h]>>
           shard == Store!LoadShard(id, PrefixOf[h])
           found == Store!EntryIn(shard, h)
           whole == Store!LoadWhole(id)
           answer == IF found # "none" THEN found ELSE Store!EntryIn(whole, h)
<1>1. /\ shardCache' = [shardCache EXCEPT ![key] = shard]
      /\ wholeCache' = IF found # "none" THEN wholeCache ELSE [wholeCache EXCEPT ![id] = whole]
      /\ reply' = [route |-> "proof", id |-> id, holder |-> h, from |-> answer, block |-> 0]
      /\ UNCHANGED <<shards, wholes, claimedAt, txCache, fresh>>
  BY DEF Store!GetProof, Store!ShardKey, Store!disk, Store!chain
<1>2. key \in ShardKeys
  BY DEF ShardKeys, Store!Prefixes
<1>3. shard \in {"null", id} /\ whole \in {"null", id}
  BY DEF StoreInv, CachesSound, Store!LoadShard, Store!LoadWhole, Store!ShardKey, Store!Prefixes
<1>4. fresh /\ h \in HoldersOf[id] =>
        /\ id \in Sharded => shard = id
        /\ id \notin Sharded => whole = id
  <2> SUFFICES ASSUME fresh, h \in HoldersOf[id]
               PROVE  (id \in Sharded => shard = id) /\ (id \notin Sharded => whole = id)
    OBVIOUS
  <2>1. Store!Published(id)
    BY DEF StoreInv, CachesSound, Store!Complete
  <2>2. ASSUME id \in Sharded PROVE shard = id
    <3>1. shards[key] = "written"
      BY <2>1, <2>2 DEF Store!Published
    <3>2. shardCache[key] \in {"unknown", id}
      BY <2>2 DEF StoreInv, CachesSound, Store!Prefixes
    <3>3. QED BY <3>1, <3>2 DEF Store!LoadShard, Store!ShardKey
  <2>3. ASSUME id \notin Sharded PROVE whole = id
    <3>1. wholes[id] = "written" /\ wholeCache[id] \in {"unknown", id}
      BY <2>1, <2>3 DEF StoreInv, CachesSound, Store!Published
    <3>2. QED BY <3>1 DEF Store!LoadWhole
  <2>4. QED BY <2>2, <2>3
<1>5. id # "none" /\ id # "null" /\ "null" \notin Ids
  BY DEF Store!StoreAssumption
<1> HIDE DEF shard, whole
<1>6. /\ found = (IF shard = id /\ h \in HoldersOf[id] THEN id ELSE "none")
      /\ Store!EntryIn(whole, h) = (IF whole = id /\ h \in HoldersOf[id] THEN id ELSE "none")
  BY <1>3, <1>5 DEF Store!EntryIn
<1> HIDE DEF found
<1>7. /\ answer \in {"none", id}
      /\ answer # "none" => h \in HoldersOf[id]
      /\ fresh /\ h \in HoldersOf[id] => answer = id
  BY <1>4, <1>5, <1>6
<1> HIDE DEF answer
<1>8. /\ reply'.route = "proof" /\ reply'.id = id /\ reply'.holder = h /\ reply'.from = answer
  BY <1>1
<1>9. Store!AnswersTrue'
  BY <1>1, <1>7, <1>8 DEF Store!AnswersTrue
<1>10. /\ DOMAIN shardCache' = ShardKeys /\ DOMAIN wholeCache' = Ids
       /\ \A k \in ShardKeys : shardCache'[k] = IF k = key THEN shard ELSE shardCache[k]
       /\ \A i \in Ids : wholeCache'[i] \in {wholeCache[i]} \cup (IF i = id THEN {whole} ELSE {})
  BY <1>1, <1>2 DEF StoreInv, CachesSound
<1>11. \A i \in Ids : \A prefix \in Store!Prefixes :
         /\ <<i, prefix>> \in ShardKeys
         /\ shardCache'[<<i, prefix>>] \in {"unknown", "null", i}
  <2> TAKE i \in Ids
  <2> TAKE prefix \in Store!Prefixes
  <2>1. <<i, prefix>> \in ShardKeys
    BY DEF ShardKeys
  <2>2. <<i, prefix>> = key => i = id
    OBVIOUS
  <2>3. shardCache[<<i, prefix>>] \in {"unknown", "null", i}
    BY DEF StoreInv, CachesSound
  <2>4. QED BY <1>3, <1>10, <2>1, <2>2, <2>3
<1>12. Store!Complete' = Store!Complete
  BY <1>1 DEF Store!Complete, Store!Published
<1>13. ASSUME fresh, NEW i \in Ids
       PROVE  /\ \A g \in HoldersOf[i] : i \in Sharded => shardCache'[<<i, PrefixOf[g]>>] # "null"
              /\ i \notin Sharded => wholeCache'[i] # "null"
  <2>1. ASSUME NEW g \in HoldersOf[i], i \in Sharded PROVE shardCache'[<<i, PrefixOf[g]>>] # "null"
    <3>1. <<i, PrefixOf[g]>> \in ShardKeys /\ shardCache[<<i, PrefixOf[g]>>] # "null"
      BY <1>13, <2>1 DEF StoreInv, CachesSound, ShardKeys, Store!Prefixes, Store!StoreAssumption
    <3>2. CASE <<i, PrefixOf[g]>> = key
      <4>1. i = id /\ PrefixOf[g] = PrefixOf[h]
        BY <3>2
      <4>2. Store!Published(id) /\ shards[key] = "written"
        BY <1>13, <2>1, <4>1 DEF StoreInv, CachesSound, Store!Complete, Store!Published
      <4>3. shard = id
        BY <3>1, <4>1, <4>2 DEF StoreInv, CachesSound, shard, Store!LoadShard, Store!ShardKey, Store!Prefixes
      <4>4. QED BY <1>5, <1>10, <3>1, <3>2, <4>3
    <3>3. QED BY <1>10, <3>1, <3>2
  <2>2. ASSUME i \notin Sharded PROVE wholeCache'[i] # "null"
    <3>1. wholeCache[i] # "null" /\ wholes[i] = "written"
      BY <1>13, <2>2 DEF StoreInv, CachesSound, Store!Complete, Store!Published
    <3>2. i = id => whole = id
      BY <3>1 DEF StoreInv, CachesSound, whole, Store!LoadWhole
    <3>3. QED BY <1>5, <1>10, <3>1, <3>2
  <2>3. QED BY <2>1, <2>2
<1>14. \A i \in Ids : wholeCache'[i] \in {"unknown", "null", i}
  BY <1>3, <1>10 DEF StoreInv, CachesSound
<1>15. CachesSound'
  BY <1>1, <1>10, <1>11, <1>12, <1>13, <1>14 DEF StoreInv, CachesSound
<1>16. ReceiptsSound'
  BY <1>1 DEF StoreInv, ReceiptsSound
<1>17. QED BY <1>1, <1>9, <1>15, <1>16 DEF StoreInv

LEMMA GetClaimTxKeeps ==
  ASSUME StoreInv, NEW id \in Ids, NEW h \in Payees, Store!GetClaimTx(id, h)
  PROVE  StoreInv'
<1> DEFINE key == <<id, h>>
<1>1. PICK top \in (height - 1)..height :
        LET seen == IF claimedAt[key] \in Store!FloorOf(id, top)..top THEN claimedAt[key] ELSE 0
            answer == IF txCache[key] = -1 THEN seen ELSE txCache[key]
        IN  /\ txCache' = [txCache EXCEPT ![key] = answer]
            /\ reply' = [route |-> "claim-tx", id |-> id, holder |-> h, from |-> "none",
                         block |-> answer]
  BY DEF Store!GetClaimTx
<1> DEFINE seen == IF claimedAt[key] \in Store!FloorOf(id, top)..top THEN claimedAt[key] ELSE 0
           answer == IF txCache[key] = -1 THEN seen ELSE txCache[key]
<1>2. /\ txCache' = [txCache EXCEPT ![key] = answer]
      /\ reply' = [route |-> "claim-tx", id |-> id, holder |-> h, from |-> "none", block |-> answer]
  BY <1>1
<1>3. UNCHANGED <<shards, wholes, claimedAt, shardCache, wholeCache, fresh>>
  BY DEF Store!GetClaimTx, Store!disk, Store!chain
<1>4. key \in Ids \X Payees
  OBVIOUS
<1>5. seen \in {0, claimedAt[key]}
  OBVIOUS
<1> HIDE DEF seen
<1>6. answer \in {0, claimedAt[key]}
  BY <1>4, <1>5 DEF StoreInv, ReceiptsSound
<1> HIDE DEF answer
<1>7. Store!AnswersTrue'
  <2>1. reply'.route = "claim-tx" /\ reply'.id = id /\ reply'.holder = h /\ reply'.block = answer
    BY <1>2
  <2>2. QED BY <1>3, <1>6, <2>1 DEF Store!AnswersTrue
<1>8. ReceiptsSound'
  <2>1. DOMAIN txCache' = Ids \X Payees
    BY <1>2 DEF StoreInv, ReceiptsSound
  <2>2. \A k \in Ids \X Payees : txCache'[k] = IF k = key THEN answer ELSE txCache[k]
    BY <1>2 DEF StoreInv, ReceiptsSound
  <2>3. \A k \in Ids \X Payees : txCache[k] \in {-1, 0, claimedAt[k]}
    BY DEF StoreInv, ReceiptsSound
  <2>4. QED BY <1>3, <1>6, <2>1, <2>2, <2>3 DEF StoreInv, ReceiptsSound
<1>9. CachesSound'
  BY <1>3 DEF StoreInv, CachesSound, Store!Complete, Store!Published
<1>10. QED BY <1>3, <1>7, <1>8, <1>9 DEF StoreInv

LEMMA PayKeeps ==
  ASSUME StoreInv, NEW id \in Ids, NEW h \in Payees, Store!Pay(id, h)
  PROVE  StoreInv'
<1> DEFINE key == <<id, h>>
<1>1. /\ claimedAt[key] = 0 /\ claimedAt' = [claimedAt EXCEPT ![key] = height + 1]
      /\ reply' = Store!NoReply
      /\ UNCHANGED <<shards, wholes, shardCache, wholeCache, txCache, fresh>>
  BY DEF Store!Pay, Store!disk, Store!caches
<1>2. ReceiptsSound'
  <2>1. DOMAIN claimedAt' = Ids \X Payees
    BY <1>1 DEF StoreInv, ReceiptsSound
  <2>2. \A k \in Ids \X Payees : k # key => claimedAt'[k] = claimedAt[k]
    BY <1>1 DEF StoreInv, ReceiptsSound
  <2>3. key \in Ids \X Payees
    OBVIOUS
  <2> HIDE DEF key
  <2>4. \A k \in Ids \X Payees : txCache[k] \in {-1, 0, claimedAt'[k]}
    BY <1>1, <2>2, <2>3 DEF StoreInv, ReceiptsSound
  <2>5. QED BY <1>1, <2>1, <2>4 DEF StoreInv, ReceiptsSound
<1>3. CachesSound'
  BY <1>1 DEF StoreInv, CachesSound, Store!Complete, Store!Published
<1>4. reply'.route = "none"
  BY <1>1 DEF Store!NoReply
<1>5. QED BY <1>1, <1>2, <1>3, <1>4 DEF StoreInv, Store!AnswersTrue

LEMMA RestartKeeps == ASSUME Store!StoreAssumption, StoreInv, Store!Restart PROVE StoreInv'
<1>1. /\ shardCache' = [key \in ShardKeys |-> "unknown"] /\ wholeCache' = [id \in Ids |-> "unknown"]
      /\ txCache' = [key \in Ids \X Payees |-> -1]
      /\ fresh' = Store!Complete /\ reply' = Store!NoReply
      /\ UNCHANGED <<shards, wholes, claimedAt>>
  BY DEF Store!Restart, Store!Unread, Store!disk, Store!chain, ShardKeys
<1>2. \A id \in Ids : \A prefix \in Store!Prefixes :
        <<id, prefix>> \in ShardKeys /\ shardCache'[<<id, prefix>>] = "unknown"
  BY <1>1 DEF ShardKeys
<1>3. \A id \in Ids : \A h \in HoldersOf[id] : shardCache'[<<id, PrefixOf[h]>>] = "unknown"
  BY <1>2 DEF Store!Prefixes, Store!StoreAssumption
<1>4. Store!Complete' = Store!Complete
  BY <1>1 DEF Store!Complete, Store!Published
<1>5. CachesSound'
  BY <1>1, <1>2, <1>3, <1>4 DEF CachesSound
<1>6. ReceiptsSound'
  BY <1>1 DEF StoreInv, ReceiptsSound
<1>7. reply'.route = "none"
  BY <1>1 DEF Store!NoReply
<1>8. QED BY <1>1, <1>5, <1>6, <1>7 DEF StoreInv, Store!AnswersTrue

LEMMA StoreStepKeeps ==
  ASSUME Store!StoreAssumption, StoreInv, [Store!StoreNext]_(Store!storeVars)
  PROVE  StoreInv'
<1> USE DEF Store!caches, Store!chain
<1>1. ASSUME NEW id \in Ids, Store!WriteMeta(id) PROVE StoreInv'
  BY <1>1, FilesKeep DEF Store!WriteMeta, StoreInv
<1>2. ASSUME NEW id \in Ids, Store!CopyWhole(id) PROVE StoreInv'
  <2>1. /\ DOMAIN wholes' = Ids
        /\ \A i \in Ids : wholes[i] = "written" => wholes'[i] = "written"
    BY <1>2 DEF Store!CopyWhole, StoreInv
  <2>2. UNCHANGED <<shards, claimedAt, shardCache, wholeCache, txCache, fresh>> /\ reply' = Store!NoReply
    BY <1>2 DEF Store!CopyWhole
  <2>3. QED BY <2>1, <2>2, FilesKeep DEF StoreInv
<1>3. ASSUME NEW id \in Ids, NEW p \in Store!Prefixes, Store!OpenShard(id, p) \/ Store!CloseShard(id, p)
      PROVE  StoreInv'
  <2> DEFINE key == <<id, p>>
  <2>1. \/ shards[key] = "absent" /\ shards' = [shards EXCEPT ![key] = "partial"]
        \/ shards' = [shards EXCEPT ![key] = "written"]
    BY <1>3 DEF Store!OpenShard, Store!CloseShard
  <2>2. /\ UNCHANGED <<wholes, claimedAt, shardCache, wholeCache, txCache, fresh>>
        /\ reply' = Store!NoReply
    BY <1>3 DEF Store!OpenShard, Store!CloseShard
  <2> HIDE DEF key
  <2>3. /\ DOMAIN shards' = ShardKeys
        /\ \A k \in ShardKeys : shards[k] = "written" => shards'[k] = "written"
    BY <2>1 DEF StoreInv
  <2>4. QED BY <2>2, <2>3, FilesKeep DEF StoreInv
<1>4. CASE UNCHANGED Store!storeVars
  BY <1>4 DEF Store!storeVars, StoreInv, CachesSound, ReceiptsSound, Store!AnswersTrue, Store!Complete,
              Store!Published
<1>5. QED
  BY <1>1, <1>2, <1>3, <1>4, GetProofKeeps, GetClaimTxKeeps, PayKeeps, RestartKeeps DEF Store!StoreNext

\* Whatever the two routes remember of files that were missing or half written:
\* a proof is of the action asked for, a receipt is of the holder's own payment,
\* and a process started over a complete store denies no holder.
THEOREM AnswersAlwaysTrue ==
  ASSUME Store!StoreAssumption
  PROVE  Store!StoreSpec => []AnswersTrue
<1>1. StoreInv /\ [Store!StoreNext]_(Store!storeVars) => StoreInv'
  BY StoreStepKeeps
<1>2. Store!StoreInit => StoreInv
  BY StoreInitInv
<1>3. StoreInv => AnswersTrue
  BY DEF StoreInv, AnswersTrue
<1>4. QED BY <1>1, <1>2, <1>3, PTL DEF Store!StoreSpec

(***************************************************************************)
(* The fold, the verifier and the claims                                   *)
(***************************************************************************)

Transfer == [from : Fold!Addresses, to : Fold!Addresses, value : Nat]

\* What one transfer adds to the balance of a holder, and what it takes away.
Gets(t, h) == IF t.to = h THEN t.value ELSE 0
Gives(t, h) == IF t.from = h THEN t.value ELSE 0

\* The sums an instance writes are those of FiniteSums.
LEMMA FoldSum ==
  ASSUME NEW f
  PROVE  Fold!SumFunction(f) = SumFunctionOnSet(f, DOMAIN f)
BY DEF Fold!SumFunction, Fold!SumFunctionOnSet, Fold!FoldFunctionOnSet, Fold!MapThenFoldSet,
       SumFunctionOnSet, FoldFunctionOnSet, MapThenFoldSet

LEMMA FoldSizes ==
  ASSUME NEW s
  PROVE  Fold!Cardinality(s) = Cardinality(s)
BY DEF Fold!Cardinality, Cardinality

\* The largest number of a finite set.
LEMMA MaxOfFinite ==
  ASSUME NEW s, IsFiniteSet(s), s \subseteq Int, s # {}
  PROVE  Fold!Max(s) \in s
<1> DEFINE Above(x) == {y \in s : y >= x}
           B == {Above(x) : x \in s}
<1>1. B \subseteq SUBSET s /\ B # {}
  OBVIOUS
<1>2. PICK m \in B : \A U \in B : ~(U \subseteq m /\ U # m)
  <2> HIDE DEF B
  <2>1. QED BY ONLY <1>1, IsFiniteSet(s), MinimalSubset
<1>3. PICK x \in s : m = Above(x)
  OBVIOUS
<1>4. \A y \in s : x >= y
  <2> SUFFICES ASSUME NEW y \in s, ~(x >= y) PROVE FALSE
    OBVIOUS
  <2>1. x \in Int /\ y \in Int /\ y > x
    OBVIOUS
  <2>2. Above(y) \in B
    OBVIOUS
  <2>3. \A z \in s : z \in Int
    OBVIOUS
  <2>4. Above(y) \subseteq Above(x) /\ x \in Above(x) /\ x \notin Above(y)
    <3>1. \A z \in s : z >= y => z >= x
      BY ONLY <2>1, <2>3
    <3>2. x >= x /\ ~(x >= y)
      BY ONLY <2>1
    <3> HIDE DEF B
    <3>3. QED BY <3>1, <3>2
  <2> HIDE DEF Above, B
  <2>5. QED BY <1>2, <1>3, <2>2, <2>4
<1>5. QED BY <1>4 DEF Fold!Max

IsFolded(g, l) ==
  g = [s \in SUBSET DOMAIN l |->
         IF s = {} THEN [h \in Fold!Holders |-> 0]
         ELSE Fold!Apply(g[s \ {Fold!Max(s)}], l[Fold!Max(s)])]

LEMMA FoldIsEntry ==
  ASSUME NEW l
  PROVE  Fold!FoldTransfers(l) = (CHOOSE g : IsFolded(g, l))[DOMAIN l]
BY DEF Fold!FoldTransfers, Fold!FoldLeft, Fold!MapThenFoldSet, IsFolded

LEMMA ApplyAdds ==
  ASSUME NEW b \in [Fold!Holders -> Int], NEW t \in Transfer, Fold!FoldAssumption
  PROVE  Fold!Apply(b, t) = [h \in Fold!Holders |-> b[h] + Gets(t, h) - Gives(t, h)]
<1>1. t.from \in Fold!Addresses /\ t.to \in Fold!Addresses /\ t.value \in Nat
  BY DEF Transfer
<1>2. \A a \in Fold!Addresses : a # Fold!Zero <=> a \in Fold!Holders
  BY DEF Fold!Addresses, Fold!Holders, Fold!Zero, Fold!FoldAssumption
<1>3. Fold!Zero \notin Fold!Holders
  BY DEF Fold!Holders, Fold!Zero
<1> DEFINE c == Fold!Credit(b, t.from, -t.value)
<1>4. c = [h \in Fold!Holders |-> b[h] - Gives(t, h)]
  <2>1. CASE t.from = Fold!Zero
    <3>1. \A h \in Fold!Holders : Gives(t, h) = 0
      BY <1>3, <2>1 DEF Gives
    <3>2. \A h \in Fold!Holders : b[h] - Gives(t, h) = b[h]
      BY <3>1
    <3>3. QED BY <2>1, <3>2 DEF Fold!Credit
  <2>2. CASE t.from # Fold!Zero
    <3>1. t.from \in Fold!Holders
      BY <1>1, <1>2, <2>2
    <3>2. \A h \in Fold!Holders : h # t.from => b[h] - Gives(t, h) = b[h]
      BY DEF Gives
    <3>3. c = [b EXCEPT ![t.from] = @ - t.value]
      BY <1>1, <2>2, <3>1 DEF Fold!Credit
    <3>4. QED BY <3>1, <3>2, <3>3 DEF Gives
  <2>3. QED BY <2>1, <2>2
<1>5. Fold!Credit(c, t.to, t.value) = [h \in Fold!Holders |-> c[h] + Gets(t, h)]
  <2>1. c \in [Fold!Holders -> Int]
    BY <1>1, <1>4 DEF Gives
  <2> HIDE DEF c
  <2>2. CASE t.to = Fold!Zero
    <3>1. \A h \in Fold!Holders : c[h] + Gets(t, h) = c[h]
      BY <1>3, <2>1, <2>2 DEF Gets
    <3>2. QED BY <2>1, <2>2, <3>1 DEF Fold!Credit
  <2>3. CASE t.to # Fold!Zero
    <3>1. t.to \in Fold!Holders
      BY <1>1, <1>2, <2>3
    <3>2. \A h \in Fold!Holders : h # t.to => c[h] + Gets(t, h) = c[h]
      BY <2>1 DEF Gets
    <3>3. Fold!Credit(c, t.to, t.value) = [c EXCEPT ![t.to] = @ + t.value]
      BY <2>3 DEF Fold!Credit
    <3>4. QED BY <2>1, <3>1, <3>2, <3>3 DEF Gets
  <2>4. QED BY <2>2, <2>3
<1> HIDE DEF c
<1>6. \A h \in Fold!Holders : /\ b[h] \in Int /\ Gets(t, h) \in Int /\ Gives(t, h) \in Int
                              /\ c[h] + Gets(t, h) = b[h] + Gets(t, h) - Gives(t, h)
  BY <1>1, <1>4 DEF Gets, Gives
<1>7. QED BY <1>5, <1>6 DEF Fold!Apply, c

AllGets(l, h) == [i \in DOMAIN l |-> Gets(l[i], h)]
AllGives(l, h) == [i \in DOMAIN l |-> Gives(l[i], h)]

\* The table the fold computes exists: a recursion that peels off the last log.
LEMMA FoldedExists ==
  ASSUME NEW l \in Seq(Transfer), Fold!FoldAssumption
  PROVE  IsFolded(CHOOSE g : IsFolded(g, l), l)
<1> DEFINE S == DOMAIN l
           V == [Fold!Holders -> Int]
           zero == [h \in Fold!Holders |-> 0]
           apply == [p \in S \X V |-> Fold!Apply(p[2], l[p[1]])]
           pick == [s \in SUBSET S |-> Fold!Max(s)]
<1>1. IsFiniteSet(S) /\ S \subseteq Int /\ zero \in V
  <2>1. S = 1..Len(l) /\ Len(l) \in Nat
    OBVIOUS
  <2>2. QED BY <2>1, FS_Interval
<1>2. \A s \in SUBSET S : s # {} => Fold!Max(s) \in s
  <2> SUFFICES ASSUME NEW s \in SUBSET S, s # {} PROVE Fold!Max(s) \in s
    OBVIOUS
  <2>1. IsFiniteSet(s) /\ s \subseteq Int
    BY <1>1, FS_Subset
  <2>2. QED BY <2>1, MaxOfFinite
<1>3. \A b \in V, i \in S : Fold!Apply(b, l[i]) \in V
  <2> SUFFICES ASSUME NEW b \in V, NEW i \in S PROVE Fold!Apply(b, l[i]) \in V
    OBVIOUS
  <2>1. l[i] \in Transfer
    OBVIOUS
  <2>2. Fold!Apply(b, l[i]) = [h \in Fold!Holders |-> b[h] + Gets(l[i], h) - Gives(l[i], h)]
    BY ONLY <2>1, b \in [Fold!Holders -> Int], Fold!FoldAssumption, ApplyAdds
  <2>3. \A h \in Fold!Holders : Gets(l[i], h) \in Int /\ Gives(l[i], h) \in Int
    BY <2>1 DEF Gets, Gives, Transfer
  <2>4. QED BY <2>2, <2>3
<1> HIDE DEF S, V, zero
<1>4. apply \in [S \X V -> V]
  BY <1>3
<1>5. \A s \in SUBSET S : s # {} => pick[s] \in s
  BY <1>2
<1>6. \A i \in S, b \in V : apply[<<i, b>>] = Fold!Apply(b, l[i])
  OBVIOUS
<1>7. \A s \in SUBSET S : pick[s] = Fold!Max(s)
  OBVIOUS
<1> HIDE DEF apply, pick
<1>8. PICK g \in [SUBSET S -> V] : IsFoldTable(g, apply, zero, pick, S)
  BY <1>1, <1>4, <1>5, FoldTableExists
<1>9. \A s \in SUBSET S :
        g[s] = IF s = {} THEN zero ELSE Fold!Apply(g[s \ {Fold!Max(s)}], l[Fold!Max(s)])
  <2> SUFFICES ASSUME NEW s \in SUBSET S
               PROVE  g[s] = IF s = {} THEN zero ELSE Fold!Apply(g[s \ {Fold!Max(s)}], l[Fold!Max(s)])
    OBVIOUS
  <2>1. g[s] = IF s = {} THEN zero ELSE apply[<<pick[s], g[s \ {pick[s]}]>>]
    BY <1>8 DEF IsFoldTable
  <2>2. CASE s # {}
    <3>1. Fold!Max(s) \in S /\ s \ {Fold!Max(s)} \in SUBSET S
      BY <1>2, <2>2
    <3>2. g[s \ {Fold!Max(s)}] \in V
      BY <3>1
    <3>3. QED BY <1>6, <1>7, <2>1, <2>2, <3>1, <3>2
  <2>3. QED BY <2>1, <2>2
<1>10. g = [s \in SUBSET S |-> g[s]]
  OBVIOUS
<1>11. IsFolded(g, l)
  BY <1>9, <1>10 DEF IsFolded, S, zero
<1>12. QED BY <1>11

\* ... and holds, for every part of the logs, what each holder was sent in it
\* less what it gave away.
LEMMA FoldBalances ==
  ASSUME NEW l \in Seq(Transfer), Fold!FoldAssumption
  PROVE  Fold!FoldTransfers(l) =
           [h \in Fold!Holders |-> SumFunctionOnSet(AllGets(l, h), DOMAIN l)
                                     - SumFunctionOnSet(AllGives(l, h), DOMAIN l)]
<1> DEFINE S == DOMAIN l
           f == CHOOSE g : IsFolded(g, l)
           got(h) == SumTable(AllGets(l, h), S)
           gave(h) == SumTable(AllGives(l, h), S)
           Right(s) == f[s] = [h \in Fold!Holders |-> got(h)[s] - gave(h)[s]]
           Bad == {s \in SUBSET S : ~Right(s)}
<1>1. IsFiniteSet(S) /\ S \subseteq Int /\ S \in SUBSET S
  <2>1. S = 1..Len(l) /\ Len(l) \in Nat
    OBVIOUS
  <2>2. QED BY <2>1, FS_Interval
<1>2. IsFolded(f, l)
  BY FoldedExists
<1>3. \A h : AllGets(l, h) \in [S -> Int] /\ AllGives(l, h) \in [S -> Int]
  <2>1. \A i \in S : l[i] \in Transfer
    OBVIOUS
  <2>2. QED BY <2>1 DEF AllGets, AllGives, Gets, Gives, Transfer
<1>4. \A h : /\ got(h) \in [SUBSET S -> Int] /\ gave(h) \in [SUBSET S -> Int]
             /\ got(h)[{}] = 0 /\ gave(h)[{}] = 0
             /\ \A s \in SUBSET S : \A i \in s :
                  /\ got(h)[s] = AllGets(l, h)[i] + got(h)[s \ {i}]
                  /\ gave(h)[s] = AllGives(l, h)[i] + gave(h)[s \ {i}]
  <2> SUFFICES ASSUME NEW h
               PROVE  /\ got(h) \in [SUBSET S -> Int] /\ gave(h) \in [SUBSET S -> Int]
                      /\ got(h)[{}] = 0 /\ gave(h)[{}] = 0
                      /\ \A s \in SUBSET S : \A i \in s :
                           /\ got(h)[s] = AllGets(l, h)[i] + got(h)[s \ {i}]
                           /\ gave(h)[s] = AllGives(l, h)[i] + gave(h)[s \ {i}]
    OBVIOUS
  <2> DEFINE a == AllGets(l, h)
             b == AllGives(l, h)
  <2>1. a \in [S -> Int] /\ b \in [S -> Int]
    BY <1>3
  <2> HIDE DEF a, b, S, Bad
  <2>2. /\ IsSumTable(SumTable(a, S), a, S) /\ SumTable(a, S) \in [SUBSET S -> Int]
        /\ IsSumTable(SumTable(b, S), b, S) /\ SumTable(b, S) \in [SUBSET S -> Int]
    BY <1>1, <2>1, TableExists
  <2>3. SumTable(a, S)[{}] = 0 /\ SumTable(b, S)[{}] = 0
    BY <2>2, TableZero
  <2>4. \A s \in SUBSET S : \A i \in s : SumTable(a, S)[s] = a[i] + SumTable(a, S)[s \ {i}]
    BY ONLY <1>1, <2>1, TableOut
  <2>5. \A s \in SUBSET S : \A i \in s : SumTable(b, S)[s] = b[i] + SumTable(b, S)[s \ {i}]
    BY ONLY <1>1, <2>1, TableOut
  <2>6. QED BY <2>2, <2>3, <2>4, <2>5 DEF a, b
<1>5. /\ f[{}] = [h \in Fold!Holders |-> 0]
      /\ \A s \in SUBSET S : s # {} =>
           f[s] = Fold!Apply(f[s \ {Fold!Max(s)}], l[Fold!Max(s)])
  BY <1>2 DEF IsFolded
<1> HIDE DEF f, got, gave, S
<1>6. ASSUME NEW s \in SUBSET S, s # {}, Right(s \ {Fold!Max(s)})
      PROVE  Right(s)
  <2> DEFINE x == Fold!Max(s)
             r == s \ {x}
  <2>1. x \in s /\ x \in S /\ r \in SUBSET S
    <3>1. IsFiniteSet(s) /\ s \subseteq Int
      BY <1>1, FS_Subset
    <3>2. Fold!Max(s) \in s
      BY <1>6, <3>1, MaxOfFinite
    <3>3. QED BY <3>2
  <2>2. f[s] = Fold!Apply(f[r], l[x]) /\ f[r] = [h \in Fold!Holders |-> got(h)[r] - gave(h)[r]]
    BY <1>5, <1>6
  <2> HIDE DEF x, r
  <2>3. l[x] \in Transfer /\ f[r] \in [Fold!Holders -> Int]
    <3>1. l[x] \in Transfer
      BY <2>1 DEF S
    <3>2. \A h \in Fold!Holders : got(h)[r] - gave(h)[r] \in Int
      BY <1>4, <2>1
    <3>3. QED BY <2>2, <3>1, <3>2
  <2>4. f[s] = [h \in Fold!Holders |-> f[r][h] + Gets(l[x], h) - Gives(l[x], h)]
    BY ONLY <2>2, <2>3, Fold!FoldAssumption, ApplyAdds
  <2>5. \A h \in Fold!Holders :
          f[r][h] + Gets(l[x], h) - Gives(l[x], h) = got(h)[s] - gave(h)[s]
    <3> SUFFICES ASSUME NEW h \in Fold!Holders
                 PROVE  f[r][h] + Gets(l[x], h) - Gives(l[x], h) = got(h)[s] - gave(h)[s]
      OBVIOUS
    <3>1. AllGets(l, h)[x] = Gets(l[x], h) /\ AllGives(l, h)[x] = Gives(l[x], h)
      BY <2>1 DEF AllGets, AllGives, S
    <3>2. Gets(l[x], h) \in Int /\ Gives(l[x], h) \in Int
      BY <2>3 DEF Gets, Gives, Transfer
    <3>3. got(h)[r] \in Int /\ gave(h)[r] \in Int /\ f[r][h] = got(h)[r] - gave(h)[r]
      BY <1>4, <2>1, <2>2
    <3>4. got(h)[s] = Gets(l[x], h) + got(h)[r] /\ gave(h)[s] = Gives(l[x], h) + gave(h)[r]
      BY <1>4, <2>1, <3>1 DEF r
    <3>5. QED BY <3>2, <3>3, <3>4
  <2>6. QED BY <2>4, <2>5
<1>7. Right({})
  <2>1. \A h \in Fold!Holders : got(h)[{}] - gave(h)[{}] = 0
    BY <1>4
  <2>2. QED BY <1>5, <2>1
<1>8. Bad = {}
  <2>1. SUFFICES ASSUME Bad # {} PROVE FALSE
    OBVIOUS
  <2>2. PICK s \in Bad : \A u \in Bad : ~(u \subseteq s /\ u # s)
    <3>1. IsFiniteSet(S) /\ Bad \subseteq SUBSET S /\ Bad # {}
      BY <1>1, <2>1
    <3> HIDE DEF Bad, Right
    <3>2. QED BY ONLY <3>1, MinimalSubset
  <2>3. s \in SUBSET S /\ ~Right(s) /\ s # {}
    BY <1>7
  <2>4. Fold!Max(s) \in s
    <3>1. IsFiniteSet(s) /\ s \subseteq Int
      BY <1>1, <2>3, FS_Subset
    <3>2. QED BY <2>3, <3>1, MaxOfFinite
  <2>5. s \ {Fold!Max(s)} \in SUBSET S /\ s \ {Fold!Max(s)} \notin Bad
    BY <2>2, <2>3, <2>4
  <2>6. Right(s \ {Fold!Max(s)})
    BY <2>5
  <2> HIDE DEF Bad, Right
  <2>7. QED BY <1>6, <2>3, <2>6
<1>9. f[S] = [h \in Fold!Holders |-> got(h)[S] - gave(h)[S]]
  BY <1>1, <1>8
<1>10. QED BY <1>9, FoldIsEntry, SumIsTableEntry DEF f, got, gave, S

LEMMA FoldTyped ==
  ASSUME NEW l \in Seq(Transfer), Fold!FoldAssumption
  PROVE  /\ Fold!FoldTransfers(l) \in [Fold!Holders -> Int]
         /\ IsFiniteSet(DOMAIN l)
         /\ \A h : AllGets(l, h) \in [DOMAIN l -> Int] /\ AllGives(l, h) \in [DOMAIN l -> Int]
<1>1. IsFiniteSet(DOMAIN l)
  <2>1. DOMAIN l = 1..Len(l) /\ Len(l) \in Nat
    OBVIOUS
  <2>2. QED BY <2>1, FS_Interval
<1>2. \A h : AllGets(l, h) \in [DOMAIN l -> Int] /\ AllGives(l, h) \in [DOMAIN l -> Int]
  <2>1. \A i \in DOMAIN l : l[i] \in Transfer
    OBVIOUS
  <2>2. QED BY <2>1 DEF AllGets, AllGives, Gets, Gives, Transfer
<1>3. \A h : /\ SumFunctionOnSet(AllGets(l, h), DOMAIN l) \in Int
             /\ SumFunctionOnSet(AllGives(l, h), DOMAIN l) \in Int
  BY <1>1, <1>2, SumInt
<1>4. QED BY <1>1, <1>2, <1>3, FoldBalances

\* The order of the logs does not matter.
LEMMA FoldReversed ==
  ASSUME NEW l \in Seq(Transfer), Fold!FoldAssumption
  PROVE  Fold!FoldTransfers(Fold!Reverse(l)) = Fold!FoldTransfers(l)
<1> DEFINE n == Len(l)
           S == 1..n
           b == [i \in S |-> n - i + 1]
           rev == Fold!Reverse(l)
<1>1. n \in Nat /\ DOMAIN l = S
  OBVIOUS
<1>2. /\ b \in [S -> S] /\ \A i, j \in S : b[i] = b[j] => i = j
      /\ \A k \in S : \E i \in S : b[i] = k
  <2>1. \A k \in S : n - k + 1 \in S /\ b[n - k + 1] = k
    BY <1>1
  <2>2. QED BY <1>1, <2>1
<1>3. rev = [i \in S |-> l[b[i]]]
  BY DEF Fold!Reverse
<1>4. rev \in Seq(Transfer) /\ DOMAIN rev = S
  <2>1. \A i \in S : l[b[i]] \in Transfer
    BY <1>1, <1>2
  <2>2. \A i \in 1..n : rev[i] \in Transfer
    BY <1>3, <2>1
  <2>3. rev = [i \in 1..n |-> rev[i]]
    BY <1>3
  <2> HIDE DEF rev, b
  <2>4. QED BY <1>1, <2>2, <2>3
<1>5. ASSUME NEW h
      PROVE  /\ SumFunctionOnSet(AllGets(rev, h), S) = SumFunctionOnSet(AllGets(l, h), S)
             /\ SumFunctionOnSet(AllGives(rev, h), S) = SumFunctionOnSet(AllGives(l, h), S)
  <2>1. /\ AllGets(rev, h) = [i \in S |-> AllGets(l, h)[b[i]]]
        /\ AllGives(rev, h) = [i \in S |-> AllGives(l, h)[b[i]]]
    <3>1. \A i \in S : rev[i] = l[b[i]] /\ b[i] \in DOMAIN l
      BY <1>1, <1>2, <1>3
    <3> HIDE DEF rev, b
    <3>2. QED BY <1>4, <3>1 DEF AllGets, AllGives
  <2>2. IsFiniteSet(S) /\ AllGets(l, h) \in [S -> Int] /\ AllGives(l, h) \in [S -> Int]
    BY <1>1, FoldTyped
  <2> HIDE DEF rev, b, S
  <2>3. ASSUME NEW f \in [S -> Int]
        PROVE  SumFunctionOnSet([i \in S |-> f[b[i]]], S) = SumFunctionOnSet(f, S)
    BY ONLY <1>2, <2>2, f \in [S -> Int], SumReindexed
  <2>4. QED BY <2>1, <2>2, <2>3
<1>6. Fold!FoldTransfers(l) =
        [h \in Fold!Holders |-> SumFunctionOnSet(AllGets(l, h), S) - SumFunctionOnSet(AllGives(l, h), S)]
  BY <1>1, FoldBalances
<1> HIDE DEF rev, b
<1>7. Fold!FoldTransfers(rev) =
        [h \in Fold!Holders |-> SumFunctionOnSet(AllGets(rev, h), S) - SumFunctionOnSet(AllGives(rev, h), S)]
  BY <1>4, FoldBalances
<1> HIDE DEF S
<1>8. Fold!FoldTransfers(rev) = Fold!FoldTransfers(l)
  BY ONLY <1>5, <1>6, <1>7
<1>9. QED BY <1>8 DEF rev

\* Facts about the holders of a history.
LEMMA HistoryFacts ==
  ASSUME Fold!FoldAssumption, logs \in Histories
  PROVE  /\ logs \in Seq(Transfer)
         /\ Fold!Balance \in [Fold!Holders -> Int]
         /\ Fold!Eligible \in SUBSET Fold!Holders /\ IsFiniteSet(Fold!Eligible)
         /\ \A h \in Fold!Eligible : Fold!Balance[h] \in Nat \ {0}
         /\ Fold!Holders \subseteq Nat \ {0}
<1>1. logs \in Seq(Transfer)
  BY DEF Fold!FoldAssumption, Transfer, Fold!Addresses
<1>2. Fold!Balance \in [Fold!Holders -> Int]
  BY <1>1, FoldTyped DEF Fold!Balance
<1>3. IsFiniteSet(Fold!Holders) /\ Fold!Holders \subseteq Nat \ {0}
  BY FS_Interval DEF Fold!Holders, Fold!FoldAssumption
<1>4. Fold!Eligible \in SUBSET Fold!Holders
  BY DEF Fold!Eligible
<1>5. IsFiniteSet(Fold!Eligible)
  BY <1>3, <1>4, FS_Subset
<1>6. \A h \in Fold!Eligible : Fold!Balance[h] \in Nat \ {0}
  BY <1>2 DEF Fold!Eligible
<1>7. QED BY <1>1, <1>2, <1>3, <1>4, <1>5, <1>6

LEMMA FoldOfHistory ==
  ASSUME Fold!FoldAssumption, logs \in Histories
  PROVE  Fold!FoldIsBalance
<1>1. logs \in Seq(Transfer)
  BY HistoryFacts
<1>2. \A h : /\ Fold!Received(h) = SumFunctionOnSet(AllGets(logs, h), DOMAIN logs)
             /\ Fold!Sent(h) = SumFunctionOnSet(AllGives(logs, h), DOMAIN logs)
  BY FoldSum DEF Fold!Received, Fold!Sent, AllGets, AllGives, Gets, Gives
<1>3. \A h \in Fold!Holders : Fold!Balance[h] = Fold!Received(h) - Fold!Sent(h)
  BY <1>1, <1>2, FoldBalances DEF Fold!Balance
<1>4. QED BY <1>1, <1>3, FoldReversed DEF Fold!FoldIsBalance, Fold!Balance

\* Counting the smaller members numbers a finite set of integers from zero
\* without a gap.
Rank(E, h) == Cardinality({g \in E : g < h})

LEMMA RankBijective ==
  ASSUME NEW E, IsFiniteSet(E), E \subseteq Int
  PROVE  /\ \A g, h \in E : Rank(E, g) = Rank(E, h) => g = h
         /\ \A k : k \in 0..(Cardinality(E) - 1) <=> \E h \in E : Rank(E, h) = k
<1> DEFINE r == [h \in E |-> Rank(E, h)]
           Below(h) == {g \in E : g < h}
           n == Cardinality(E)
<1>1. \A h \in E : IsFiniteSet(Below(h)) /\ Cardinality(Below(h)) \in Nat /\ r[h] = Cardinality(Below(h))
  <2> SUFFICES ASSUME NEW h \in E PROVE IsFiniteSet(Below(h)) /\ Cardinality(Below(h)) \in Nat
    BY DEF Rank
  <2>1. Below(h) \in SUBSET E
    OBVIOUS
  <2> HIDE DEF Below
  <2>2. QED BY <2>1, FS_Subset, FS_CardinalityType
<1> HIDE DEF r
<1>2. ASSUME NEW A \in SUBSET E, NEW B \in SUBSET E, A \subseteq B, A # B
      PROVE  Cardinality(A) < Cardinality(B)
  <2>1. IsFiniteSet(B) /\ IsFiniteSet(A)
    BY FS_Subset
  <2>2. Cardinality(A) \in Nat /\ Cardinality(B) \in Nat
    BY <2>1, FS_CardinalityType
  <2>3. Cardinality(A) <= Cardinality(B) /\ Cardinality(B) # Cardinality(A)
    BY <1>2, <2>1, FS_Subset
  <2>4. QED BY <2>2, <2>3
<1>3. ASSUME NEW g \in E, NEW h \in E, g < h
      PROVE  r[g] < r[h]
  <2>1. g \in Int /\ h \in Int /\ \A x \in E : x \in Int
    OBVIOUS
  <2>2. \A x \in E : x < g => x < h
    BY ONLY <1>3, <2>1
  <2>3. Below(g) \in SUBSET E /\ Below(h) \in SUBSET E /\ Below(g) \subseteq Below(h)
    BY <2>2
  <2>4. g \in Below(h) /\ g \notin Below(g)
    BY <1>3, <2>1
  <2> HIDE DEF Below
  <2>5. Cardinality(Below(g)) < Cardinality(Below(h))
    BY <1>2, <2>3, <2>4
  <2>6. QED BY <1>1, <2>5
<1>4. \A g, h \in E : r[g] = r[h] => g = h
  <2> SUFFICES ASSUME NEW g \in E, NEW h \in E, g # h PROVE r[g] # r[h]
    OBVIOUS
  <2>1. g < h \/ h < g
    OBVIOUS
  <2>2. r[g] \in Nat /\ r[h] \in Nat
    BY <1>1
  <2> HIDE DEF Below
  <2>3. QED BY <1>3, <2>1, <2>2
<1>5. \A h \in E : r[h] \in 0..(n - 1)
  <2> SUFFICES ASSUME NEW h \in E PROVE r[h] \in 0..(n - 1)
    OBVIOUS
  <2>1. Below(h) \in SUBSET E /\ Below(h) # E
    OBVIOUS
  <2>2. Cardinality(Below(h)) < Cardinality(E)
    BY <1>2, <2>1
  <2>3. n \in Nat /\ r[h] = Cardinality(Below(h)) /\ r[h] \in Nat
    BY <1>1, FS_CardinalityType
  <2> HIDE DEF Below
  <2>4. QED BY <2>2, <2>3
<1>6. r \in [E -> 0..(n - 1)] /\ n \in Nat
  BY <1>5, FS_CardinalityType DEF r
<1> HIDE DEF n
<1>7. r \in Injection(E, 0..(n - 1))
  BY <1>4, <1>6 DEF Injection, IsInjective
<1>8. IsFiniteSet(0..(n - 1)) /\ Cardinality(0..(n - 1)) = n
  BY <1>6, FS_Interval
<1>9. r \in Surjection(E, 0..(n - 1))
  BY <1>7, <1>8, FS_Injection DEF n
<1>10. \A k \in 0..(n - 1) : \E h \in E : r[h] = k
  BY <1>9 DEF Surjection
<1>11. \A h \in E : r[h] = Rank(E, h)
  BY DEF r
<1>12. QED BY <1>4, <1>5, <1>10, <1>11 DEF n

\* Division and multiplication back loses less than the divisor.
LEMMA DivisionRounds ==
  ASSUME NEW a \in Nat, NEW b \in Nat \ {0}
  PROVE  /\ a \div b \in Nat
         /\ b * (a \div b) <= a
         /\ a < b * (a \div b) + b
OBVIOUS

LeafOf(claims, h) == <<claims[h].index, h, claims[h].amount>>

\* The leaves of a claim map stand for its holders one to one.
LEMMA LeavesOfClaims ==
  ASSUME NEW D, IsFiniteSet(D), NEW claims \in [D -> Fold!ClaimEntry]
  PROVE  /\ Fold!Leaves(claims) = {LeafOf(claims, h) : h \in D}
         /\ Fold!Cardinality(Fold!Leaves(claims)) = Cardinality(D)
         /\ Fold!LeafSum(Fold!Leaves(claims)) = Fold!AmountSum(claims)
         /\ Fold!AmountSum(claims) \in Nat /\ Fold!GrossSum(claims) \in Nat
<1> DEFINE L == Fold!Leaves(claims)
           b == [h \in D |-> LeafOf(claims, h)]
           f == [leaf \in L |-> leaf[3]]
           amounts == [h \in D |-> claims[h].amount]
           S == {g \in D : claims[g].gross # NotGiven}
           grosses == [h \in S |-> claims[h].gross]
<1>1. L = {LeafOf(claims, h) : h \in D}
  BY DEF Fold!Leaves, LeafOf
<1>2. b \in [D -> L] /\ \A g, h \in D : b[g] = b[h] => g = h
  BY <1>1 DEF LeafOf
<1>3. \A leaf \in L : \E h \in D : b[h] = leaf
  BY <1>1
<1>4. IsFiniteSet(L) /\ Cardinality(L) = Cardinality(D)
  <2> HIDE DEF L, b
  <2>1. b \in Bijection(D, L)
    BY <1>2, <1>3 DEF Bijection, Injection, Surjection, IsInjective
  <2>2. QED BY <2>1, FS_Bijection DEF ExistsBijection
<1>5. amounts \in [D -> Nat] /\ grosses \in [S -> Nat] /\ IsFiniteSet(S)
  <2>1. \A h \in D : claims[h].amount \in Nat
    BY DEF Fold!ClaimEntry
  <2>2. \A h \in S : claims[h].gross \in Nat
    BY DEF Fold!ClaimEntry, Fold!Given
  <2>3. S \in SUBSET D
    OBVIOUS
  <2>4. QED BY <2>1, <2>2, <2>3, FS_Subset
<1>6. f \in [L -> Int] /\ amounts = [h \in D |-> f[b[h]]]
  <2>1. \A h \in D : /\ LeafOf(claims, h)[3] = claims[h].amount /\ claims[h].amount \in Int
                     /\ LeafOf(claims, h) \in L
    BY <1>1, <1>5 DEF LeafOf
  <2>2. QED BY <1>1, <2>1
<1>7. SumFunctionOnSet(amounts, D) = SumFunctionOnSet(f, L)
  <2> HIDE DEF amounts, f, b, L
  <2>1. SumFunctionOnSet([h \in D |-> f[b[h]]], D) = SumFunctionOnSet(f, L)
    BY ONLY <1>2, <1>3, <1>4, <1>6, IsFiniteSet(D), SumReindexed
  <2>2. QED BY <1>6, <2>1
<1>8. Fold!LeafSum(L) = SumFunctionOnSet(f, L)
  BY FoldSum DEF Fold!LeafSum
<1>9. /\ Fold!AmountSum(claims) = SumFunctionOnSet(amounts, D)
      /\ Fold!GrossSum(claims) = SumFunctionOnSet(grosses, S)
  BY FoldSum DEF Fold!AmountSum, Fold!GrossSum
<1>10. SumFunctionOnSet(amounts, D) \in Nat /\ SumFunctionOnSet(grosses, S) \in Nat
  <2> HIDE DEF amounts, grosses, S
  <2>1. QED BY <1>5, SumNat
<1>11. QED BY <1>1, <1>4, <1>7, <1>8, <1>9, <1>10, FoldSizes DEF L

\* What an eligible holder is promised, and the claims the tool writes.
Share(h) == Fold!NetFromGross(Fold!Gross(h), bps)
TrueClaims == [h \in Fold!Eligible |-> Fold!ClaimOf(h)]

Inputs == logs \in Histories /\ rate \in Rates /\ bps \in Withholdings

LEMMA ClaimFacts ==
  ASSUME Fold!FoldAssumption, Inputs
  PROVE  /\ TrueClaims \in [Fold!Eligible -> Fold!ClaimEntry]
         /\ \A h \in Fold!Eligible :
              /\ LeafOf(TrueClaims, h) = <<Fold!Index(h), h, Share(h)>>
              /\ TrueClaims[h] = Fold!ClaimOf(h)
              /\ Fold!Index(h) \in Nat /\ Fold!Gross(h) \in Nat /\ Share(h) \in Nat
              /\ One * Fold!Gross(h) <= Fold!Balance[h] * rate
              /\ Fold!Balance[h] * rate < One * Fold!Gross(h) + One
              /\ Denominator * Share(h) <= Fold!Gross(h) * (Denominator - bps)
              /\ Fold!Gross(h) * (Denominator - bps) < Denominator * Share(h) + Denominator
<1>1. One \in Nat \ {0} /\ Denominator \in Nat \ {0} /\ rate \in Nat /\ Denominator - bps \in Nat
  BY DEF Fold!FoldAssumption, Inputs
<1>2. ASSUME NEW h \in Fold!Eligible
      PROVE  /\ Fold!ClaimOf(h) \in Fold!ClaimEntry
             /\ LeafOf(TrueClaims, h) = <<Fold!Index(h), h, Share(h)>>
             /\ TrueClaims[h] = Fold!ClaimOf(h)
             /\ Fold!Index(h) \in Nat /\ Fold!Gross(h) \in Nat /\ Share(h) \in Nat
             /\ One * Fold!Gross(h) <= Fold!Balance[h] * rate
             /\ Fold!Balance[h] * rate < One * Fold!Gross(h) + One
             /\ Denominator * Share(h) <= Fold!Gross(h) * (Denominator - bps)
             /\ Fold!Gross(h) * (Denominator - bps) < Denominator * Share(h) + Denominator
  <2>1. Fold!Balance[h] \in Nat /\ IsFiniteSet(Fold!Eligible)
    BY HistoryFacts DEF Inputs
  <2>2. Fold!Index(h) \in Nat
    <3>1. {g \in Fold!Eligible : g < h} \in SUBSET Fold!Eligible
      OBVIOUS
    <3>2. Fold!Index(h) = Cardinality({g \in Fold!Eligible : g < h})
      BY FoldSizes DEF Fold!Index
    <3>3. QED BY <2>1, <3>1, <3>2, FS_Subset, FS_CardinalityType
  <2> DEFINE x == Fold!Balance[h] * rate
             y == Fold!Gross(h) * (Denominator - bps)
  <2>3. Fold!Gross(h) = x \div One /\ Share(h) = y \div Denominator
    BY DEF Fold!Gross, Share, Fold!NetFromGross
  <2>4. x \in Nat
    BY <1>1, <2>1
  <2> HIDE DEF x
  <2>5. Fold!Gross(h) \in Nat /\ One * Fold!Gross(h) <= x /\ x < One * Fold!Gross(h) + One
    BY <1>1, <2>3, <2>4, DivisionRounds
  <2>6. y \in Nat
    BY <1>1, <2>5
  <2> HIDE DEF y
  <2>7. Share(h) \in Nat /\ Denominator * Share(h) <= y /\ y < Denominator * Share(h) + Denominator
    BY <1>1, <2>3, <2>6, DivisionRounds
  <2>8. TrueClaims[h] = Fold!ClaimOf(h)
    BY DEF TrueClaims
  <2>9. Fold!ClaimOf(h) = [index |-> Fold!Index(h), gross |-> Fold!Gross(h), amount |-> Share(h)]
    BY DEF Fold!ClaimOf, Share
  <2>10. Fold!ClaimOf(h) \in Fold!ClaimEntry /\ LeafOf(TrueClaims, h) = <<Fold!Index(h), h, Share(h)>>
    BY <2>2, <2>5, <2>7, <2>8, <2>9 DEF Fold!ClaimEntry, Fold!Given, LeafOf
  <2>11. QED BY <2>2, <2>5, <2>7, <2>8, <2>10 DEF x, y
<1>3. TrueClaims \in [Fold!Eligible -> Fold!ClaimEntry]
  BY <1>2 DEF TrueClaims
<1>4. QED BY <1>2, <1>3

\* Indices number the eligible holders from zero.
LEMMA IndexBijective ==
  ASSUME Fold!FoldAssumption, logs \in Histories
  PROVE  /\ \A g, h \in Fold!Eligible : Fold!Index(g) = Fold!Index(h) => g = h
         /\ {Fold!Index(h) : h \in Fold!Eligible} = 0..(Cardinality(Fold!Eligible) - 1)
<1> DEFINE E == Fold!Eligible
<1>1. IsFiniteSet(E) /\ E \subseteq Int
  BY HistoryFacts
<1>2. \A h : Fold!Index(h) = Rank(E, h)
  BY FoldSizes DEF Fold!Index, Rank
<1> HIDE DEF E
<1>3. /\ \A g, h \in E : Fold!Index(g) = Fold!Index(h) => g = h
      /\ \A k : k \in 0..(Cardinality(E) - 1) <=> \E h \in E : Fold!Index(h) = k
  <2>1. /\ \A g, h \in E : Rank(E, g) = Rank(E, h) => g = h
        /\ \A k : k \in 0..(Cardinality(E) - 1) <=> \E h \in E : Rank(E, h) = k
    BY ONLY <1>1, RankBijective
  <2>2. QED BY ONLY <1>2, <2>1
<1>4. QED BY <1>3 DEF E

\* The totals of the tool's artifact are the pro-rata share, less rounding.
LEMMA TotalsRound ==
  ASSUME Fold!FoldAssumption, Inputs, Fold!Eligible # {}, file = Fold!Artifact(TrueClaims, bps)
  PROVE  Fold!TotalWithinProRata
<1> DEFINE E == Fold!Eligible
           n == Cardinality(E)
           kept == Denominator - bps
           owed == [h \in E |-> Fold!Balance[h] * rate]
           gross == [h \in E |-> Fold!Gross(h)]
           net == [h \in E |-> Share(h)]
           after == [h \in E |-> Fold!Gross(h) * kept]
<1>1. One \in Nat \ {0} /\ Denominator \in Nat \ {0} /\ rate \in Nat /\ kept \in Nat
  BY DEF Fold!FoldAssumption, Inputs
<1>2. IsFiniteSet(E) /\ n \in Nat /\ n # 0
  BY HistoryFacts, FS_CardinalityType, FS_EmptySet DEF Inputs
<1>3. \A h \in E : Fold!Balance[h] * rate \in Int
  BY <1>1, HistoryFacts DEF Inputs
<1>4. \A h \in E : Fold!Gross(h) * kept \in Int
  BY <1>1, ClaimFacts
<1>5. owed \in [E -> Int] /\ gross \in [E -> Int] /\ net \in [E -> Int] /\ after \in [E -> Int]
  BY <1>3, <1>4, ClaimFacts
<1>6. /\ file.totalGross = SumFunctionOnSet(gross, E) /\ file.totalPayout = SumFunctionOnSet(net, E)
      /\ Fold!SumFunction(owed) = SumFunctionOnSet(owed, E)
  <2>1. DOMAIN TrueClaims = E
    BY DEF TrueClaims
  <2>2. \A h \in E : TrueClaims[h].gross = Fold!Gross(h) /\ TrueClaims[h].amount = Share(h)
    BY ClaimFacts DEF Fold!ClaimOf, Share
  <2>3. Fold!GrossSum(TrueClaims) = Fold!SumFunction(gross) /\ Fold!AmountSum(TrueClaims) = Fold!SumFunction(net)
    <3>1. /\ [h \in E |-> TrueClaims[h].gross] = gross
          /\ [h \in E |-> TrueClaims[h].amount] = net
      BY <2>2
    <3>2. {g \in E : TrueClaims[g].gross # NotGiven} = E
      BY <2>2, ClaimFacts DEF Fold!FoldAssumption
    <3> HIDE DEF gross, net, E
    <3>3. QED BY <2>1, <3>1, <3>2 DEF Fold!GrossSum, Fold!AmountSum
  <2>4. file.totalGross = Fold!GrossSum(TrueClaims) /\ file.totalPayout = Fold!AmountSum(TrueClaims)
    BY DEF Fold!Artifact, Fold!TotalledFile
  <2>5. DOMAIN gross = E /\ DOMAIN net = E /\ DOMAIN owed = E
    OBVIOUS
  <2> HIDE DEF gross, net, owed, E
  <2>6. QED BY <2>3, <2>4, <2>5, FoldSum
<1>7. \A h \in E : /\ One * gross[h] <= owed[h] /\ owed[h] < One * gross[h] + One
                   /\ Denominator * net[h] <= after[h] /\ after[h] < Denominator * net[h] + Denominator
  BY ClaimFacts
<1>8. after = [h \in E |-> kept * gross[h]]
  <2>1. \A h \in E : Fold!Gross(h) * kept = kept * Fold!Gross(h)
    BY <1>1, ClaimFacts
  <2>2. QED BY <2>1
<1> HIDE DEF E, n, kept, owed, gross, net, after
<1> DEFINE G == SumFunctionOnSet(gross, E)
           P == SumFunctionOnSet(net, E)
           O == SumFunctionOnSet(owed, E)
           A == SumFunctionOnSet(after, E)
<1>9. G \in Int /\ P \in Int /\ O \in Int
  BY <1>2, <1>5, SumInt
<1>10. One * G <= O /\ O <= One * G + n * (One - 1)
  <2>1. /\ One \in Int /\ IsFiniteSet(E) /\ gross \in [E -> Int] /\ owed \in [E -> Int]
        /\ \A h \in E : One * gross[h] <= owed[h] /\ owed[h] < One * gross[h] + One
    BY <1>1, <1>2, <1>5, <1>7
  <2>2. QED BY ONLY <2>1, SumRounded DEF n
<1>11. Denominator * P <= A /\ A <= Denominator * P + n * (Denominator - 1)
  <2>1. /\ Denominator \in Int /\ IsFiniteSet(E) /\ net \in [E -> Int] /\ after \in [E -> Int]
        /\ \A h \in E : /\ Denominator * net[h] <= after[h]
                          /\ after[h] < Denominator * net[h] + Denominator
    BY <1>1, <1>2, <1>5, <1>7
  <2>2. QED BY ONLY <2>1, SumRounded DEF n
<1>12. A = kept * G
  BY <1>1, <1>2, <1>5, <1>8, SumScaled
<1> HIDE DEF G, P, O, A
<1>13. n * (One - 1) = n * One - n /\ n * (Denominator - 1) = n * Denominator - n
  BY <1>1, <1>2
<1>14. One * G \in Int /\ n * One \in Int /\ O \in Int /\ kept * G = G * kept /\ G * kept \in Int
       /\ Denominator * P \in Int /\ n * Denominator \in Int
  BY <1>1, <1>2, <1>9
<1>15. One * G <= O /\ One * G > O - n * One
  BY <1>2, <1>10, <1>13, <1>14
<1>16. Denominator * P <= G * kept /\ Denominator * P > G * kept - n * Denominator
  BY <1>2, <1>11, <1>12, <1>13, <1>14
<1>17. Fold!Cardinality(E) = n
  BY FoldSizes DEF n
<1>18. QED BY <1>6, <1>15, <1>16, <1>17 DEF Fold!TotalWithinProRata, G, P, O, E, owed, kept

\* The artifact the tool writes, field by field.
LEMMA WrittenFile ==
  ASSUME Fold!FoldAssumption, Inputs, file = Fold!Artifact(TrueClaims, bps)
  PROVE  /\ file.claims = TrueClaims /\ file.root = Fold!Leaves(TrueClaims)
         /\ file.totalPayout = Fold!AmountSum(TrueClaims)
         /\ file.totalGross = Fold!GrossSum(TrueClaims)
         /\ file.withholdingBps = bps
         /\ file.holderCount = Cardinality(Fold!Eligible)
         /\ DOMAIN TrueClaims = Fold!Eligible
         /\ file.root = {<<Fold!Index(h), h, Share(h)>> : h \in Fold!Eligible}
         /\ Fold!Cardinality(file.root) = Cardinality(Fold!Eligible)
         /\ Fold!LeafSum(file.root) = file.totalPayout
<1>1. DOMAIN TrueClaims = Fold!Eligible
  BY DEF TrueClaims
<1>2. /\ file.claims = TrueClaims /\ file.root = Fold!Leaves(TrueClaims)
      /\ file.totalPayout = Fold!AmountSum(TrueClaims)
      /\ file.totalGross = Fold!GrossSum(TrueClaims)
      /\ file.withholdingBps = bps
      /\ file.holderCount = Fold!Cardinality(DOMAIN TrueClaims)
  BY DEF Fold!Artifact, Fold!TotalledFile
<1>3. file.holderCount = Cardinality(Fold!Eligible)
  BY <1>1, <1>2, FoldSizes
<1>4. IsFiniteSet(Fold!Eligible) /\ TrueClaims \in [Fold!Eligible -> Fold!ClaimEntry]
  BY HistoryFacts, ClaimFacts DEF Inputs
<1>5. /\ Fold!Leaves(TrueClaims) = {LeafOf(TrueClaims, h) : h \in Fold!Eligible}
      /\ Fold!Cardinality(Fold!Leaves(TrueClaims)) = Cardinality(Fold!Eligible)
      /\ Fold!LeafSum(Fold!Leaves(TrueClaims)) = Fold!AmountSum(TrueClaims)
  BY ONLY <1>4, LeavesOfClaims
<1>6. \A h \in Fold!Eligible : LeafOf(TrueClaims, h) = <<Fold!Index(h), h, Share(h)>>
  BY ClaimFacts
<1>7. Fold!Leaves(TrueClaims) = {<<Fold!Index(h), h, Share(h)>> : h \in Fold!Eligible}
  BY ONLY <1>5, <1>6
<1>8. QED BY <1>1, <1>2, <1>3, <1>5, <1>7

LEMMA WrittenPayable ==
  ASSUME Fold!FoldAssumption, Inputs, file = Fold!Artifact(TrueClaims, bps)
  PROVE  Fold!ArtifactPayable
<1> DEFINE E == Fold!Eligible
           Leaf(h) == <<Fold!Index(h), h, Share(h)>>
<1>1. file.root = {Leaf(h) : h \in E}
  BY WrittenFile
<1> DEFINE root == file.root
<1>2. {leaf[2] : leaf \in root} = E /\ {leaf[1] : leaf \in root} = {Fold!Index(h) : h \in E}
  <2>1. \A h \in E : Leaf(h) \in root /\ Leaf(h)[2] = h /\ Leaf(h)[1] = Fold!Index(h)
    BY <1>1
  <2>2. \A leaf \in root : \E h \in E : leaf = Leaf(h)
    BY <1>1
  <2> HIDE DEF root, E, Leaf
  <2>3. \A leaf \in root : \E h \in E : leaf[2] = h /\ leaf[1] = Fold!Index(h)
    BY <2>1, <2>2
  <2>4. \A h \in E : \E leaf \in root : leaf[2] = h /\ leaf[1] = Fold!Index(h)
    BY <2>1
  <2>5. {leaf[2] : leaf \in root} = E
    BY <2>3, <2>4
  <2>6. {leaf[1] : leaf \in root} = {Fold!Index(h) : h \in E}
    BY <2>3, <2>4
  <2>7. QED BY <2>5, <2>6
<1>4. {Fold!Index(h) : h \in E} = 0..(Cardinality(E) - 1)
  BY IndexBijective DEF Inputs
<1>5. /\ Fold!Cardinality(file.root) = Cardinality(E) /\ file.holderCount = Cardinality(E)
      /\ Fold!LeafSum(file.root) = file.totalPayout
  BY WrittenFile
<1>6. E = {h \in Fold!Holders : Fold!Balance[h] > 0 /\ h \notin excluded}
  BY DEF Fold!Eligible
<1> HIDE DEF E
<1>7. QED BY <1>2, <1>4, <1>5, <1>6 DEF Fold!ArtifactPayable

LEMMA WrittenAccepted ==
  ASSUME Fold!FoldAssumption, Inputs, file = Fold!Artifact(TrueClaims, bps)
  PROVE  Fold!Accepted(file)
<1>1. /\ file.claims = TrueClaims /\ file.root = Fold!Leaves(TrueClaims)
      /\ file.totalPayout = Fold!AmountSum(TrueClaims)
      /\ file.totalGross = Fold!GrossSum(TrueClaims)
      /\ file.withholdingBps = bps
      /\ DOMAIN TrueClaims = Fold!Eligible
  BY WrittenFile
<1>2. file.holderCount = Fold!Cardinality(DOMAIN file.claims)
  BY <1>1, WrittenFile, FoldSizes
<1>3. ASSUME NEW h \in DOMAIN file.claims
      PROVE  /\ file.claims[h].amount = Fold!NetFromGross(file.claims[h].gross, file.withholdingBps)
             /\ <<file.claims[h].index, h, file.claims[h].amount>> \in file.root
  <2>1. h \in Fold!Eligible
    BY <1>1, <1>3
  <2>2. TrueClaims[h] = Fold!ClaimOf(h)
    BY <2>1 DEF TrueClaims
  <2>3. /\ TrueClaims[h].amount = Fold!NetFromGross(Fold!Gross(h), bps)
        /\ TrueClaims[h].gross = Fold!Gross(h)
    BY <2>2 DEF Fold!ClaimOf
  <2>4. <<TrueClaims[h].index, h, TrueClaims[h].amount>> \in Fold!Leaves(TrueClaims)
    BY <1>1, <2>1 DEF Fold!Leaves
  <2>5. QED BY <1>1, <2>3, <2>4
<1>4. Fold!ClaimsHold(file) /\ Fold!WithholdingInRange(file)
  BY <1>1, <1>3 DEF Fold!ClaimsHold, Fold!Proven, Fold!WithholdingInRange, Fold!FoldAssumption, Inputs
<1>5. Fold!RootRederived(file) /\ Fold!TotalsAddUp(file)
  BY <1>1 DEF Fold!RootRederived, Fold!TotalsAddUp
<1>6. QED BY <1>2, <1>4, <1>5 DEF Fold!Accepted

Roots == SUBSET (Nat \X Fold!Holders \X Nat)

LEMMA ClaimMapFacts ==
  ASSUME Fold!FoldAssumption, NEW D \in SUBSET Fold!Holders, NEW c \in [D -> Fold!ClaimEntry]
  PROVE  /\ IsFiniteSet(D) /\ Fold!Leaves(c) \in Roots
         /\ Fold!LeafSum(Fold!Leaves(c)) = Fold!AmountSum(c)
         /\ Fold!AmountSum(c) \in Nat /\ Fold!GrossSum(c) \in Nat
         /\ Fold!Cardinality(D) \in Nat
<1>1. IsFiniteSet(Fold!Holders)
  BY FS_Interval DEF Fold!Holders, Fold!FoldAssumption
<1>2. IsFiniteSet(D)
  BY <1>1, FS_Subset
<1>3. /\ Fold!Leaves(c) = {LeafOf(c, h) : h \in D}
      /\ Fold!LeafSum(Fold!Leaves(c)) = Fold!AmountSum(c)
      /\ Fold!AmountSum(c) \in Nat /\ Fold!GrossSum(c) \in Nat
  BY ONLY <1>2, c \in [D -> Fold!ClaimEntry], LeavesOfClaims
<1>4. \A h \in D : LeafOf(c, h) \in Nat \X Fold!Holders \X Nat
  BY DEF LeafOf, Fold!ClaimEntry
<1>5. Fold!Leaves(c) \in Roots
  BY <1>3, <1>4 DEF Roots
<1>6. Fold!Cardinality(D) \in Nat
  BY <1>2, FoldSizes, FS_CardinalityType
<1>7. QED BY <1>2, <1>3, <1>5, <1>6

\* A file with the totals of its claims is of the artifact's format.
LEMMA TotalledTyped ==
  ASSUME Fold!FoldAssumption, NEW D \in SUBSET Fold!Holders, NEW c \in [D -> Fold!ClaimEntry],
         NEW root \in Roots, NEW w \in Fold!Given
  PROVE  Fold!IsArtifact(Fold!TotalledFile(c, root, w)) /\ Fold!IsArtifact(Fold!Artifact(c, w))
<1>1. /\ Fold!Leaves(c) \in Roots /\ Fold!AmountSum(c) \in Nat /\ Fold!GrossSum(c) \in Fold!Given
      /\ Fold!Cardinality(D) \in Nat /\ DOMAIN c = D
  BY ClaimMapFacts DEF Fold!Given
<1>2. ASSUME NEW r \in Roots PROVE Fold!IsArtifact(Fold!TotalledFile(c, r, w))
  BY <1>1, <1>2 DEF Fold!IsArtifact, Fold!TotalledFile, Roots
<1>3. QED BY <1>1, <1>2 DEF Fold!Artifact

\* The claims of a file of the artifact's format.
LEMMA ArtifactClaims ==
  ASSUME NEW f, Fold!IsArtifact(f)
  PROVE  /\ DOMAIN f.claims \in SUBSET Fold!Holders
         /\ f.claims \in [DOMAIN f.claims -> Fold!ClaimEntry]
         /\ f.root \in Roots /\ f.withholdingBps \in Fold!Given
BY DEF Fold!IsArtifact, Roots

\* A file the verifier accepts pays what its root says, or else lists and
\* promises nothing.
LEMMA AcceptedExact ==
  ASSUME Fold!FoldAssumption, Fold!IsArtifact(file), Fold!Accepted(file)
  PROVE  IF DOMAIN file.claims = {}
         THEN file.totalPayout = 0 /\ file.holderCount = 0
         ELSE /\ {<<file.claims[h].index, h, file.claims[h].amount>> : h \in DOMAIN file.claims} = file.root
              /\ Fold!LeafSum(file.root) = file.totalPayout
<1> DEFINE c == file.claims
           D == DOMAIN c
<1>1. D \in SUBSET Fold!Holders /\ c \in [D -> Fold!ClaimEntry]
  BY ArtifactClaims
<1>2. file.holderCount = Fold!Cardinality(D) /\ Fold!AmountSum(c) = file.totalPayout
  BY DEF Fold!Accepted, Fold!TotalsAddUp
<1>3. CASE D = {}
  <2>1. file.holderCount = 0
    BY <1>2, <1>3, FoldSizes, FS_EmptySet
  <2>2. Fold!AmountSum(c) = SumFunctionOnSet([h \in D |-> c[h].amount], D)
    BY FoldSum DEF Fold!AmountSum
  <2>3. [h \in D |-> c[h].amount] \in [{} -> Int]
    BY <1>3
  <2> HIDE DEF c
  <2>4. Fold!AmountSum(c) = 0
    BY <1>3, <2>2, <2>3, SumEmpty
  <2>5. QED BY <1>2, <1>3, <2>1, <2>4 DEF c
<1>4. CASE D # {}
  <2>1. Fold!Leaves(c) = file.root
    BY <1>4 DEF Fold!Accepted, Fold!RootRederived
  <2>2. Fold!LeafSum(Fold!Leaves(c)) = Fold!AmountSum(c)
    BY <1>1, ClaimMapFacts
  <2>3. QED BY <1>2, <1>4, <2>1, <2>2 DEF Fold!Leaves
<1>5. QED BY <1>3, <1>4

\* The holders not paid yet, and what they are still owed.
Open(slots) == {h \in Fold!Eligible : Fold!Index(h) \notin slots}
Owed(slots) == SumFunctionOnSet([h \in Open(slots) |-> Share(h)], Open(slots))

FileInv ==
  /\ Inputs /\ Fold!IsArtifact(file)
  /\ stage \in {"logs", "refused", "generated", "altered"}
  /\ stage = "generated" => file = Fold!Artifact(TrueClaims, bps) /\ Fold!Eligible # {}

\* The root posted is the tool's own, whatever became of the file since, and
\* the escrow is what its unclaimed leaves add up to.
PaidInv ==
  /\ posted # {} => /\ stage \in {"generated", "altered"}
                    /\ posted = Fold!Leaves(TrueClaims)
                    /\ escrow = Owed(used)
  /\ posted = {} => used = {}
  /\ used \subseteq {Fold!Index(h) : h \in Fold!Eligible}

\* The inputs of a snapshot do not change, nor what follows from them.
LEMMA InputsStay ==
  ASSUME UNCHANGED <<logs, rate, bps, excluded>>
  PROVE  /\ Inputs => Inputs'
         /\ TrueClaims' = TrueClaims /\ Fold!Eligible' = Fold!Eligible
         /\ \A h : Fold!Index(h)' = Fold!Index(h) /\ Share(h)' = Share(h)
<1>1. Fold!Balance' = Fold!Balance
  BY DEF Fold!Balance
<1>2. Fold!Eligible' = Fold!Eligible
  BY <1>1 DEF Fold!Eligible
<1>3. \A h : Fold!Index(h)' = Fold!Index(h)
  BY <1>2 DEF Fold!Index
<1>4. \A h : Fold!Gross(h)' = Fold!Gross(h)
  BY <1>1 DEF Fold!Gross
<1>5. \A h : Share(h)' = Share(h)
  BY <1>4 DEF Share
<1>6. \A h : Fold!ClaimOf(h)' = Fold!ClaimOf(h)
  BY <1>3, <1>4 DEF Fold!ClaimOf
<1>7. TrueClaims' = TrueClaims
  BY <1>2, <1>6 DEF TrueClaims
<1>8. QED BY <1>2, <1>3, <1>5, <1>7 DEF Inputs

LEMMA OpenStays ==
  ASSUME UNCHANGED <<logs, rate, bps, excluded, used>>
  PROVE  Owed(used)' = Owed(used)
<1>1. /\ Fold!Eligible' = Fold!Eligible
      /\ \A h : Fold!Index(h)' = Fold!Index(h) /\ Share(h)' = Share(h)
  BY InputsStay
<1>2. Open(used)' = Open(used)
  BY <1>1 DEF Open
<1>3. [h \in Open(used) |-> Share(h)]' = [h \in Open(used) |-> Share(h)]
  BY <1>1, <1>2
<1>4. QED BY <1>2, <1>3 DEF Owed

LEMMA WriteKeeps ==
  ASSUME Fold!FoldAssumption, FileInv, Fold!Generate
  PROVE  FileInv'
<1>1. UNCHANGED <<logs, rate, bps, excluded>> /\ Inputs
  BY DEF Fold!Generate, FileInv
<1>2. Inputs' /\ TrueClaims' = TrueClaims /\ Fold!Eligible' = Fold!Eligible /\ bps' = bps
  BY <1>1, InputsStay
<1>3. CASE Fold!Eligible = {} /\ stage' = "refused" /\ UNCHANGED file
  BY <1>2, <1>3 DEF FileInv
<1>4. CASE Fold!Eligible # {} /\ stage' = "generated" /\ file' = Fold!Artifact(TrueClaims, bps)
  <2>1. TrueClaims \in [Fold!Eligible -> Fold!ClaimEntry]
    BY <1>1, ClaimFacts
  <2>2. Fold!IsArtifact(file')
    <3>1. bps \in Fold!Given
      BY <1>1 DEF Inputs, Fold!FoldAssumption, Fold!Given
    <3>2. Fold!Eligible \in SUBSET Fold!Holders /\ {} \in Roots
      BY DEF Fold!Eligible, Roots
    <3>3. QED BY <1>4, <2>1, <3>1, <3>2, TotalledTyped
  <2>3. file' = Fold!Artifact(TrueClaims', bps')
    BY <1>2, <1>4
  <2>4. Fold!Artifact(TrueClaims', bps') = Fold!Artifact(TrueClaims, bps)'
    BY DEF Fold!Artifact, Fold!TotalledFile
  <2>5. QED BY <1>2, <1>4, <2>2, <2>3, <2>4 DEF FileInv
<1>5. QED BY <1>3, <1>4 DEF Fold!Generate, TrueClaims

\* A changed head leaves a file of the artifact's format.
LEMMA HeadTyped ==
  ASSUME Fold!FoldAssumption, NEW f, Fold!IsArtifact(f), NEW g \in Fold!EditedHeads(f)
  PROVE  Fold!IsArtifact(g)
<1>1. /\ Fold!Amounts \subseteq Nat /\ Fold!Addresses \subseteq Nat
      /\ Withholdings \cup {NotGiven, Denominator + 1} \subseteq Fold!Given
  <2>1. Withholdings \subseteq 0..Denominator /\ Denominator \in Nat /\ Denominator + 1 \in Nat
    BY DEF Fold!FoldAssumption
  <2>2. Withholdings \cup {NotGiven, Denominator + 1} \subseteq Fold!Given
    <3>1. 0..Denominator \subseteq Nat
      BY <2>1
    <3>2. Withholdings \subseteq Nat
      BY ONLY <2>1, <3>1
    <3>3. QED BY <2>1, <3>2 DEF Fold!Given
  <2>3. QED BY <2>2 DEF Fold!FoldAssumption, Fold!Amounts, Fold!Addresses
<1>2. Nat \subseteq Fold!Given /\ NotGiven \in Fold!Given
  BY DEF Fold!Given
<1>3. \/ \E x \in Nat : g = [f EXCEPT !.totalPayout = x]
      \/ \E x \in Fold!Given : g = [f EXCEPT !.totalGross = x]
      \/ \E x \in Nat : g = [f EXCEPT !.holderCount = x]
      \/ \E x \in Fold!Given : g = [f EXCEPT !.withholdingBps = x]
  BY <1>1, <1>2 DEF Fold!EditedHeads
<1>4. g.claims = f.claims
  BY <1>3 DEF Fold!IsArtifact
<1>5. QED BY <1>3, <1>4 DEF Fold!IsArtifact

\* Edited claims are claims of some of the holders.
LEMMA EditedTyped ==
  ASSUME Fold!FoldAssumption, NEW D \in SUBSET Fold!Holders, NEW c \in [D -> Fold!ClaimEntry],
         NEW e \in Fold!EditedClaims(c)
  PROVE  DOMAIN e \in SUBSET Fold!Holders /\ e \in [DOMAIN e -> Fold!ClaimEntry]
<1>1. Fold!Amounts \subseteq Nat /\ Fold!Addresses \subseteq Nat /\ DOMAIN c = D
  BY DEF Fold!FoldAssumption, Fold!Amounts, Fold!Addresses
<1>2. CASE \E E \in SUBSET D : e = Fold!Restrict(c, E)
  <2>1. PICK E \in SUBSET D : e = [h \in E |-> c[h]]
    BY <1>2 DEF Fold!Restrict
  <2>2. QED BY <2>1
<1>3. CASE \E h \in D : \E entry \in Fold!ClaimEntry : e = [c EXCEPT ![h] = entry]
  BY <1>3
<1>4. CASE \E h \in D, x \in Fold!Amounts : e = [c EXCEPT ![h].amount = x]
  <2>1. PICK h \in D, x \in Fold!Amounts : e = [c EXCEPT ![h].amount = x]
    BY <1>4
  <2>2. [c[h] EXCEPT !.amount = x] \in Fold!ClaimEntry
    BY <1>1 DEF Fold!ClaimEntry
  <2>3. e = [c EXCEPT ![h] = [c[h] EXCEPT !.amount = x]]
    BY <2>1
  <2>4. QED BY <1>3, <2>2, <2>3
<1>5. CASE \E h \in D, x \in Fold!Addresses : e = [c EXCEPT ![h].index = x]
  <2>1. PICK h \in D, x \in Fold!Addresses : e = [c EXCEPT ![h].index = x]
    BY <1>5
  <2>2. [c[h] EXCEPT !.index = x] \in Fold!ClaimEntry
    BY <1>1 DEF Fold!ClaimEntry
  <2>3. e = [c EXCEPT ![h] = [c[h] EXCEPT !.index = x]]
    BY <2>1
  <2>4. QED BY <1>3, <2>2, <2>3
<1>6. CASE \E h \in D : e = [c EXCEPT ![h].gross = NotGiven]
  <2>1. PICK h \in D : e = [c EXCEPT ![h].gross = NotGiven]
    BY <1>6
  <2>2. [c[h] EXCEPT !.gross = NotGiven] \in Fold!ClaimEntry
    BY DEF Fold!ClaimEntry, Fold!Given
  <2>3. e = [c EXCEPT ![h] = [c[h] EXCEPT !.gross = NotGiven]]
    BY <2>1
  <2>4. QED BY <1>3, <2>2, <2>3
<1>7. QED BY <1>1, <1>2, <1>4, <1>5, <1>6 DEF Fold!EditedClaims

LEMMA EditKeeps ==
  ASSUME Fold!FoldAssumption, FileInv, Fold!Edit
  PROVE  FileInv'
<1>1. /\ UNCHANGED <<logs, rate, bps, excluded>> /\ Inputs /\ Fold!IsArtifact(file)
      /\ stage' = "altered"
  BY DEF Fold!Edit, FileInv
<1>2. ASSUME file' \in Fold!EditedHeads(file)
      PROVE  Fold!IsArtifact(file')
  BY <1>1, <1>2, HeadTyped
<1>3. ASSUME NEW claims \in Fold!EditedClaims(file.claims),
             \/ file' = [file EXCEPT !.claims = claims]
             \/ \E root \in {file.root, Fold!Leaves(claims)} :
                   file' = Fold!TotalledFile(claims, root, file.withholdingBps)
      PROVE  Fold!IsArtifact(file')
  <2>1. /\ DOMAIN claims \in SUBSET Fold!Holders /\ claims \in [DOMAIN claims -> Fold!ClaimEntry]
        /\ file.root \in Roots /\ file.withholdingBps \in Fold!Given
    BY <1>1, ArtifactClaims, EditedTyped
  <2>2. CASE file' = [file EXCEPT !.claims = claims]
    <3>1. file'.claims = claims
      BY <1>1, <2>2 DEF Fold!IsArtifact
    <3>2. QED BY <1>1, <2>1, <2>2, <3>1 DEF Fold!IsArtifact
  <2>3. ASSUME NEW root \in {file.root, Fold!Leaves(claims)},
               file' = Fold!TotalledFile(claims, root, file.withholdingBps)
        PROVE  Fold!IsArtifact(file')
    <3>1. Fold!Leaves(claims) \in Roots
      BY <2>1, ClaimMapFacts
    <3>2. root \in Roots
      BY <2>1, <2>3, <3>1
    <3>3. Fold!IsArtifact(Fold!TotalledFile(claims, root, file.withholdingBps))
      BY <2>1, <3>2, TotalledTyped
    <3>4. QED BY <2>3, <3>3
  <2>4. QED BY <1>3, <2>2, <2>3
<1>4. Fold!IsArtifact(file')
  BY <1>2, <1>3 DEF Fold!Edit
<1>5. Inputs'
  BY <1>1, InputsStay
<1>6. QED BY <1>1, <1>4, <1>5 DEF FileInv

LEMMA ReplaceKeeps ==
  ASSUME Fold!FoldAssumption, FileInv, Fold!Replace
  PROVE  FileInv'
<1>1. /\ UNCHANGED <<logs, rate, bps, excluded>> /\ Inputs
      /\ stage' = "altered" /\ file' \in ForeignFiles
  BY DEF Fold!Replace, FileInv
<1>2. Fold!IsArtifact(file')
  BY <1>1 DEF Fold!FoldAssumption
<1>3. Inputs'
  BY <1>1, InputsStay
<1>4. QED BY <1>1, <1>2, <1>3 DEF FileInv

LEMMA RenumberKeeps ==
  ASSUME Fold!FoldAssumption, FileInv, Fold!Renumber
  PROVE  FileInv'
<1>1. /\ UNCHANGED <<logs, rate, bps, excluded>> /\ Inputs /\ Fold!IsArtifact(file)
      /\ stage' = "altered"
  BY DEF Fold!Renumber, FileInv
<1> DEFINE c == file.claims
           D == DOMAIN c
<1>2. PICK number \in [D -> Fold!Addresses] :
        file' = Fold!Artifact([h \in D |-> [c[h] EXCEPT !.index = number[h]]], file.withholdingBps)
  BY DEF Fold!Renumber
<1> DEFINE renumbered == [h \in D |-> [c[h] EXCEPT !.index = number[h]]]
<1>3. D \in SUBSET Fold!Holders /\ c \in [D -> Fold!ClaimEntry] /\ file.withholdingBps \in Fold!Given
  BY <1>1, ArtifactClaims
<1>4. Fold!Addresses \subseteq Nat
  BY DEF Fold!Addresses, Fold!FoldAssumption
<1>5. \A h \in D : [c[h] EXCEPT !.index = number[h]] \in Fold!ClaimEntry
  <2> SUFFICES ASSUME NEW h \in D PROVE [c[h] EXCEPT !.index = number[h]] \in Fold!ClaimEntry
    OBVIOUS
  <2>1. c[h] \in Fold!ClaimEntry /\ number[h] \in Nat
    BY <1>3, <1>4
  <2>2. QED BY <2>1 DEF Fold!ClaimEntry
<1>6. renumbered \in [D -> Fold!ClaimEntry] /\ {} \in Roots
  BY <1>5 DEF Roots
<1> HIDE DEF renumbered, c
<1>7. Fold!IsArtifact(file')
  BY <1>2, <1>3, <1>6, TotalledTyped DEF renumbered, c
<1>8. Inputs'
  BY <1>1, InputsStay
<1>9. QED BY <1>1, <1>7, <1>8 DEF FileInv

LEMMA OwedFacts ==
  ASSUME Fold!FoldAssumption, Inputs, NEW slots
  PROVE  /\ IsFiniteSet(Open(slots)) /\ Owed(slots) \in Nat
         /\ \A h \in Open(slots) : Share(h) <= Owed(slots)
         /\ \A h \in Open(slots) : Owed(slots \cup {Fold!Index(h)}) = Owed(slots) - Share(h)
<1> DEFINE O == Open(slots)
           f == [h \in O |-> Share(h)]
<1>1. IsFiniteSet(O)
  <2>1. O \in SUBSET Fold!Eligible
    BY DEF Open
  <2>2. IsFiniteSet(Fold!Eligible)
    BY HistoryFacts DEF Inputs
  <2> HIDE DEF O
  <2>3. QED BY <2>1, <2>2, FS_Subset
<1>2. f \in [O -> Nat] /\ \A h \in O : f[h] = Share(h)
  BY ClaimFacts DEF Open
<1>3. SumFunctionOnSet(f, O) \in Nat /\ \A h \in O : f[h] <= SumFunctionOnSet(f, O)
  <2> HIDE DEF O, f
  <2>1. QED BY <1>1, <1>2, SumNat
<1>4. ASSUME NEW h \in O
      PROVE  Owed(slots \cup {Fold!Index(h)}) = Owed(slots) - Share(h)
  <2>1. Open(slots \cup {Fold!Index(h)}) = O \ {h}
    <3>1. \A g \in Fold!Eligible : Fold!Index(g) = Fold!Index(h) <=> g = h
      BY IndexBijective DEF Inputs, Open
    <3>2. QED BY <3>1 DEF Open
  <2>2. [k \in O \ {h} |-> f[k]] = [k \in O \ {h} |-> Share(k)]
    BY <1>2
  <2>3. Owed(slots \cup {Fold!Index(h)}) = SumFunctionOnSet([k \in O \ {h} |-> f[k]], O \ {h})
    BY <2>1, <2>2 DEF Owed
  <2>4. SumFunctionOnSet(f, O) = f[h] + SumFunctionOnSet([k \in O \ {h} |-> f[k]], O \ {h})
    <3>1. f \in [O -> Int]
      BY <1>2
    <3> HIDE DEF O, f
    <3>2. QED BY <1>1, <1>4, <3>1, SumOut
  <2>5. SumFunctionOnSet([k \in O \ {h} |-> f[k]], O \ {h}) \in Int
    <3>1. IsFiniteSet(O \ {h}) /\ [k \in O \ {h} |-> f[k]] \in [O \ {h} -> Int]
      BY <1>1, <1>2, FS_RemoveElement
    <3> HIDE DEF O, f
    <3>2. QED BY <3>1, SumInt
  <2>6. Owed(slots) = SumFunctionOnSet(f, O) /\ f[h] = Share(h) /\ Share(h) \in Nat
    BY <1>2 DEF Owed
  <2> HIDE DEF O, f
  <2>7. QED BY <1>3, <2>3, <2>4, <2>5, <2>6
<1>5. QED BY <1>1, <1>2, <1>3, <1>4 DEF Owed

LEMMA TrueLeaves ==
  ASSUME Fold!FoldAssumption, Inputs
  PROVE  /\ Fold!Leaves(TrueClaims) = {<<Fold!Index(h), h, Share(h)>> : h \in Fold!Eligible}
         /\ Fold!AmountSum(TrueClaims) = Owed({})
<1>1. IsFiniteSet(Fold!Eligible) /\ TrueClaims \in [Fold!Eligible -> Fold!ClaimEntry]
  BY HistoryFacts, ClaimFacts DEF Inputs
<1>2. Fold!Leaves(TrueClaims) = {LeafOf(TrueClaims, h) : h \in Fold!Eligible}
  BY ONLY <1>1, LeavesOfClaims
<1>3. \A h \in Fold!Eligible : LeafOf(TrueClaims, h) = <<Fold!Index(h), h, Share(h)>>
  BY ClaimFacts
<1>4. Open({}) = Fold!Eligible
  BY DEF Open
<1>5. [h \in DOMAIN TrueClaims |-> TrueClaims[h].amount] = [h \in Open({}) |-> Share(h)]
  <2>1. \A h \in Fold!Eligible : TrueClaims[h].amount = Share(h)
    BY ClaimFacts DEF Fold!ClaimOf, Share
  <2>2. DOMAIN TrueClaims = Fold!Eligible
    BY <1>1
  <2>3. QED BY <1>4, <2>1, <2>2
<1>6. Fold!AmountSum(TrueClaims) = Owed({})
  BY <1>5, FoldSum DEF Fold!AmountSum, Owed
<1>7. QED BY <1>2, <1>3, <1>6

LEMMA PostKeeps ==
  ASSUME Fold!FoldAssumption, FileInv, PaidInv, Fold!Post
  PROVE  FileInv' /\ PaidInv'
<1>1. /\ UNCHANGED <<logs, rate, bps, excluded, stage, file, used>> /\ Inputs
      /\ stage = "generated" /\ posted = {} /\ posted' = file.root /\ escrow' = file.totalPayout
      /\ file = Fold!Artifact(TrueClaims, bps)
  BY DEF Fold!Post, Fold!vars, FileInv
<1>2. /\ Inputs' /\ TrueClaims' = TrueClaims /\ Fold!Eligible' = Fold!Eligible
      /\ \A h : Fold!Index(h)' = Fold!Index(h)
  BY <1>1, InputsStay
<1>3. file.root = Fold!Leaves(TrueClaims) /\ file.totalPayout = Fold!AmountSum(TrueClaims)
  BY <1>1, WrittenFile
<1>4. used = {} /\ Owed(used)' = Owed(used)
  BY <1>1, OpenStays DEF PaidInv
<1>5. escrow' = Owed(used)'
  BY <1>1, <1>3, <1>4, TrueLeaves
<1>6. posted' = Fold!Leaves(TrueClaims)'
  BY <1>1, <1>2, <1>3 DEF Fold!Leaves
<1>7. Fold!Artifact(TrueClaims, bps)' = Fold!Artifact(TrueClaims, bps)
  BY <1>1, <1>2 DEF Fold!Artifact, Fold!TotalledFile
<1>8. FileInv'
  BY <1>1, <1>2, <1>7 DEF FileInv
<1>9. PaidInv'
  BY <1>1, <1>2, <1>4, <1>5, <1>6 DEF PaidInv
<1>10. QED BY <1>8, <1>9

LEMMA ClaimKeeps ==
  ASSUME Fold!FoldAssumption, FileInv, PaidInv, Fold!Claim
  PROVE  FileInv' /\ PaidInv'
<1>1. /\ UNCHANGED <<logs, rate, bps, excluded, stage, file, posted>> /\ Inputs
  BY DEF Fold!Claim, Fold!vars, FileInv
<1>2. PICK claim \in Fold!AllEligibleClaims(file) :
        Fold!Payable(claim) /\ used' = used \cup {claim.index} /\ escrow' = escrow - claim.amount
  BY DEF Fold!Claim
<1>3. <<claim.index, claim.account, claim.amount>> \in posted /\ claim.index \notin used
  BY <1>2 DEF Fold!Payable, Fold!VerifyProof, Fold!ClaimArgs
<1>4. /\ stage \in {"generated", "altered"} /\ posted = Fold!Leaves(TrueClaims)
      /\ escrow = Owed(used) /\ posted # {}
  BY <1>3 DEF PaidInv
<1>5. PICK h \in Fold!Eligible :
        <<claim.index, claim.account, claim.amount>> = <<Fold!Index(h), h, Share(h)>>
  BY <1>1, <1>3, <1>4, TrueLeaves
<1>6. claim.index = Fold!Index(h) /\ claim.amount = Share(h) /\ h \in Open(used)
  BY <1>3, <1>5 DEF Open
<1>7. escrow' = Owed(used \cup {Fold!Index(h)})
  BY <1>1, <1>2, <1>4, <1>6, OwedFacts
<1>8. /\ Inputs' /\ TrueClaims' = TrueClaims /\ Fold!Eligible' = Fold!Eligible
      /\ \A g : Fold!Index(g)' = Fold!Index(g) /\ Share(g)' = Share(g)
  BY <1>1, InputsStay
<1>9. used' = used \cup {Fold!Index(h)} /\ used' \subseteq {Fold!Index(g) : g \in Fold!Eligible}
  BY <1>2, <1>6 DEF PaidInv
<1>10. Owed(used)' = Owed(used')
  <2>1. Open(used)' = Open(used')
    BY <1>8 DEF Open
  <2>2. [g \in Open(used) |-> Share(g)]' = [g \in Open(used') |-> Share(g)]
    BY <1>8, <2>1
  <2>3. QED BY <2>1, <2>2 DEF Owed
<1>11. escrow' = Owed(used)'
  BY <1>7, <1>9, <1>10
<1>12. Fold!Leaves(TrueClaims)' = Fold!Leaves(TrueClaims)
  BY <1>8 DEF Fold!Leaves
<1>13. Fold!Artifact(TrueClaims, bps)' = Fold!Artifact(TrueClaims, bps)
  BY <1>1, <1>8 DEF Fold!Artifact, Fold!TotalledFile
<1>14. FileInv'
  BY <1>1, <1>8, <1>13 DEF FileInv
<1>15. PaidInv'
  BY <1>1, <1>4, <1>8, <1>9, <1>11, <1>12 DEF PaidInv
<1>16. QED BY <1>14, <1>15

LEMMA FoldInit ==
  ASSUME Fold!FoldAssumption, Fold!Init, Fold!ClaimInit
  PROVE  FileInv /\ PaidInv
<1>1. Inputs /\ stage = "logs" /\ file = Fold!NoFile /\ posted = {} /\ used = {}
  BY DEF Fold!Init, Fold!ClaimInit, Inputs
<1>2. <<>> \in [{} -> Fold!ClaimEntry] /\ {} \in SUBSET Fold!Holders /\ {} \in Roots
  BY DEF Roots
<1>3. Fold!IsArtifact(file)
  BY <1>1, <1>2, TotalledTyped DEF Fold!NoFile, Fold!Given
<1>4. QED BY <1>1, <1>3 DEF FileInv, PaidInv

LEMMA FoldStep ==
  ASSUME Fold!FoldAssumption
  PROVE  (FileInv /\ PaidInv) /\ [Fold!ClaimNext]_<<Fold!vars, Fold!claimVars>> => (FileInv /\ PaidInv)'
<1> SUFFICES ASSUME FileInv, PaidInv, [Fold!ClaimNext]_<<Fold!vars, Fold!claimVars>>
             PROVE  FileInv' /\ PaidInv'
  OBVIOUS
<1>1. CASE Fold!Next /\ UNCHANGED Fold!claimVars
  <2>1. UNCHANGED <<logs, rate, bps, excluded, posted, escrow, used>>
    BY <1>1 DEF Fold!Next, Fold!Generate, Fold!Edit, Fold!Replace, Fold!Renumber, Fold!claimVars
  <2>2. posted # {} => stage' \in {"generated", "altered"}
    BY <1>1 DEF Fold!Next, Fold!Generate, Fold!Edit, Fold!Replace, Fold!Renumber, PaidInv
  <2>3. TrueClaims' = TrueClaims /\ Fold!Eligible' = Fold!Eligible /\ \A h : Fold!Index(h)' = Fold!Index(h)
    BY <2>1, InputsStay
  <2>4. Owed(used)' = Owed(used)
    BY <2>1, OpenStays
  <2>5. Fold!Leaves(TrueClaims)' = Fold!Leaves(TrueClaims)
    BY <2>3 DEF Fold!Leaves
  <2>6. PaidInv'
    BY <2>1, <2>2, <2>3, <2>4, <2>5 DEF PaidInv
  <2>7. FileInv'
    BY <1>1, WriteKeeps, EditKeeps, ReplaceKeeps, RenumberKeeps DEF Fold!Next
  <2>8. QED BY <2>6, <2>7
<1>2. CASE UNCHANGED <<Fold!vars, Fold!claimVars>>
  <2>1. UNCHANGED <<logs, rate, bps, excluded, stage, file, posted, escrow, used>>
    BY <1>2 DEF Fold!vars, Fold!claimVars
  <2>2. /\ Inputs => Inputs'
        /\ TrueClaims' = TrueClaims /\ Fold!Eligible' = Fold!Eligible /\ \A h : Fold!Index(h)' = Fold!Index(h)
    BY <2>1, InputsStay
  <2>3. Owed(used)' = Owed(used)
    BY <2>1, OpenStays
  <2>4. Fold!Leaves(TrueClaims)' = Fold!Leaves(TrueClaims)
    BY <2>2 DEF Fold!Leaves
  <2>5. Fold!Artifact(TrueClaims, bps)' = Fold!Artifact(TrueClaims, bps)
    BY <2>1, <2>2 DEF Fold!Artifact, Fold!TotalledFile
  <2>6. PaidInv'
    BY <2>1, <2>2, <2>3, <2>4 DEF PaidInv
  <2>7. FileInv'
    BY <2>1, <2>2, <2>5 DEF FileInv
  <2>8. QED BY <2>6, <2>7
<1>3. QED BY <1>1, <1>2, PostKeeps, ClaimKeeps DEF Fold!ClaimNext

LEMMA FoldProperties ==
  ASSUME Fold!FoldAssumption, FileInv, PaidInv
  PROVE  SharesFollowLogs /\ ArtifactPayable /\ VerifyIsExact /\ EveryHolderPaid
<1>1. Inputs /\ logs \in Histories
  BY DEF FileInv, Inputs
<1>2. stage = "generated" => file = Fold!Artifact(TrueClaims, bps) /\ Fold!Eligible # {}
  BY DEF FileInv
<1>3. Fold!TotalWithinProRata
  <2>1. CASE stage = "generated"
    BY <1>1, <1>2, <2>1, TotalsRound
  <2>2. CASE stage # "generated"
    BY <2>2 DEF Fold!TotalWithinProRata, Fold!Generated
  <2>3. QED BY <2>1, <2>2
<1>4. SharesFollowLogs
  BY <1>1, <1>3, FoldOfHistory DEF SharesFollowLogs, Fold!SharesFollowLogs
<1>5. ArtifactPayable
  <2>1. CASE stage = "generated"
    BY <1>1, <1>2, <2>1, WrittenPayable DEF ArtifactPayable
  <2>2. CASE stage # "generated"
    BY <2>2 DEF ArtifactPayable, Fold!ArtifactPayable, Fold!Generated
  <2>3. QED BY <2>1, <2>2
<1>6. VerifyIsExact
  <2>1. stage = "generated" => Fold!Accepted(file)
    BY <1>1, <1>2, WrittenAccepted
  <2>2. stage = "altered" /\ Fold!Accepted(file) =>
          IF DOMAIN file.claims = {}
          THEN file.totalPayout = 0 /\ file.holderCount = 0
          ELSE /\ {<<file.claims[h].index, h, file.claims[h].amount>> : h \in DOMAIN file.claims} = file.root
               /\ Fold!LeafSum(file.root) = file.totalPayout
    BY AcceptedExact DEF FileInv
  <2>3. QED BY <2>1, <2>2 DEF VerifyIsExact, Fold!VerifyIsExact, Fold!Generated
<1>7. EveryHolderPaid
  <2> SUFFICES ASSUME posted # {}
               PROVE  /\ escrow = Fold!SumFunction([h \in Open(used) |-> Share(h)])
                      /\ used \subseteq {Fold!Index(h) : h \in Fold!Eligible}
                      /\ stage = "generated" =>
                           \A h \in Open(used) : Fold!Payable(Fold!EligibleClaimFor(file, h))
    BY DEF EveryHolderPaid, Fold!EveryHolderPaid, Fold!Generated, Open, Share
  <2>1. escrow = Owed(used) /\ posted = Fold!Leaves(TrueClaims)
    BY DEF PaidInv
  <2>2. escrow = Fold!SumFunction([h \in Open(used) |-> Share(h)])
    BY <2>1, FoldSum DEF Owed
  <2>3. ASSUME stage = "generated", NEW h \in Open(used)
        PROVE  Fold!Payable(Fold!EligibleClaimFor(file, h))
    <3>1. h \in Fold!Eligible /\ Fold!Index(h) \notin used
      BY DEF Open
    <3>2. file.claims = TrueClaims
      BY <1>1, <1>2, <2>3, WrittenFile
    <3>3. TrueClaims[h].index = Fold!Index(h) /\ TrueClaims[h].amount = Share(h)
      BY <1>1, <3>1, ClaimFacts DEF Fold!ClaimOf, Share
    <3>4. Fold!EligibleClaimFor(file, h) = [index |-> Fold!Index(h), account |-> h, amount |-> Share(h)]
      BY <3>2, <3>3 DEF Fold!EligibleClaimFor
    <3>5. <<Fold!Index(h), h, Share(h)>> \in posted /\ Share(h) <= escrow
      BY <1>1, <2>1, <3>1, TrueLeaves, OwedFacts
    <3>6. QED BY <3>1, <3>4, <3>5 DEF Fold!Payable, Fold!VerifyProof, Fold!ClaimArgs
  <2>4. QED BY <2>2, <2>3 DEF PaidInv
<1>8. QED BY <1>4, <1>5, <1>6, <1>7

\* The shares written down are those the logs give: a holder has what it
\* received less what it sent whatever the order of the logs, and rounding
\* never promises more than the pro-rata share.  For every history of
\* transfers, rate, withholding and exclusion set (foldTransfers,
\* deriveHolders and netFromGross).
THEOREM SharesAlwaysFollowLogs ==
  ASSUME Fold!FoldAssumption
  PROVE  Fold!ClaimSpec => []SharesFollowLogs
BY FoldInit, FoldStep, FoldProperties, PTL DEF Fold!ClaimSpec

\* A root the tool writes can be paid in full, whatever the numbers: one leaf
\* for each eligible holder and nobody else, in distinct slots from 0 on,
\* adding up to totalPayout (deriveHolders, applyExclusions, buildTree).
THEOREM ArtifactsPayable ==
  ASSUME Fold!FoldAssumption
  PROVE  Fold!ClaimSpec => []ArtifactPayable
BY FoldInit, FoldStep, FoldProperties, PTL DEF Fold!ClaimSpec

\* verify accepts every file the tool wrote.  Of every other file, however it
\* was edited and whoever wrote it: if it is accepted and lists claims, these are
\* exactly the leaves of its root and add up to its total; accepted without
\* claims it declares no holder and no payout, and its root is anything
\* (verify.ts:108-210).
THEOREM VerifierExact ==
  ASSUME Fold!FoldAssumption
  PROVE  Fold!ClaimSpec => []VerifyIsExact
BY FoldInit, FoldStep, FoldProperties, PTL DEF Fold!ClaimSpec

\* Claims the SDK builds from a file, the tool's own or an edited copy, leave
\* in the deposit exactly what the holders not yet paid are owed, and each of
\* those can still claim it (eligibleClaimFor, claimArgsFromEligible), for
\* any number of holders and in any order of claims.
THEOREM HoldersAlwaysPaid ==
  ASSUME Fold!FoldAssumption
  PROVE  Fold!ClaimSpec => []EveryHolderPaid
BY FoldInit, FoldStep, FoldProperties, PTL DEF Fold!ClaimSpec
=============================================================================
