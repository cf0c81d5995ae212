---------------------------- MODULE ReaderProofs ----------------------------
(***************************************************************************)
(* Proofs about the programs that read the chain: the list of actions of   *)
(* the app and the SDK, the monitor's poll and its event mode, the         *)
(* subgraph and the SDK's event watchers, for any number of actions, any   *)
(* totals, deposits and leaves, and chains of any length; the subgraph     *)
(* also on chains that lose blocks.                                        *)
(***************************************************************************)
EXTENDS Monitor, MonitorEvents, ActionViews, Subgraph, EventWatch, FiniteSums

(***************************************************************************)
(* The book                                                                *)
(***************************************************************************)

Statuses == {"NONE", "ANNOUNCED", "ROOT_PUBLISHED", "CLAIMABLE", "FINALIZED", "CANCELLED"}
Indices == {leaf.index : leaf \in Leaves}

Entry ==
  [status : Statuses, kind : Kinds \cup {"CASH"}, goal : Nat, funded : Nat, claimed : Nat,
   paid : SUBSET Indices]

\* What the books of one action have to do with its status.
EntryOK(e) ==
  /\ e.claimed <= e.funded /\ e.funded <= e.goal
  /\ e.status \in {"NONE", "ANNOUNCED"} => e.goal = 0
  /\ e.status \in {"ROOT_PUBLISHED", "CLAIMABLE", "FINALIZED"} => e.goal > 0
  /\ e.status \in {"ROOT_PUBLISHED", "CANCELLED"} => e.claimed = 0
  /\ e.status \in {"CLAIMABLE", "FINALIZED"} => e.funded = e.goal
  /\ e.status = "CANCELLED" => e.funded = 0
  /\ e.kind # "CASH" => e.status \in {"NONE", "ANNOUNCED", "CANCELLED"}

BookOK(b) ==
  /\ b \in [Ids -> Entry]
  /\ \A id \in Ids : EntryOK(b[id])
  /\ \A j, k \in Ids : j < k /\ b[k].status # "NONE" => b[j].status # "NONE"

\* What an action shows later, given what it shows now.
Later(old, new) ==
  /\ old.goal > 0 => new.goal = old.goal
  /\ old.claimed <= new.claimed
  /\ old.status # "NONE" => new.status # "NONE" /\ new.kind = old.kind
  /\ old.status = "CLAIMABLE" => new.status \in {"CLAIMABLE", "FINALIZED"}
  /\ old.status \in {"FINALIZED", "CANCELLED"} => new = old

Moves(b, c) == \A id \in Ids : Later(b[id], c[id])

LEMMA LaterOrSame == \A e \in Entry : Later(e, e)
BY DEF Later, Entry

LEMMA LaterTransitive ==
  ASSUME NEW a \in Entry, NEW b \in Entry, NEW c \in Entry, Later(a, b), Later(b, c)
  PROVE  Later(a, c)
BY DEF Later, Entry, Statuses

LEMMA IdsCounted ==
  ASSUME FeedAssumption
  PROVE  \E n \in Nat : Ids = 1..n
BY FS_CardinalityType DEF FeedAssumption

LEMMA BlankOK == FeedAssumption => BookOK([id \in Ids |-> Blank])
BY DEF FeedAssumption, BookOK, Blank, Entry, EntryOK, Statuses, Indices

\* A step changes one entry; the others stay.
LEMMA OneEntryMoves ==
  ASSUME FeedAssumption, NEW b, BookOK(b), NEW id \in Ids, NEW e \in Entry, EntryOK(e), Later(b[id], e),
         e.status # "NONE", \A k \in Ids : k < id => b[k].status # "NONE"
  PROVE  BookOK([b EXCEPT ![id] = e]) /\ Moves(b, [b EXCEPT ![id] = e])
<1> DEFINE c == [b EXCEPT ![id] = e]
<1>1. b \in [Ids -> Entry] /\ c \in [Ids -> Entry]
  BY DEF BookOK
<1>2. c[id] = e /\ \A k \in Ids : k # id => c[k] = b[k]
  BY <1>1
<1> HIDE DEF c
<1>3. \A k \in Ids : EntryOK(c[k])
  BY <1>2 DEF BookOK
<1>4. Moves(b, c)
  BY <1>1, <1>2, LaterOrSame DEF Moves
<1>5. \A j, k \in Ids : j < k /\ c[k].status # "NONE" => c[j].status # "NONE"
  <2> SUFFICES ASSUME NEW j \in Ids, NEW k \in Ids, j < k, c[k].status # "NONE"
               PROVE  c[j].status # "NONE"
    OBVIOUS
  <2>1. CASE j = id
    BY <2>1, <1>2
  <2>2. CASE j # id /\ k = id
    BY <2>2, <1>2
  <2>3. CASE j # id /\ k # id
    BY <2>3, <1>2 DEF BookOK
  <2>4. QED BY <2>1, <2>2, <2>3
<1>6. BookOK(c)
  BY <1>1, <1>3, <1>5 DEF BookOK
<1>7. QED BY <1>4, <1>6 DEF c

\* Every operation of the contracts changes one action forward.
LEMMA AnnounceMoves ==
  ASSUME FeedAssumption, BookOK(book), NEW id \in Ids, NEW kind \in Kinds, Announce(id, kind)
  PROVE  BookOK(book') /\ Moves(book, book')
<1> DEFINE e == [book[id] EXCEPT !.status = "ANNOUNCED", !.kind = kind]
<1>1. book[id] \in Entry /\ EntryOK(book[id]) /\ book \in [Ids -> Entry]
  BY DEF BookOK
<1>2. book' = [book EXCEPT ![id] = e]
  BY <1>1 DEF Announce
<1>3. e \in Entry /\ EntryOK(e) /\ e.status # "NONE" /\ Later(book[id], e)
  <2>1. e \in Entry
    BY <1>1 DEF Announce, At, Entry, Statuses
  <2>2. /\ e.status = "ANNOUNCED" /\ e.kind = kind
        /\ e.goal = book[id].goal /\ e.funded = book[id].funded /\ e.claimed = book[id].claimed
    BY <1>1 DEF Entry
  <2> HIDE DEF e
  <2>3. EntryOK(e) /\ Later(book[id], e) /\ e.status # "NONE"
    BY <1>1, <2>1, <2>2 DEF Announce, At, Entry, Statuses, EntryOK, Later
  <2>4. QED BY <2>1, <2>3
<1>4. \A k \in Ids : k < id => book[k].status # "NONE"
  BY DEF Announce, At
<1> HIDE DEF e
<1>5. QED BY <1>2, <1>3, <1>4, OneEntryMoves

LEMMA Earlier ==
  ASSUME FeedAssumption, BookOK(book), NEW id \in Ids, book[id].status # "NONE"
  PROVE  \A k \in Ids : k < id => book[k].status # "NONE"
BY DEF BookOK

LEMMA PublishMoves ==
  ASSUME FeedAssumption, BookOK(book), NEW id \in Ids, NEW goal \in Goals, PublishGoal(id, goal)
  PROVE  BookOK(book') /\ Moves(book, book') /\ book'[id].goal > 0
<1> DEFINE e == [book[id] EXCEPT !.status = "ROOT_PUBLISHED", !.goal = goal]
<1>1. book[id] \in Entry /\ EntryOK(book[id]) /\ book \in [Ids -> Entry] /\ goal \in Nat
  BY DEF BookOK, FeedAssumption
<1>2. book' = [book EXCEPT ![id] = e]
  BY <1>1 DEF PublishGoal
<1>3. e \in Entry /\ EntryOK(e) /\ e.status # "NONE" /\ Later(book[id], e) /\ e.goal > 0
  BY <1>1 DEF PublishGoal, At, Entry, EntryOK, Later, Statuses
<1>4. \A k \in Ids : k < id => book[k].status # "NONE"
  BY Earlier DEF PublishGoal, At
<1> HIDE DEF e
<1>5. QED BY <1>1, <1>2, <1>3, <1>4, OneEntryMoves

LEMMA DepositMoves ==
  ASSUME FeedAssumption, BookOK(book), NEW id \in Ids, NEW amount \in Amounts, Deposit(id, amount)
  PROVE  BookOK(book') /\ Moves(book, book') /\ book'[id].goal > 0
<1> DEFINE total == book[id].funded + amount
           e == [book[id] EXCEPT !.funded = total,
                                 !.status = IF total = book[id].goal THEN "CLAIMABLE" ELSE @]
<1>1. book[id] \in Entry /\ EntryOK(book[id]) /\ book \in [Ids -> Entry] /\ amount \in Nat
  BY DEF BookOK, FeedAssumption
<1>2. book' = [book EXCEPT ![id] = e]
  BY <1>1 DEF Deposit
<1>3. e \in Entry /\ EntryOK(e) /\ e.status # "NONE" /\ Later(book[id], e) /\ e.goal > 0
  <2>1. e \in Entry
    <3>1. total \in Nat /\ (IF total = book[id].goal THEN "CLAIMABLE" ELSE book[id].status) \in Statuses
      BY <1>1 DEF Entry, Statuses
    <3> HIDE DEF total
    <3>2. QED BY <1>1, <3>1 DEF Entry
  <2>2. /\ e.status = (IF total = book[id].goal THEN "CLAIMABLE" ELSE book[id].status)
        /\ e.goal = book[id].goal /\ e.funded = total /\ e.claimed = book[id].claimed
        /\ e.kind = book[id].kind
    BY <1>1 DEF Entry
  <2> HIDE DEF e
  <2>3. EntryOK(e) /\ Later(book[id], e) /\ e.status # "NONE" /\ e.goal > 0
    BY <1>1, <2>1, <2>2 DEF Deposit, At, Entry, Statuses, EntryOK, Later
  <2>4. QED BY <2>1, <2>3
<1>4. \A k \in Ids : k < id => book[k].status # "NONE"
  BY Earlier DEF Deposit, At
<1> HIDE DEF e
<1>5. QED BY <1>1, <1>2, <1>3, <1>4, OneEntryMoves

LEMMA PayMoves ==
  ASSUME FeedAssumption, BookOK(book), NEW id \in Ids, NEW leaf \in Leaves, Pay(id, leaf)
  PROVE  BookOK(book') /\ Moves(book, book')
<1> DEFINE total == book[id].claimed + leaf.amount
           e == [book[id] EXCEPT !.paid = @ \cup {leaf.index}, !.claimed = total]
<1>1. book[id] \in Entry /\ EntryOK(book[id]) /\ book \in [Ids -> Entry] /\ leaf.amount \in Nat
  BY DEF BookOK, FeedAssumption
<1>2. book' = [book EXCEPT ![id] = e]
  BY <1>1 DEF Pay
<1>3. e \in Entry /\ EntryOK(e) /\ e.status # "NONE" /\ Later(book[id], e)
  <2>1. e \in Entry
    <3>1. total \in Nat /\ book[id].paid \cup {leaf.index} \in SUBSET Indices
      BY <1>1 DEF Entry, Indices
    <3> HIDE DEF total
    <3>2. QED BY <1>1, <3>1 DEF Entry
  <2>2. /\ e.status = book[id].status /\ e.claimed = total /\ e.kind = book[id].kind
        /\ e.goal = book[id].goal /\ e.funded = book[id].funded
    BY <1>1 DEF Entry
  <2> HIDE DEF e
  <2>3. EntryOK(e) /\ Later(book[id], e) /\ e.status # "NONE"
    BY <1>1, <2>1, <2>2 DEF Pay, At, Entry, Statuses, Indices, EntryOK, Later
  <2>4. QED BY <2>1, <2>3
<1>4. \A k \in Ids : k < id => book[k].status # "NONE"
  BY Earlier DEF Pay, At
<1> HIDE DEF e
<1>5. QED BY <1>2, <1>3, <1>4, OneEntryMoves

LEMMA FinalizeMoves ==
  ASSUME FeedAssumption, BookOK(book), NEW id \in Ids, Finalize(id)
  PROVE  BookOK(book') /\ Moves(book, book') /\ book'[id].status = "FINALIZED"
<1> DEFINE e == [book[id] EXCEPT !.status = "FINALIZED"]
<1>1. book[id] \in Entry /\ EntryOK(book[id]) /\ book \in [Ids -> Entry]
  BY DEF BookOK
<1>2. book' = [book EXCEPT ![id] = e]
  BY <1>1 DEF Finalize
<1>3. e \in Entry /\ EntryOK(e) /\ e.status = "FINALIZED" /\ Later(book[id], e)
  BY <1>1 DEF Finalize, At, Entry, EntryOK, Later, Statuses
<1>4. \A k \in Ids : k < id => book[k].status # "NONE"
  BY Earlier DEF Finalize, At
<1> HIDE DEF e
<1>5. QED BY <1>1, <1>2, <1>3, <1>4, OneEntryMoves

LEMMA VoidMoves ==
  ASSUME FeedAssumption, BookOK(book), NEW id \in Ids, Void(id)
  PROVE  BookOK(book') /\ Moves(book, book')
<1> DEFINE e == [book[id] EXCEPT !.status = "CANCELLED", !.funded = 0]
<1>1. book[id] \in Entry /\ EntryOK(book[id]) /\ book \in [Ids -> Entry]
  BY DEF BookOK
<1>2. book' = [book EXCEPT ![id] = e]
  BY <1>1 DEF Void
<1>3. e \in Entry /\ EntryOK(e) /\ e.status # "NONE" /\ Later(book[id], e)
  <2>1. e \in Entry
    BY <1>1 DEF Void, Entry, Statuses
  <2>2. /\ e.status = "CANCELLED" /\ e.funded = 0 /\ e.kind = book[id].kind
        /\ e.goal = book[id].goal /\ e.claimed = book[id].claimed
    BY <1>1 DEF Entry
  <2> HIDE DEF e
  <2>3. EntryOK(e) /\ Later(book[id], e) /\ e.status # "NONE"
    BY <1>1, <2>1, <2>2 DEF Void, Entry, Statuses, EntryOK, Later
  <2>4. QED BY <2>1, <2>3
<1>4. \A k \in Ids : k < id => book[k].status # "NONE"
  BY Earlier DEF Void
<1> HIDE DEF e
<1>5. QED BY <1>2, <1>3, <1>4, OneEntryMoves

(***************************************************************************)
(* The chain                                                               *)
(***************************************************************************)

EventNames ==
  {"ActionAnnounced", "MerkleRootPublished", "ActionStatusChanged", "Funded", "Claimed",
   "UnclaimedSwept", "PublishedActionCancelled", "Paused", "Unpaused"}

EventType ==
  [name : EventNames, id : Ids \cup {0}, kind : Kinds \cup {"CASH"}, prev : Statuses,
   new : Statuses \cup Pausable, index : Indices \cup {0}, amount : Int, total : Int]

BlockType ==
  [book : [Ids -> Entry], pool : [Coins -> Int], paused : SUBSET Pausable, events : Seq(EventType),
   tx : Nat]

\* What an event says of the book of its own block.
EventOK(b, e, pos) ==
  /\ e.name = "ActionStatusChanged" => e.new \in Allowed[e.prev]
  /\ e.name = "Funded" => pos = 1 /\ e.id \in Ids /\ b[e.id].goal > 0
  /\ e.name = "UnclaimedSwept" => e.id \in Ids /\ b[e.id].status = "FINALIZED"

EventsOK(b, events) ==
  events \in Seq(EventType) /\ \A pos \in DOMAIN events : EventOK(b, events[pos], pos)

\* Every block is sound, and the book has only moved on since.
FeedInv ==
  /\ BookOK(book)
  /\ pool \in [Coins -> Int] /\ paused \in SUBSET Pausable
  /\ chain \in Seq(BlockType)
  /\ \A h \in 1..Len(chain) :
        BookOK(chain[h].book) /\ Moves(chain[h].book, book) /\ EventsOK(chain[h].book, chain[h].events)

LEMMA AllowedIs ==
  /\ "ROOT_PUBLISHED" \in Allowed["ANNOUNCED"] /\ "CANCELLED" \in Allowed["ANNOUNCED"]
  /\ "CLAIMABLE" \in Allowed["ROOT_PUBLISHED"] /\ "CANCELLED" \in Allowed["ROOT_PUBLISHED"]
  /\ "FINALIZED" \in Allowed["CLAIMABLE"]
BY DEF Allowed

LEMMA MovesTransitive ==
  ASSUME NEW a, NEW b, NEW c, BookOK(a), BookOK(b), BookOK(c), Moves(a, b), Moves(b, c)
  PROVE  Moves(a, c)
BY LaterTransitive DEF Moves, BookOK

LEMMA MovesOrSame == ASSUME NEW b, BookOK(b) PROVE Moves(b, b)
BY LaterOrSame DEF Moves, BookOK

\* The chain grows at its end, and blocks keep their height.
Grows == chain' = chain \/ \E b \in BlockType : chain' = Append(chain, b)

LEMMA GrowsKeeps ==
  ASSUME chain \in Seq(BlockType), Grows
  PROVE  chain' \in Seq(BlockType) /\ Len(chain) <= Len(chain') /\ \A h \in 1..Len(chain) : chain'[h] = chain[h]
BY DEF Grows

LEMMA NextTxTyped == ASSUME chain \in Seq(BlockType) PROVE NextTx \subseteq Nat
<1>1. StateAt(Height).tx \in Nat
  <2>1. CASE Height = 0
    BY <2>1 DEF StateAt, NoBlock
  <2>2. CASE Height # 0
    <3>1. Height \in 1..Len(chain)
      BY <2>2 DEF Height
    <3>2. chain[Height] \in BlockType
      BY <3>1
    <3>3. QED BY <2>2, <3>2 DEF StateAt, BlockType
  <2>3. QED BY <2>1, <2>2
<1>2. QED BY <1>1 DEF NextTx

\* A call whose events are sound.
LEMMA EmitKeeps ==
  ASSUME FeedInv, BookOK(book'), Moves(book, book'), pool' \in [Coins -> Int], paused' \in SUBSET Pausable,
         NEW events, EventsOK(book', events), Emit(events)
  PROVE  FeedInv' /\ Grows
<1>0. PICK tx \in NextTx : chain' = Append(chain, Block(events, tx))
  BY DEF Emit
<1> DEFINE b == Block(events, tx)
<1>1. b \in BlockType /\ b.book = book' /\ b.events = events
  BY NextTxTyped DEF Block, BlockType, BookOK, EventsOK, FeedInv
<1>2. chain' = Append(chain, b) /\ chain \in Seq(BlockType)
  BY <1>0 DEF FeedInv
<1> HIDE DEF b
<1>3. /\ chain' \in Seq(BlockType) /\ Len(chain') = Len(chain) + 1
      /\ chain'[Len(chain')] = b /\ \A h \in 1..Len(chain) : chain'[h] = chain[h]
  BY <1>1, <1>2
<1>4. ASSUME NEW h \in 1..Len(chain')
      PROVE  /\ BookOK(chain'[h].book) /\ Moves(chain'[h].book, book')
             /\ EventsOK(chain'[h].book, chain'[h].events)
  <2>1. CASE h = Len(chain')
    BY <2>1, <1>1, <1>3, MovesOrSame
  <2>2. CASE h # Len(chain')
    <3>1. h \in 1..Len(chain) /\ chain'[h] = chain[h]
      BY <2>2, <1>2, <1>3
    <3>2. QED BY <3>1, MovesTransitive DEF FeedInv
  <2>3. QED BY <2>1, <2>2
<1>5. FeedInv'
  BY <1>3, <1>4 DEF FeedInv
<1>6. QED BY <1>1, <1>2, <1>5 DEF Grows

\* An event with nothing but its name and action filled in.
LEMMA EventTyped ==
  ASSUME NEW name \in EventNames, NEW id \in Ids \cup {0}
  PROVE  Event(name, id) \in EventType /\ Event(name, id).name = name /\ Event(name, id).id = id
BY DEF Event, EventType, Statuses

\* The events of each operation are sound.
LEMMA StatusEventTyped ==
  ASSUME BookOK(book), NEW id \in Ids, NEW s \in Statuses
  PROVE  /\ StatusEvent(id, s) \in EventType
         /\ StatusEvent(id, s).name = "ActionStatusChanged"
         /\ StatusEvent(id, s).prev = book[id].status /\ StatusEvent(id, s).new = s
<1>1. book[id].status \in Statuses
  BY DEF BookOK, Entry
<1> DEFINE o == Event("ActionStatusChanged", id)
<1>2. o \in EventType /\ o.name = "ActionStatusChanged"
  BY EventTyped DEF EventNames
<1>3. StatusEvent(id, s) = [o EXCEPT !.prev = book[id].status, !.new = s]
  BY DEF StatusEvent
<1> HIDE DEF o
<1>4. QED BY <1>1, <1>2, <1>3 DEF EventType

LEMMA AnnounceEventsOK ==
  ASSUME BookOK(book), NEW id \in Ids, NEW kind \in Kinds
  PROVE  EventsOK(book', AnnounceEvents(id, kind))
<1> DEFINE o == Event("ActionAnnounced", id)
           e == [o EXCEPT !.kind = kind]
<1>1. e \in EventType /\ e.name = "ActionAnnounced"
  <2>1. o \in EventType /\ o.name = "ActionAnnounced" /\ o.id = id
    BY EventTyped DEF EventNames
  <2> HIDE DEF o
  <2>2. QED BY <2>1 DEF EventType
<1> HIDE DEF e
<1>2. AnnounceEvents(id, kind) = <<e>>
  BY DEF AnnounceEvents, e
<1>3. QED BY <1>1, <1>2 DEF EventsOK, EventOK

LEMMA PublishEventsOK ==
  ASSUME FeedAssumption, BookOK(book), NEW id \in Ids, NEW goal \in Goals, PublishGoal(id, goal)
  PROVE  EventsOK(book', PublishEvents(id, goal))
<1> DEFINE s == StatusEvent(id, "ROOT_PUBLISHED")
           o == Event("MerkleRootPublished", id)
           e == [o EXCEPT !.total = goal]
<1>1. s \in EventType /\ s.name = "ActionStatusChanged" /\ s.new \in Allowed[s.prev]
  BY StatusEventTyped, AllowedIs DEF Statuses, PublishGoal, At
<1>2. e \in EventType /\ e.name = "MerkleRootPublished"
  <2>1. o \in EventType /\ o.name = "MerkleRootPublished" /\ o.id = id
    BY EventTyped DEF EventNames
  <2> HIDE DEF o
  <2>2. QED BY <2>1 DEF EventType, FeedAssumption
<1> HIDE DEF e, s
<1>3. PublishEvents(id, goal) = <<s, e>>
  BY DEF PublishEvents, e, s
<1>4. QED BY <1>1, <1>2, <1>3 DEF EventsOK, EventOK

LEMMA FundEventsOK ==
  ASSUME FeedAssumption, BookOK(book), NEW id \in Ids, NEW amount \in Amounts, Deposit(id, amount),
         book'[id].goal > 0
  PROVE  EventsOK(book', FundEvents(id, amount))
<1> DEFINE total == book[id].funded + amount
           o == Event("Funded", id)
           e == [o EXCEPT !.amount = amount, !.total = total]
           s == StatusEvent(id, "CLAIMABLE")
<1>1. amount \in Int /\ total \in Int
  BY DEF FeedAssumption, BookOK, Entry
<1> HIDE DEF total
<1>2. e \in EventType /\ e.name = "Funded" /\ e.id = id
  <2>1. o \in EventType /\ o.name = "Funded" /\ o.id = id
    BY EventTyped DEF EventNames
  <2> HIDE DEF o
  <2>2. QED BY <1>1, <2>1 DEF EventType
<1>3. s \in EventType /\ s.name = "ActionStatusChanged" /\ s.new \in Allowed[s.prev]
  BY StatusEventTyped, AllowedIs DEF Statuses, Deposit, At
<1>4. FundEvents(id, amount) = IF total = book[id].goal THEN <<e, s>> ELSE <<e>>
  BY DEF FundEvents, total
<1> HIDE DEF e, s
<1>5. EventsOK(book', <<e, s>>) /\ EventsOK(book', <<e>>)
  BY <1>2, <1>3 DEF EventsOK, EventOK
<1>6. QED BY <1>4, <1>5

LEMMA ClaimEventsOK ==
  ASSUME FeedAssumption, BookOK(book), NEW id \in Ids, NEW leaf \in Leaves
  PROVE  EventsOK(book', ClaimEvents(id, leaf))
<1> DEFINE o == Event("Claimed", id)
           e == [o EXCEPT !.index = leaf.index, !.amount = leaf.amount]
<1>1. leaf.index \in Indices /\ leaf.amount \in Int
  BY DEF FeedAssumption, Indices
<1>2. e \in EventType /\ e.name = "Claimed"
  <2>1. o \in EventType /\ o.name = "Claimed" /\ o.id = id
    BY EventTyped DEF EventNames
  <2> HIDE DEF o
  <2>2. QED BY <1>1, <2>1 DEF EventType
<1> HIDE DEF e
<1>3. ClaimEvents(id, leaf) = <<e>>
  BY DEF ClaimEvents, e
<1>4. QED BY <1>2, <1>3 DEF EventsOK, EventOK

LEMMA SweepEventsOK ==
  ASSUME BookOK(book), NEW id \in Ids, Finalize(id), book'[id].status = "FINALIZED"
  PROVE  EventsOK(book', SweepEvents(id))
<1> DEFINE s == StatusEvent(id, "FINALIZED")
           o == Event("UnclaimedSwept", id)
           e == [o EXCEPT !.amount = book[id].funded - book[id].claimed]
<1>1. s \in EventType /\ s.name = "ActionStatusChanged" /\ s.new \in Allowed[s.prev]
  BY StatusEventTyped, AllowedIs DEF Statuses, Finalize, At
<1>2. book[id].funded - book[id].claimed \in Int
  BY DEF BookOK, Entry
<1>3. e \in EventType /\ e.name = "UnclaimedSwept" /\ e.id = id
  <2>1. o \in EventType /\ o.name = "UnclaimedSwept" /\ o.id = id
    BY EventTyped DEF EventNames
  <2> HIDE DEF o
  <2>2. QED BY <1>2, <2>1 DEF EventType
<1> HIDE DEF e, s
<1>4. SweepEvents(id) = <<s, e>>
  BY DEF SweepEvents, e, s
<1>5. QED BY <1>1, <1>3, <1>4 DEF EventsOK, EventOK

LEMMA CancelEventsOK ==
  ASSUME BookOK(book), NEW id \in Ids, Void(id)
  PROVE  EventsOK(book', CancelEvents(id))
<1> DEFINE s == StatusEvent(id, "CANCELLED")
           o == Event("PublishedActionCancelled", id)
           e == [o EXCEPT !.amount = book[id].funded]
<1>1. s \in EventType /\ s.name = "ActionStatusChanged" /\ s.new \in Allowed[s.prev]
  BY StatusEventTyped, AllowedIs DEF Statuses, Void
<1>2. book[id].funded \in Int
  BY DEF BookOK, Entry
<1>3. e \in EventType /\ e.name = "PublishedActionCancelled"
  <2>1. o \in EventType /\ o.name = "PublishedActionCancelled" /\ o.id = id
    BY EventTyped DEF EventNames
  <2> HIDE DEF o
  <2>2. QED BY <1>2, <2>1 DEF EventType
<1>4. CancelEvents(id) = IF At(id, "ANNOUNCED") THEN <<s>> ELSE <<s, e>>
  BY DEF CancelEvents
<1> HIDE DEF e, s
<1>5. EventsOK(book', <<s>>) /\ EventsOK(book', <<s, e>>)
  BY <1>1, <1>3 DEF EventsOK, EventOK
<1>6. QED BY <1>4, <1>5

LEMMA SettleTyped ==
  ASSUME FeedAssumption, pool \in [Coins -> Int], NEW id \in Ids, NEW change \in Int, Settle(id, change)
  PROVE  pool' \in [Coins -> Int]
<1>1. CoinOf[id] \in Coins
  BY DEF FeedAssumption
<1>2. pool[CoinOf[id]] + change \in Int
  BY <1>1
<1>3. QED BY <1>1, <1>2 DEF Settle

LEMMA ToggleEvent ==
  ASSUME NEW contract \in Pausable, TogglePause(contract)
  PROVE  \E e \in EventType : e.name \in {"Paused", "Unpaused"} /\ Emit(<<e>>)
<1> DEFINE o == Event(IF Open(contract) THEN "Paused" ELSE "Unpaused", 0)
           e == [o EXCEPT !.new = contract]
<1>1. e \in EventType /\ e.name \in {"Paused", "Unpaused"}
  <2>1. o \in EventType /\ o.name \in {"Paused", "Unpaused"}
    BY EventTyped DEF EventNames
  <2> HIDE DEF o
  <2>2. QED BY <2>1 DEF EventType
<1>2. Emit(<<e>>)
  BY DEF TogglePause
<1> HIDE DEF e
<1>3. QED BY <1>1, <1>2

\* Whatever happens on a chain that loses no block, it stays sound, grows
\* at its end, and the book moves on.
LEMMA FeedStep ==
  ASSUME FeedAssumption, FeedInv, FeedNext, [Len(chain') >= Len(chain)]_chain
  PROVE  FeedInv' /\ Grows /\ Moves(book, book')
<1>1. BookOK(book) /\ pool \in [Coins -> Int] /\ paused \in SUBSET Pausable /\ chain \in Seq(BlockType)
  BY DEF FeedInv
<1>2. CASE MineRegistry
  <2>1. pool' \in [Coins -> Int] /\ paused' \in SUBSET Pausable
    BY <1>1, <1>2 DEF MineRegistry
  <2>2. ASSUME NEW id \in Ids, NEW kind \in Kinds, Announce(id, kind), Emit(AnnounceEvents(id, kind))
        PROVE  FeedInv' /\ Grows /\ Moves(book, book')
    BY <1>1, <2>1, <2>2, AnnounceMoves, AnnounceEventsOK, EmitKeeps
  <2>3. ASSUME NEW id \in Ids, NEW goal \in Goals, PublishGoal(id, goal), Emit(PublishEvents(id, goal))
        PROVE  FeedInv' /\ Grows /\ Moves(book, book')
    BY <1>1, <2>1, <2>3, PublishMoves, PublishEventsOK, EmitKeeps
  <2>4. ASSUME NEW id \in Ids, Void(id), Emit(CancelEvents(id))
        PROVE  FeedInv' /\ Grows /\ Moves(book, book')
    BY <1>1, <2>1, <2>4, VoidMoves, CancelEventsOK, EmitKeeps
  <2>5. QED BY <1>2, <2>2, <2>3, <2>4 DEF MineRegistry
<1>3. CASE MineDistributor
  <2>1. paused' \in SUBSET Pausable
    BY <1>1, <1>3 DEF MineDistributor
  <2>2. ASSUME NEW id \in Ids, NEW amount \in Amounts, Deposit(id, amount), Settle(id, amount),
               Emit(FundEvents(id, amount))
        PROVE  FeedInv' /\ Grows /\ Moves(book, book')
    <3>1. amount \in Int
      BY DEF FeedAssumption
    <3>2. pool' \in [Coins -> Int]
      BY <1>1, <2>2, <3>1, SettleTyped
    <3>3. QED BY <1>1, <2>1, <2>2, <3>2, DepositMoves, FundEventsOK, EmitKeeps
  <2>3. ASSUME NEW id \in Ids, NEW leaf \in Leaves, Pay(id, leaf), Settle(id, -leaf.amount),
               Emit(ClaimEvents(id, leaf))
        PROVE  FeedInv' /\ Grows /\ Moves(book, book')
    <3>1. -leaf.amount \in Int
      BY DEF FeedAssumption
    <3>2. pool' \in [Coins -> Int]
      BY <1>1, <2>3, <3>1, SettleTyped
    <3>3. QED BY <1>1, <2>1, <2>3, <3>2, PayMoves, ClaimEventsOK, EmitKeeps
  <2>4. ASSUME NEW id \in Ids, Finalize(id), Settle(id, book[id].claimed - book[id].funded),
               Emit(SweepEvents(id))
        PROVE  FeedInv' /\ Grows /\ Moves(book, book')
    <3>1. book[id].claimed - book[id].funded \in Int
      BY <1>1 DEF BookOK, Entry
    <3>2. pool' \in [Coins -> Int]
      BY <1>1, <2>4, <3>1, SettleTyped
    <3>3. QED BY <1>1, <2>1, <2>4, <3>2, FinalizeMoves, SweepEventsOK, EmitKeeps
  <2>5. ASSUME NEW id \in Ids, Void(id), Settle(id, -book[id].funded), Emit(CancelEvents(id))
        PROVE  FeedInv' /\ Grows /\ Moves(book, book')
    <3>1. -book[id].funded \in Int
      BY <1>1 DEF BookOK, Entry
    <3>2. pool' \in [Coins -> Int]
      BY <1>1, <2>5, <3>1, SettleTyped
    <3>3. QED BY <1>1, <2>1, <2>5, <3>2, VoidMoves, CancelEventsOK, EmitKeeps
  <2>6. QED BY <1>3, <2>2, <2>3, <2>4, <2>5 DEF MineDistributor
<1>4. ASSUME NEW contract \in Pausable, TogglePause(contract)
      PROVE  FeedInv' /\ Grows /\ Moves(book, book')
  <2>1. PICK e \in EventType : e.name \in {"Paused", "Unpaused"} /\ Emit(<<e>>)
    BY <1>4, ToggleEvent
  <2>2. paused' \in SUBSET Pausable /\ book' = book /\ pool' = pool
    BY <1>1, <1>4 DEF TogglePause
  <2>3. EventsOK(book', <<e>>)
    BY <2>1 DEF EventsOK, EventOK
  <2>4. QED BY <1>1, <2>1, <2>2, <2>3, MovesOrSame, EmitKeeps
<1>5. ASSUME NEW coin \in Coins, NEW amount \in Leaks, Leak(coin, amount)
      PROVE  FeedInv' /\ Grows /\ Moves(book, book')
  <2>1. pool' \in [Coins -> Int] /\ paused' = paused /\ book' = book /\ Emit(<<>>)
    BY <1>1, <1>5 DEF Leak, FeedAssumption
  <2>2. EventsOK(book', <<>>)
    BY DEF EventsOK
  <2>3. QED BY <1>1, <2>1, <2>2, MovesOrSame, EmitKeeps
<1>6. ASSUME NEW h \in 0..Height, Reorganise(h)
      PROVE  FALSE
  <2>1. Len(chain) \in Nat /\ h < Len(chain) /\ h \in 0..Len(chain) /\ chain' = SubSeq(chain, 1, h)
    BY <1>1, <1>6 DEF Reorganise, Height
  <2>2. Len(chain') = h
    BY <1>1, <2>1
  <2>3. QED BY <2>1, <2>2
<1>7. QED BY <1>2, <1>3, <1>4, <1>5, <1>6 DEF FeedNext

LEMMA FeedStarts == FeedAssumption /\ FeedInit => FeedInv
<1> SUFFICES ASSUME FeedAssumption, FeedInit PROVE FeedInv
  OBVIOUS
<1>1. BookOK(book)
  BY BlankOK DEF FeedInit, BookInit
<1>2. pool \in [Coins -> Int] /\ paused \in SUBSET Pausable /\ chain \in Seq(BlockType) /\ Len(chain) = 0
  BY DEF FeedInit, NoBlock
<1>3. QED BY <1>1, <1>2 DEF FeedInv

LEMMA FeedStays == FeedInv /\ UNCHANGED feedVars => FeedInv'
<1> SUFFICES ASSUME FeedInv, UNCHANGED feedVars PROVE FeedInv'
  OBVIOUS
<1>1. book' = book /\ pool' = pool /\ paused' = paused /\ chain' = chain
  BY DEF feedVars
<1>2. QED BY <1>1 DEF FeedInv

(***************************************************************************)
(* The list of actions                                                     *)
(***************************************************************************)

ViewEntry ==
  [stage : {"none", "action"}, status : Statuses, goal : Nat, funded : Nat, claimed : Nat,
   pending : SUBSET {"funded", "claimed"}, sure : BOOLEAN]

\* Two reads of an entry need not be of one moment, but what the first one saw
\* binds the book the second one reads.
Binds(e, b) ==
  /\ e.stage = "none" => e.pending = {"funded", "claimed"}
  /\ e.stage = "action" /\ e.status \in {"CLAIMABLE", "FINALIZED"} =>
       /\ b.status \in {"CLAIMABLE", "FINALIZED"} /\ b.goal = e.goal
       /\ e.sure /\ "funded" \notin e.pending => e.funded = e.goal
       /\ e.sure /\ "claimed" \notin e.pending => e.claimed <= b.claimed
  /\ e.stage = "action" /\ e.status = "CANCELLED" =>
       /\ b.status = "CANCELLED"
       /\ e.sure /\ "funded" \notin e.pending => e.funded = 0
       /\ e.sure /\ "claimed" \notin e.pending => e.claimed = 0

ViewInv ==
  /\ FeedInv
  /\ entries \in [Ids -> ViewEntry]
  /\ \A id \in Ids : Binds(entries[id], book[id])

LEMMA BindsLater ==
  ASSUME NEW e \in ViewEntry, NEW b \in Entry, NEW c \in Entry, EntryOK(b), Binds(e, b), Later(b, c)
  PROVE  Binds(e, c)
BY DEF Binds, Later, ViewEntry, Entry, EntryOK, Statuses

LEMMA UnreadBinds == Unread \in ViewEntry /\ \A b : Binds(Unread, b)
BY DEF Unread, ViewEntry, Binds, Statuses

LEMMA ViewStarts == FeedAssumption /\ FeedInit /\ ViewInit => ViewInv
BY FeedStarts, UnreadBinds DEF ViewInit, ViewInv

\* One entry is read further, the book stays.
LEMMA EntryRead ==
  ASSUME ViewInv, UNCHANGED feedVars, NEW id \in Ids, NEW e \in ViewEntry, Binds(e, book[id]),
         entries' = [entries EXCEPT ![id] = e]
  PROVE  ViewInv'
<1>1. FeedInv' /\ book' = book
  BY FeedStays DEF ViewInv, feedVars
<1>2. entries' \in [Ids -> ViewEntry] /\ entries'[id] = e /\ \A k \in Ids : k # id => entries'[k] = entries[k]
  BY DEF ViewInv
<1>3. QED BY <1>1, <1>2 DEF ViewInv

LEMMA ReadActionBinds ==
  ASSUME ViewInv, NEW id \in Ids, ReadAction(id)
  PROVE  ViewInv'
<1> DEFINE o == entries[id]
           e == [o EXCEPT !.stage = "action", !.status = book[id].status, !.goal = book[id].goal]
<1>1. o \in ViewEntry /\ Binds(o, book[id]) /\ o.stage = "none"
  BY DEF ViewInv, ReadAction
<1>2. book[id] \in Entry /\ EntryOK(book[id])
  BY DEF ViewInv, FeedInv, BookOK
<1>3. entries' = [entries EXCEPT ![id] = e] /\ UNCHANGED feedVars
  BY DEF ReadAction, GetAction, ViewInv
<1> HIDE DEF o
<1>4. e \in ViewEntry
  BY <1>1, <1>2 DEF ViewEntry, Entry
<1>5. e.status = book[id].status /\ e.goal = book[id].goal /\ e.stage = "action" /\ e.pending = {"funded", "claimed"}
  BY <1>1 DEF ViewEntry, Binds
<1> HIDE DEF e
<1>6. Binds(e, book[id])
  BY <1>5 DEF Binds
<1>7. QED BY <1>3, <1>4, <1>6, EntryRead

LEMMA ReadTotalBinds ==
  ASSUME ViewInv, NEW id \in Ids, NEW total \in {"funded", "claimed"}, ReadTotal(id, total)
  PROVE  ViewInv'
<1>1. PICK ok \in BOOLEAN :
        entries' = [entries EXCEPT ![id].pending = @ \ {total}, ![id].sure = @ /\ ok,
                                   ![id][total] = IF ok THEN Total(id, total) ELSE 0]
  BY DEF ReadTotal
<1> DEFINE o == entries[id]
           got == IF ok THEN book[id][total] ELSE 0
           e == [o EXCEPT !.pending = @ \ {total}, !.sure = @ /\ ok, ![total] = got]
<1>2. o \in ViewEntry /\ Binds(o, book[id]) /\ o.stage = "action" /\ entries \in [Ids -> ViewEntry]
  BY DEF ViewInv, ReadTotal, Asked
<1>3. book[id] \in Entry /\ EntryOK(book[id])
  BY DEF ViewInv, FeedInv, BookOK
<1>4. entries' = [entries EXCEPT ![id] = e] /\ UNCHANGED feedVars
  BY <1>1, <1>2 DEF ReadTotal, Total
<1>5. e \in ViewEntry /\ Binds(e, book[id])
  <2>1. CASE total = "funded"
    <3>1. got \in Nat /\ (ok => got = book[id].funded)
      BY <2>1, <1>3 DEF Entry
    <3> HIDE DEF got, o
    <3>2. e = [o EXCEPT !.pending = @ \ {"funded"}, !.sure = @ /\ ok, !.funded = got]
      BY <2>1
    <3>3. e \in ViewEntry
      BY <1>2, <3>1, <3>2 DEF ViewEntry
    <3>4. /\ e.stage = o.stage /\ e.status = o.status /\ e.goal = o.goal /\ e.claimed = o.claimed
          /\ e.funded = got /\ e.pending = o.pending \ {"funded"} /\ (e.sure <=> o.sure /\ ok)
      BY <1>2, <3>1, <3>2 DEF ViewEntry
    <3> HIDE DEF e
    <3>5. Binds(e, book[id])
      BY <1>2, <1>3, <3>1, <3>4 DEF Binds, EntryOK
    <3>6. QED BY <3>3, <3>5
  <2>2. CASE total = "claimed"
    <3>1. got \in Nat /\ (ok => got = book[id].claimed)
      BY <2>2, <1>3 DEF Entry
    <3> HIDE DEF got, o
    <3>2. e = [o EXCEPT !.pending = @ \ {"claimed"}, !.sure = @ /\ ok, !.claimed = got]
      BY <2>2
    <3>3. e \in ViewEntry
      BY <1>2, <3>1, <3>2 DEF ViewEntry
    <3>4. /\ e.stage = o.stage /\ e.status = o.status /\ e.goal = o.goal /\ e.funded = o.funded
          /\ e.claimed = got /\ e.pending = o.pending \ {"claimed"} /\ (e.sure <=> o.sure /\ ok)
      BY <1>2, <3>1, <3>2 DEF ViewEntry
    <3> HIDE DEF e
    <3>5. Binds(e, book[id])
      BY <1>2, <1>3, <3>1, <3>4 DEF Binds, EntryOK, Entry
    <3>6. QED BY <3>3, <3>5
  <2>3. QED BY <2>1, <2>2
<1> HIDE DEF e
<1>6. QED BY <1>4, <1>5, EntryRead

LEMMA ViewStep ==
  ASSUME FeedAssumption, ViewInv, [ViewNext]_<<feedVars, viewVars>>, [Len(chain') >= Len(chain)]_chain
  PROVE  ViewInv'
<1>1. CASE FeedNext /\ UNCHANGED viewVars
  <2>1. FeedInv' /\ Moves(book, book') /\ entries' = entries
    BY <1>1, FeedStep DEF ViewInv, viewVars
  <2>2. ASSUME NEW id \in Ids PROVE Binds(entries[id], book'[id])
    <3>1. book[id] \in Entry /\ EntryOK(book[id]) /\ book'[id] \in Entry
      BY <2>1 DEF ViewInv, FeedInv, BookOK
    <3>2. QED BY <2>1, <3>1, BindsLater DEF ViewInv, Moves
  <2>3. QED BY <2>1, <2>2 DEF ViewInv
<1>2. CASE BeginList \/ EndList
  <2>1. entries' = [id \in Ids |-> Unread] /\ UNCHANGED feedVars
    BY <1>2 DEF BeginList, EndList
  <2>2. QED BY <2>1, FeedStays, UnreadBinds DEF ViewInv
<1>3. ASSUME NEW id \in Ids, ReadAction(id) PROVE ViewInv'
  BY <1>3, ReadActionBinds
<1>4. ASSUME NEW id \in Ids, NEW total \in {"funded", "claimed"}, ReadTotal(id, total) PROVE ViewInv'
  BY <1>4, ReadTotalBinds
<1>5. CASE UNCHANGED <<feedVars, viewVars>>
  <2>1. entries' = entries /\ book' = book /\ FeedInv'
    BY <1>5, FeedStays DEF ViewInv, viewVars, feedVars
  <2>2. QED BY <2>1 DEF ViewInv
<1>6. QED BY <1>1, <1>2, <1>3, <1>4, <1>5 DEF ViewNext

LEMMA BoundIsCoherent == ViewInv => ViewCoherent
<1> SUFFICES ASSUME ViewInv, NEW id \in Ids, Read(id), entries[id].sure
             PROVE  /\ entries[id].status \in {"CLAIMABLE", "FINALIZED"} =>
                         entries[id].funded = entries[id].goal /\ entries[id].claimed <= entries[id].funded
                    /\ entries[id].status = "CANCELLED" => entries[id].funded = 0 /\ entries[id].claimed = 0
  BY DEF ViewCoherent
<1>1. entries[id] \in ViewEntry /\ Binds(entries[id], book[id]) /\ book[id] \in Entry /\ EntryOK(book[id])
  BY DEF ViewInv, FeedInv, BookOK
<1>2. QED BY <1>1 DEF Read, Binds, EntryOK, Entry, ViewEntry

\* However the contracts move between the reads of a list, and whichever total
\* is answered first: an entry served as claimable or finalised is fully funded
\* and not overclaimed, and a cancelled one holds nothing (actions.ts:45-73).
THEOREM ListingsCoherent ==
  ASSUME FeedAssumption
  PROVE  ViewSpec /\ NoBlockLost => []ViewCoherent
<1>1. FeedInit /\ ViewInit => ViewInv
  BY ViewStarts
<1>2. ViewInv /\ [ViewNext]_<<feedVars, viewVars>> /\ [Len(chain') >= Len(chain)]_chain => ViewInv'
  BY ViewStep
<1>3. QED BY <1>1, <1>2, BoundIsCoherent, PTL DEF ViewSpec, NoBlockLost

(***************************************************************************)
(* The event mode                                                          *)
(***************************************************************************)

TaskType == [call : Nat, pos : Nat, copy : Nat, whole : Int, step : {"asking", "ready"}]

SameDelivery(t, u) == t.call = u.call /\ t.pos = u.pos /\ t.copy = u.copy

\* What the code compares is the action and the transaction.
LEMMA SameKey ==
  ASSUME NEW t, NEW u
  PROVE  SameDeposit(t, u) <=> Funding(t) /\ Funding(u) /\ TxKey(t) = TxKey(u)
BY DEF SameDeposit, TxKey

\* What was read for a task, if the read succeeded, is what was true in the event's block.
WholeOK(t) ==
  LET e == EventOf(t)
      then == chain[t.call].book[e.id]
  IN  t.whole # 0 => /\ e.name = "Funded" => t.whole = then.goal
                     /\ e.name = "UnclaimedSwept" => t.whole = then.funded

TaskOK(t) ==
  /\ t \in TaskType
  /\ t.call \in 1..delivered /\ t.pos \in DOMAIN chain[t.call].events
  /\ WholeOK(t)

Handled == {a.task : a \in raised}

Flagged(t) == \E r \in raised : r.task = t /\ r.code = "duplicate_funding"
Large(t) == \E r \in raised : r.task = t /\ r.code = "large_funding"

\* Of the handled deliveries of a transaction's deposits to an action, exactly one
\* was let through.
OneLetThrough(t) ==
  \E first \in raised :
     /\ SameDeposit(first.task, t) /\ ~Flagged(first.task)
     /\ \A b \in raised : SameDeposit(b.task, t) /\ b.task # first.task => Flagged(b.task)

DeliveriesOK ==
  /\ delivered \in 0..Len(chain)
  /\ IsFiniteSet(Handled)
  /\ \A t \in tasks : TaskOK(t)
  /\ \A a \in raised : TaskOK(a.task)

\* A delivery is under way once, or was handled once.
DeliveredOnce ==
  /\ \A t, u \in tasks : SameDelivery(t, u) => t = u
  /\ \A t \in tasks, a \in raised : ~SameDelivery(t, a.task)

SeenOK ==
  /\ \A a \in raised : Funding(a.task) => TxKey(a.task) \in seen /\ OneLetThrough(a.task)
  /\ \A key \in seen : \E a \in raised : Funding(a.task) /\ TxKey(a.task) = key

VerdictOK(a) ==
  LET e == EventOf(a.task)
  IN  /\ e.name = "Funded" => (AtLeast(e.amount, LargeFund, a.task.whole) <=> Large(a.task))
      /\ e.name = "UnclaimedSwept" =>
           (AtLeast(e.amount, LargeSweep, a.task.whole) <=> a.code = "large_sweep_remainder")

ListenInv ==
  /\ FeedInv
  /\ DeliveriesOK
  /\ DeliveredOnce
  /\ SeenOK
  /\ LegalNeverFlagged
  /\ \A a \in raised : VerdictOK(a)

\* The event of a task under way or handled is one of its block's.
LEMMA EventOfTask ==
  ASSUME FeedInv, DeliveriesOK, NEW t, TaskOK(t)
  PROVE  /\ t.call \in 1..Len(chain) /\ EventOf(t) \in EventType
         /\ EventOK(chain[t.call].book, EventOf(t), t.pos)
<1>1. t.call \in 1..Len(chain)
  BY DEF TaskOK, DeliveriesOK, TaskType
<1>2. EventsOK(chain[t.call].book, chain[t.call].events)
  BY <1>1 DEF FeedInv
<1>3. t.pos \in DOMAIN chain[t.call].events
  BY DEF TaskOK
<1>4. QED BY <1>1, <1>2, <1>3 DEF EventsOK, EventOf

\* What a handler raises.
LEMMA CodesLegal ==
  ASSUME NEW t, EventOf(t).name = "ActionStatusChanged" => EventOf(t).new \in Allowed[EventOf(t).prev]
  PROVE  "illegal_status_transition" \notin Codes(t)
BY DEF Codes, CheckStatusChanged, CheckAnnounced, CheckRootPublished, CheckFunded, CheckSwept, OrInfo, Flag

LEMMA CodesFunded ==
  ASSUME NEW t, EventOf(t).name = "Funded"
  PROVE  /\ Codes(t) # {}
         /\ "duplicate_funding" \in Codes(t) <=> TxKey(t) \in seen
         /\ "large_funding" \in Codes(t) <=> AtLeast(EventOf(t).amount, LargeFund, t.whole)
<1>1. Codes(t) = CheckFunded(EventOf(t), TxKey(t) \in seen, t.whole)
  BY DEF Codes
<1> DEFINE e == EventOf(t)
           anomalies == Flag(TxKey(t) \in seen, "duplicate_funding")
                          \cup Flag(e.id \in Suspect.unexpected_funder, "unexpected_funder")
                          \cup Flag(AtLeast(e.amount, LargeFund, t.whole), "large_funding")
<1>2. Codes(t) = IF anomalies = {} THEN {"funded"} ELSE anomalies
  BY <1>1 DEF CheckFunded, OrInfo
<1>3. /\ "duplicate_funding" \in anomalies <=> TxKey(t) \in seen
      /\ "large_funding" \in anomalies <=> AtLeast(e.amount, LargeFund, t.whole)
  BY DEF Flag
<1> HIDE DEF anomalies
<1>4. QED BY <1>2, <1>3

LEMMA CodesSwept ==
  ASSUME NEW t, EventOf(t).name = "UnclaimedSwept", NEW c \in Codes(t)
  PROVE  c = "large_sweep_remainder" <=> AtLeast(EventOf(t).amount, LargeSweep, t.whole)
<1>1. Codes(t) = CheckSwept(EventOf(t), t.whole)
  BY DEF Codes
<1>2. QED BY <1>1 DEF CheckSwept, OrInfo, Flag


LEMMA ListenStarts == FeedAssumption /\ EventsInit => ListenInv
<1> SUFFICES ASSUME FeedAssumption, EventsInit PROVE ListenInv
  OBVIOUS
<1>1. FeedInv /\ chain = <<>> /\ delivered = 0 /\ tasks = {} /\ seen = {} /\ raised = {}
  BY FeedStarts DEF EventsInit, FeedInit, ListenInit
<1>2. Handled = {}
  BY <1>1 DEF Handled
<1>3. DeliveriesOK
  BY <1>1, <1>2, FS_EmptySet DEF DeliveriesOK
<1>4. QED
  BY <1>1, <1>3 DEF ListenInv, DeliveredOnce, SeenOK, LegalNeverFlagged

\* The chain grows: what the tasks refer to stays where it is.
LEMMA EventsStay ==
  ASSUME FeedInv, DeliveriesOK, Grows, NEW t, TaskOK(t)
  PROVE  /\ chain'[t.call] = chain[t.call] /\ EventOf(t)' = EventOf(t)
         /\ delivered' \in Nat /\ delivered <= delivered' => TaskOK(t)'
<1>1. t.call \in 1..Len(chain) /\ chain \in Seq(BlockType)
  BY EventOfTask DEF FeedInv
<1>2. chain'[t.call] = chain[t.call]
  BY <1>1, GrowsKeeps
<1>3. EventOf(t)' = EventOf(t) /\ WholeOK(t)' = WholeOK(t)
  BY <1>2 DEF EventOf, WholeOK
<1>4. ASSUME delivered' \in Nat, delivered <= delivered' PROVE TaskOK(t)'
  BY <1>2, <1>3, <1>4 DEF TaskOK, DeliveriesOK, TaskType
<1>5. QED BY <1>2, <1>3, <1>4

\* Nothing about the alerts raised changes when the chain grows.
LEMMA AlertsStay ==
  ASSUME FeedInv, DeliveriesOK, SeenOK, \A a \in raised : VerdictOK(a), Grows, raised' = raised, seen' = seen
  PROVE  SeenOK' /\ LegalNeverFlagged' = LegalNeverFlagged /\ \A a \in raised' : VerdictOK(a)'
<1>1. \A a \in raised : EventOf(a.task)' = EventOf(a.task) /\ chain'[a.task.call] = chain[a.task.call]
  BY EventsStay DEF DeliveriesOK
<1>2. \A t : Flagged(t)' = Flagged(t) /\ Large(t)' = Large(t)
  BY DEF Flagged, Large
<1>3. \A a \in raised : Funding(a.task)' = Funding(a.task) /\ TxKey(a.task)' = TxKey(a.task)
  BY <1>1 DEF Funding, TxKey
<1>4. SeenOK'
  <2>1. \A a, b \in raised : SameDeposit(a.task, b.task)' <=> SameDeposit(a.task, b.task)
    BY <1>1, <1>3 DEF SameDeposit
  <2>2. ASSUME NEW a \in raised, OneLetThrough(a.task) PROVE OneLetThrough(a.task)'
    <3>1. PICK first \in raised :
            /\ SameDeposit(first.task, a.task) /\ ~Flagged(first.task)
            /\ \A b \in raised : SameDeposit(b.task, a.task) /\ b.task # first.task => Flagged(b.task)
      BY <2>2 DEF OneLetThrough
    <3>2. SameDeposit(first.task, a.task)' /\ ~Flagged(first.task)'
      BY <1>2, <2>1, <3>1
    <3>3. \A b \in raised : SameDeposit(b.task, a.task)' /\ b.task # first.task => Flagged(b.task)'
      BY <1>2, <2>1, <3>1
    <3>4. QED BY <3>2, <3>3 DEF OneLetThrough
  <2>3. QED BY <1>3, <2>2 DEF SeenOK
<1>5. \A a \in raised' : VerdictOK(a)'
  BY <1>1, <1>2 DEF VerdictOK
<1>6. QED BY <1>4, <1>5 DEF LegalNeverFlagged

LEMMA FeedKeepsListening ==
  ASSUME FeedAssumption, ListenInv, FeedNext \/ UNCHANGED feedVars, UNCHANGED watchVars,
         [Len(chain') >= Len(chain)]_chain
  PROVE  ListenInv'
<1>1. FeedInv' /\ Grows
  BY FeedStep, FeedStays DEF ListenInv, feedVars, Grows
<1>2. delivered' = delivered /\ tasks' = tasks /\ seen' = seen /\ raised' = raised
  BY DEF watchVars
<1>3. SeenOK' /\ LegalNeverFlagged' /\ \A a \in raised' : VerdictOK(a)'
  BY <1>1, <1>2, AlertsStay DEF ListenInv
<1>4. Handled' = Handled /\ delivered' \in Nat /\ delivered <= delivered'
  BY <1>2 DEF Handled, ListenInv, DeliveriesOK
<1>5. DeliveriesOK'
  <2>1. Len(chain) <= Len(chain') /\ Len(chain') \in Nat /\ Len(chain) \in Nat
    BY <1>1, GrowsKeeps DEF ListenInv, FeedInv
  <2>2. delivered' \in 0..Len(chain')
    BY <1>2, <2>1 DEF ListenInv, DeliveriesOK
  <2>3. \A t \in tasks' : TaskOK(t)'
    BY <1>1, <1>2, <1>4, EventsStay DEF ListenInv, DeliveriesOK
  <2>4. \A a \in raised' : TaskOK(a.task)'
    BY <1>1, <1>2, <1>4, EventsStay DEF ListenInv, DeliveriesOK
  <2>5. QED BY <1>4, <2>2, <2>3, <2>4 DEF ListenInv, DeliveriesOK
<1>6. DeliveredOnce'
  BY <1>2 DEF ListenInv, DeliveredOnce, SameDelivery
<1>7. QED BY <1>1, <1>3, <1>5, <1>6 DEF ListenInv

\* A delivery adds tasks that were neither under way nor handled.
LEMMA DeliveryKeeps ==
  ASSUME ListenInv, UNCHANGED <<feedVars, seen, raised>>, delivered' \in {delivered, delivered + 1},
         delivered' <= Len(chain), NEW New, tasks' = tasks \cup New, \A t \in New : TaskOK(t)',
         \A t, u \in New : SameDelivery(t, u) => t = u,
         \A t \in New : /\ \A u \in tasks : ~SameDelivery(t, u)
                        /\ \A a \in raised : ~SameDelivery(t, a.task)
  PROVE  ListenInv'
<1>1. FeedInv' /\ Grows /\ chain' = chain
  BY FeedStays DEF ListenInv, feedVars, Grows
<1>2. SeenOK' /\ LegalNeverFlagged' /\ \A a \in raised' : VerdictOK(a)'
  BY <1>1, AlertsStay DEF ListenInv
<1>3. delivered' \in 0..Len(chain') /\ delivered' \in Nat /\ delivered <= delivered'
  BY <1>1 DEF ListenInv, DeliveriesOK
<1>4. Handled' = Handled /\ raised' = raised
  BY DEF Handled
<1>5. DeliveriesOK'
  <2>1. \A t \in tasks : TaskOK(t)'
    BY <1>1, <1>3, EventsStay DEF ListenInv, DeliveriesOK
  <2>2. \A a \in raised' : TaskOK(a.task)'
    BY <1>1, <1>3, <1>4, EventsStay DEF ListenInv, DeliveriesOK
  <2>3. QED BY <1>3, <1>4, <2>1, <2>2 DEF ListenInv, DeliveriesOK
<1>6. DeliveredOnce'
  BY <1>4 DEF ListenInv, DeliveredOnce, SameDelivery
<1>7. QED BY <1>1, <1>2, <1>5, <1>6 DEF ListenInv

LEMMA TaskTyped ==
  ASSUME NEW call \in Nat, NEW pos \in Nat, NEW copy \in Nat
  PROVE  /\ Task(call, pos, copy) \in TaskType
         /\ Task(call, pos, copy).call = call /\ Task(call, pos, copy).pos = pos
         /\ Task(call, pos, copy).copy = copy /\ Task(call, pos, copy).whole = 0
BY DEF Task, TaskType

LEMMA DeliverLogsKeeps == ListenInv /\ DeliverLogs => ListenInv'
<1> SUFFICES ASSUME ListenInv, DeliverLogs PROVE ListenInv'
  OBVIOUS
<1> DEFINE call == delivered + 1
           New == {Task(call, pos, 0) : pos \in DOMAIN chain[call].events}
<1>1. /\ UNCHANGED <<feedVars, seen, raised>> /\ delivered' = call /\ call \in 1..Len(chain) /\ tasks' = tasks \cup New
      /\ chain' = chain
  BY DEF DeliverLogs, Height, ListenInv, DeliveriesOK, FeedInv, feedVars
<1>2. \A pos \in DOMAIN chain[call].events : pos \in Nat
  BY <1>1 DEF ListenInv, FeedInv, EventsOK
<1>3. \A t \in New : /\ t \in TaskType /\ t.call = call /\ t.pos \in DOMAIN chain[call].events
                     /\ t.copy = 0 /\ t.whole = 0 /\ t = Task(call, t.pos, 0)
  BY <1>1, <1>2, TaskTyped
<1> HIDE DEF New
<1>4. \A t \in New : TaskOK(t)'
  BY <1>1, <1>3 DEF TaskOK, WholeOK
<1>5. \A t, u \in New : SameDelivery(t, u) => t = u
  BY <1>3 DEF SameDelivery
<1>6. \A t \in New : /\ \A u \in tasks : ~SameDelivery(t, u)
                     /\ \A a \in raised : ~SameDelivery(t, a.task)
  BY <1>1, <1>3 DEF SameDelivery, ListenInv, DeliveriesOK, TaskOK
<1>7. delivered' \in {delivered, delivered + 1} /\ delivered' <= Len(chain)
  BY <1>1
<1>8. QED BY <1>1, <1>4, <1>5, <1>6, <1>7, DeliveryKeeps

LEMMA DeliverAgainKeeps ==
  ASSUME ListenInv, NEW call \in 1..MaxBlocks, NEW pos \in 1..2, NEW copy \in 1..MaxAgain, DeliverAgain(call, pos, copy)
  PROVE  ListenInv'
<1> DEFINE New == {Task(call, pos, copy)}
<1>1. /\ UNCHANGED <<feedVars, seen, raised>> /\ delivered' = delivered /\ tasks' = tasks \cup New
      /\ delivered \in 0..Len(chain) /\ call \in 1..delivered /\ chain' = chain
      /\ pos \in DOMAIN chain[call].events
  BY DEF DeliverAgain, ListenInv, DeliveriesOK, feedVars
<1>2. \A t \in New : t \in TaskType /\ t.call = call /\ t.pos = pos /\ t.copy = copy /\ t.whole = 0
  BY TaskTyped
<1>3. \A t, u \in New : SameDelivery(t, u) => t = u
  OBVIOUS
<1> HIDE DEF New
<1>4. \A t \in New : TaskOK(t)'
  BY <1>1, <1>2 DEF TaskOK, WholeOK
<1>5. \A t \in New : /\ \A u \in tasks : ~SameDelivery(t, u)
                     /\ \A a \in raised : ~SameDelivery(t, a.task)
  BY <1>2 DEF DeliverAgain, SameDelivery
<1>6. delivered' \in {delivered, delivered + 1} /\ delivered' <= Len(chain)
  BY <1>1
<1>7. QED BY <1>1, <1>3, <1>4, <1>5, <1>6, DeliveryKeeps

\* What a handler reads late is what it would have read in the event's block.
LEMMA WholeNowIsThen ==
  ASSUME FeedAssumption, FeedInv, DeliveriesOK, NEW t, TaskOK(t)
  PROVE  LET e == EventOf(t)
             then == chain[t.call].book[e.id]
         IN  /\ WholeNow(e) \in Int
             /\ e.name = "Funded" => WholeNow(e) = then.goal
             /\ e.name = "UnclaimedSwept" => WholeNow(e) = then.funded
<1> DEFINE e == EventOf(t)
           b == chain[t.call].book
<1>1. EventOK(b, e, t.pos) /\ BookOK(b) /\ Moves(b, book) /\ BookOK(book)
  BY EventOfTask DEF FeedInv
<1> HIDE DEF e, b
<1>2. CASE e.name = "Funded"
  <2>1. e.id \in Ids /\ b[e.id].goal > 0 /\ Later(b[e.id], book[e.id]) /\ book[e.id].goal \in Int
    BY <1>1, <1>2 DEF EventOK, Moves, BookOK, Entry
  <2>2. QED BY <1>2, <2>1 DEF WholeNow, Later, e, b
<1>3. CASE e.name = "UnclaimedSwept"
  <2>1. e.id \in Ids /\ b[e.id].status = "FINALIZED" /\ Later(b[e.id], book[e.id]) /\ book[e.id].funded \in Int
    BY <1>1, <1>3 DEF EventOK, Moves, BookOK, Entry
  <2>2. QED BY <1>3, <2>1 DEF WholeNow, Later, e, b
<1>4. CASE e.name \notin {"Funded", "UnclaimedSwept"}
  BY <1>4 DEF WholeNow, e
<1>5. QED BY <1>2, <1>3, <1>4 DEF e, b

LEMMA ReadContextKeeps ==
  ASSUME FeedAssumption, ListenInv, NEW task \in tasks, NEW whole \in {WholeNow(EventOf(task)), 0},
         ReadContext(task, whole)
  PROVE  ListenInv'
<1> DEFINE new == [task EXCEPT !.step = "ready", !.whole = whole]
<1>1. /\ UNCHANGED <<feedVars, delivered, seen, raised>> /\ tasks' = (tasks \ {task}) \cup {new}
      /\ FeedInv /\ DeliveriesOK /\ TaskOK(task) /\ chain' = chain
  BY DEF ReadContext, ListenInv, DeliveriesOK, feedVars
<1>2. whole \in Int
  BY <1>1, WholeNowIsThen
<1>3. new \in TaskType /\ new.call = task.call /\ new.pos = task.pos /\ new.copy = task.copy /\ new.whole = whole
  BY <1>1, <1>2 DEF TaskOK, TaskType
<1>4. FeedInv' /\ Grows /\ delivered' = delivered
  BY <1>1, FeedStays DEF ListenInv, feedVars, Grows
<1>5. SeenOK' /\ LegalNeverFlagged' /\ \A a \in raised' : VerdictOK(a)'
  BY <1>1, <1>4, AlertsStay DEF ListenInv
<1> HIDE DEF new
<1>6. TaskOK(new)
  <2>1. EventOf(new) = EventOf(task)
    BY <1>3 DEF EventOf
  <2>2. WholeOK(new)
    BY <1>1, <1>3, <2>1, WholeNowIsThen DEF WholeOK
  <2>3. QED BY <1>1, <1>3, <2>2 DEF TaskOK
<1>7. \A t : TaskOK(t)' <=> TaskOK(t)
  BY <1>1 DEF TaskOK, WholeOK, EventOf
<1>8. DeliveriesOK'
  <2>1. Handled' = Handled /\ Len(chain') = Len(chain)
    BY <1>1 DEF Handled
  <2>2. \A t \in tasks' : TaskOK(t)'
    BY <1>1, <1>6, <1>7 DEF DeliveriesOK
  <2>3. \A a \in raised' : TaskOK(a.task)'
    BY <1>1, <1>7 DEF DeliveriesOK
  <2>4. QED BY <1>1, <2>1, <2>2, <2>3 DEF DeliveriesOK
<1>9. DeliveredOnce'
  BY <1>1, <1>3 DEF ListenInv, DeliveredOnce, SameDelivery
<1>10. QED BY <1>4, <1>5, <1>8, <1>9 DEF ListenInv

\* Alerts of other deposits leave the one let through as it is.
LEMMA PassedStays ==
  ASSUME NEW t, OneLetThrough(t), NEW New, raised' = raised \cup New,
         \A b \in New : ~SameDeposit(b.task, t),
         \A u, v : SameDeposit(u, v)' <=> SameDeposit(u, v),
         \A a \in raised : Flagged(a.task)' <=> Flagged(a.task)
  PROVE  OneLetThrough(t)'
<1>1. PICK first \in raised :
        /\ SameDeposit(first.task, t) /\ ~Flagged(first.task)
        /\ \A b \in raised : SameDeposit(b.task, t) /\ b.task # first.task => Flagged(b.task)
  BY DEF OneLetThrough
<1>2. \A b \in raised' : SameDeposit(b.task, t) => b \in raised
  OBVIOUS
<1>3. first \in raised' /\ SameDeposit(first.task, t)' /\ ~Flagged(first.task)'
  BY <1>1
<1>4. \A b \in raised' : SameDeposit(b.task, t)' /\ b.task # first.task => Flagged(b.task)'
  BY <1>1, <1>2
<1>5. QED BY <1>3, <1>4 DEF OneLetThrough

\* A handler raises all its codes at once, and was not handled before.
LEMMA RaiseKeeps ==
  ASSUME ListenInv, NEW task \in tasks, Raise(task)
  PROVE  ListenInv'
<1> DEFINE New == {[task |-> task, code |-> c] : c \in Codes(task)}
<1>1. /\ UNCHANGED <<feedVars, delivered>> /\ tasks' = tasks \ {task} /\ raised' = raised \cup New
      /\ seen' = IF EventOf(task).name = "Funded" THEN seen \cup {TxKey(task)} ELSE seen
      /\ FeedInv /\ DeliveriesOK /\ TaskOK(task) /\ chain' = chain /\ delivered' = delivered
  BY DEF Raise, ListenInv, DeliveriesOK, feedVars
<1>2. FeedInv'
  BY <1>1, FeedStays
<1>3. /\ \A a \in New : a.task = task /\ a.code \in Codes(task)
      /\ \A c \in Codes(task) : \E a \in New : a.code = c
  <2>1. ASSUME NEW a \in New PROVE a.task = task /\ a.code \in Codes(task)
    <3>1. PICK c \in Codes(task) : a = [task |-> task, code |-> c]
      OBVIOUS
    <3>2. QED BY <3>1
  <2>2. ASSUME NEW c \in Codes(task) PROVE \E a \in New : a.code = c
    <3>1. [task |-> task, code |-> c] \in New /\ [task |-> task, code |-> c].code = c
      OBVIOUS
    <3>2. QED BY <3>1
  <2>3. QED BY <2>1, <2>2
<1> HIDE DEF New
<1>4. \A a \in raised : a.task # task /\ ~SameDelivery(task, a.task)
  BY <1>1 DEF ListenInv, DeliveredOnce, SameDelivery
<1>5. EventOf(task) \in EventType /\ EventOK(chain[task.call].book, EventOf(task), task.pos)
  BY <1>1, EventOfTask
<1>6. \A t : EventOf(t)' = EventOf(t)
  BY <1>1 DEF EventOf
<1>7. DeliveriesOK'
  <2>1. \A t : TaskOK(t)' <=> TaskOK(t)
    BY <1>1 DEF TaskOK, WholeOK, EventOf
  <2>2. \A t \in tasks' : TaskOK(t)'
    BY <1>1, <2>1 DEF DeliveriesOK
  <2>3. \A a \in raised' : TaskOK(a.task)'
    BY <1>1, <1>3, <2>1 DEF DeliveriesOK
  <2>4. IsFiniteSet(Handled')
    <3>1. Handled' \subseteq Handled \cup {task}
      BY <1>1, <1>3 DEF Handled
    <3>2. IsFiniteSet(Handled \cup {task})
      BY <1>1, FS_AddElement DEF DeliveriesOK
    <3>3. QED BY <3>1, <3>2, FS_Subset
  <2>5. QED BY <1>1, <2>2, <2>3, <2>4 DEF DeliveriesOK
<1>8. DeliveredOnce'
  BY <1>1, <1>3 DEF ListenInv, DeliveredOnce, SameDelivery
<1>9. LegalNeverFlagged'
  BY <1>1, <1>3, <1>5, CodesLegal DEF ListenInv, LegalNeverFlagged, EventOK
<1>10. /\ \A a \in raised : Flagged(a.task)' <=> Flagged(a.task)
       /\ \A a \in raised : Large(a.task)' <=> Large(a.task)
       /\ Flagged(task)' <=> "duplicate_funding" \in Codes(task)
       /\ Large(task)' <=> "large_funding" \in Codes(task)
  <2>1. \A a \in raised : (Flagged(a.task)' <=> Flagged(a.task)) /\ (Large(a.task)' <=> Large(a.task))
    BY <1>1, <1>3, <1>4 DEF Flagged, Large
  <2>2. \A c : (\E r \in raised' : r.task = task /\ r.code = c) <=> c \in Codes(task)
    BY <1>1, <1>3, <1>4
  <2>3. (Flagged(task)' <=> "duplicate_funding" \in Codes(task)) /\ (Large(task)' <=> "large_funding" \in Codes(task))
    BY <2>2 DEF Flagged, Large
  <2>4. QED BY <2>1, <2>3
<1>11. ASSUME NEW a \in raised' PROVE VerdictOK(a)'
  <2>1. CASE a \in raised
    BY <1>6, <1>10, <2>1 DEF VerdictOK, ListenInv
  <2>2. CASE a \in New
    <3>1. a.task = task /\ a.code \in Codes(task)
      BY <1>3, <2>2
    <3>2. QED BY <1>6, <1>10, <3>1, CodesFunded, CodesSwept DEF VerdictOK
  <2>3. QED BY <1>1, <2>1, <2>2
<1>12. SeenOK'
  <2>1. /\ \A t : Funding(t)' = Funding(t) /\ TxKey(t)' = TxKey(t)
        /\ \A t, u : SameDeposit(t, u)' <=> SameDeposit(t, u)
    BY <1>1, <1>6 DEF Funding, TxKey, SameDeposit
  <2>2. CASE ~Funding(task)
    <3>1. seen' = seen /\ \A a \in New : ~Funding(a.task)
      BY <1>1, <1>3, <2>2 DEF Funding
    <3>2. ASSUME NEW a \in raised, Funding(a.task) PROVE OneLetThrough(a.task)'
      <4>1. \A b \in New : ~SameDeposit(b.task, a.task)
        BY <3>1 DEF SameDeposit
      <4>2. OneLetThrough(a.task)
        BY <3>2 DEF ListenInv, SeenOK
      <4>3. QED BY <1>1, <1>10, <2>1, <4>1, <4>2, PassedStays
    <3>3. QED BY <1>1, <2>1, <3>1, <3>2 DEF ListenInv, SeenOK
  <2>3. CASE Funding(task)
    <3>1. seen' = seen \cup {TxKey(task)} /\ New # {}
      BY <1>1, <1>3, <2>3, CodesFunded DEF Funding
    <3>2. Flagged(task)' <=> TxKey(task) \in seen
      BY <1>10, <2>3, CodesFunded DEF Funding
    <3>3. ASSUME NEW a \in raised', Funding(a.task)
          PROVE  TxKey(a.task) \in seen' /\ OneLetThrough(a.task)'
      <4>1. TxKey(a.task) \in seen'
        BY <1>1, <1>3, <3>1, <3>3 DEF ListenInv, SeenOK
      <4>2. CASE ~SameDeposit(a.task, task)
        <5>1. a \in raised /\ OneLetThrough(a.task)
          BY <1>1, <1>3, <3>3, <4>2 DEF ListenInv, SeenOK, SameDeposit
        <5>2. \A b \in New : ~SameDeposit(b.task, a.task)
          BY <1>3, <4>2 DEF SameDeposit
        <5>3. QED BY <1>1, <1>10, <2>1, <4>1, <5>1, <5>2, PassedStays
      <4>3. CASE SameDeposit(a.task, task) /\ TxKey(task) \in seen
        <5>1. PICK k \in raised : Funding(k.task) /\ TxKey(k.task) = TxKey(task)
          BY <4>3 DEF ListenInv, SeenOK
        <5>2. OneLetThrough(k.task) /\ \A b : SameDeposit(b.task, k.task) <=> SameDeposit(b.task, a.task)
          BY <2>3, <4>3, <5>1, SameKey DEF ListenInv, SeenOK
        <5>3. PICK first \in raised :
                /\ SameDeposit(first.task, k.task) /\ ~Flagged(first.task)
                /\ \A b \in raised : SameDeposit(b.task, k.task) /\ b.task # first.task => Flagged(b.task)
          BY <5>2 DEF OneLetThrough
        <5>4. first \in raised' /\ ~Flagged(first.task)' /\ SameDeposit(first.task, a.task)
          BY <1>1, <1>10, <5>2, <5>3
        <5>5. \A b \in raised' : SameDeposit(b.task, a.task) /\ b.task # first.task => Flagged(b.task)'
          <6>1. \A b \in New : Flagged(b.task)'
            BY <1>3, <3>2, <4>3
          <6>2. \A b \in raised : SameDeposit(b.task, a.task) /\ b.task # first.task => Flagged(b.task)'
            BY <1>10, <5>2, <5>3
          <6>3. QED BY <1>1, <6>1, <6>2
        <5>6. QED BY <2>1, <4>1, <5>4, <5>5 DEF OneLetThrough
      <4>4. CASE SameDeposit(a.task, task) /\ TxKey(task) \notin seen
        <5>1. PICK first \in New : TRUE
          BY <3>1
        <5>2. first \in raised' /\ first.task = task /\ ~Flagged(first.task)' /\ SameDeposit(first.task, a.task)
          BY <1>1, <1>3, <3>2, <4>4 DEF SameDeposit
        <5>3. \A b \in raised : ~SameDeposit(b.task, a.task)
          BY <4>4, SameKey DEF ListenInv, SeenOK
        <5>4. \A b \in raised' : SameDeposit(b.task, a.task) => b.task = task
          BY <1>1, <1>3, <5>3
        <5>5. QED BY <2>1, <4>1, <5>2, <5>4 DEF OneLetThrough
      <4>5. QED BY <4>2, <4>3, <4>4
    <3>4. ASSUME NEW key \in seen' PROVE \E a \in raised' : Funding(a.task) /\ TxKey(a.task) = key
      <4>1. CASE key \in seen
        BY <1>1, <4>1 DEF ListenInv, SeenOK
      <4>2. CASE key = TxKey(task)
        BY <1>1, <1>3, <2>3, <3>1, <4>2
      <4>3. QED BY <3>1, <4>1, <4>2
    <3>5. QED BY <2>1, <3>3, <3>4 DEF SeenOK
  <2>4. QED BY <2>2, <2>3
<1>13. QED BY <1>2, <1>7, <1>8, <1>9, <1>11, <1>12 DEF ListenInv

LEMMA ListenStep ==
  ASSUME FeedAssumption, ListenInv, [ListenNext]_listenVars, [Len(chain') >= Len(chain)]_chain
  PROVE  ListenInv'
<1>1. CASE (FeedNext /\ UNCHANGED watchVars) \/ UNCHANGED listenVars
  BY <1>1, FeedKeepsListening DEF listenVars
<1>2. CASE DeliverLogs
  BY <1>2, DeliverLogsKeeps
<1>3. ASSUME NEW call \in 1..MaxBlocks, NEW pos \in 1..2, NEW copy \in 1..MaxAgain, DeliverAgain(call, pos, copy)
      PROVE  ListenInv'
  BY <1>3, DeliverAgainKeeps
<1>4. ASSUME NEW task \in tasks, NEW whole \in {WholeNow(EventOf(task)), 0}, ReadContext(task, whole)
      PROVE  ListenInv'
  BY <1>4, ReadContextKeeps
<1>5. ASSUME NEW task \in tasks, Raise(task) PROVE ListenInv'
  BY <1>5, RaiseKeeps
<1>6. QED BY <1>1, <1>2, <1>3, <1>4, <1>5 DEF ListenNext, Handle

LEMMA DuplicatesCounted == ListenInv => OneDepositPasses
<1> SUFFICES ASSUME ListenInv, NEW a \in raised, Funding(a.task)
             PROVE  LET handled == {b.task : b \in {r \in raised : SameDeposit(r.task, a.task)}}
                        flagged == {b.task : b \in {r \in raised : SameDeposit(r.task, a.task) /\ r.code = "duplicate_funding"}}
                    IN  Cardinality(flagged) = Cardinality(handled) - 1
  BY DEF OneDepositPasses
<1> DEFINE handled == {b.task : b \in {r \in raised : SameDeposit(r.task, a.task)}}
           flagged == {b.task : b \in {r \in raised : SameDeposit(r.task, a.task) /\ r.code = "duplicate_funding"}}
<1>1. PICK first \in raised :
        /\ SameDeposit(first.task, a.task) /\ ~Flagged(first.task)
        /\ \A b \in raised : SameDeposit(b.task, a.task) /\ b.task # first.task => Flagged(b.task)
  BY DEF ListenInv, SeenOK, OneLetThrough
<1>2. flagged = handled \ {first.task} /\ first.task \in handled
  BY <1>1 DEF Flagged
<1>3. IsFiniteSet(handled)
  <2>1. IsFiniteSet(Handled) /\ handled \subseteq Handled
    BY DEF ListenInv, DeliveriesOK, Handled
  <2>2. QED BY <2>1, FS_Subset
<1>4. Cardinality(flagged) = Cardinality(handled) - 1
  <2> HIDE DEF handled, flagged
  <2>1. QED BY <1>2, <1>3, FS_RemoveElement
<1>5. QED BY <1>4

LEMMA VerdictsHold == ListenInv => VerdictAsAtEvent
<1> SUFFICES ASSUME ListenInv, NEW a \in raised, a.task.whole > 0
             PROVE  LET e == EventOf(a.task)
                        then == chain[a.task.call].book[e.id]
                    IN  /\ e.name = "Funded" =>
                             (AtLeast(e.amount, LargeFund, then.goal) <=>
                                \E b \in raised : b.task = a.task /\ b.code = "large_funding")
                        /\ e.name = "UnclaimedSwept" =>
                             (AtLeast(e.amount, LargeSweep, then.funded) <=> a.code = "large_sweep_remainder")
  BY DEF VerdictAsAtEvent
<1>1. a.task.whole # 0 /\ WholeOK(a.task) /\ VerdictOK(a)
  BY DEF ListenInv, DeliveriesOK, TaskOK, TaskType
<1>2. QED BY <1>1 DEF WholeOK, VerdictOK, Large

\* However the handlers interleave, however often a log is delivered again, however
\* many calls a transaction makes and whatever the contracts do meanwhile: no
\* transition of theirs is reported as illegal, and of all deliveries of the
\* deposits one transaction makes to one action exactly one is let through
\* (monitor.ts:277-420, checks.ts:165-207, 358-393).
THEOREM RepeatsAloneFlagged ==
  ASSUME FeedAssumption
  PROVE  ListenSpec /\ NoBlockLost => []OnlyRepeatsFlagged
<1>1. EventsInit => ListenInv
  BY ListenStarts
<1>2. ListenInv /\ [ListenNext]_listenVars /\ [Len(chain') >= Len(chain)]_chain => ListenInv'
  BY ListenStep
<1>3. ListenInv => OnlyRepeatsFlagged
  BY DuplicatesCounted DEF OnlyRepeatsFlagged, ListenInv
<1>4. QED BY <1>1, <1>2, <1>3, PTL DEF ListenSpec, NoBlockLost

\* What a handler reads late, when the read succeeds, leads to the verdict the
\* event had in its own block (monitor.ts:347-394, checks.ts:394-441, 530-582).
THEOREM LateReadsHarmless ==
  ASSUME FeedAssumption
  PROVE  ListenSpec /\ NoBlockLost => []VerdictAsAtEvent
<1>1. EventsInit => ListenInv
  BY ListenStarts
<1>2. ListenInv /\ [ListenNext]_listenVars /\ [Len(chain') >= Len(chain)]_chain => ListenInv'
  BY ListenStep
<1>3. QED BY <1>1, <1>2, VerdictsHold, PTL DEF ListenSpec, NoBlockLost

(***************************************************************************)
(* The poll                                                                *)
(***************************************************************************)

\* The actions announced are the first ones, so their number tells which they are.
LEMMA AnnouncedAreFirst ==
  ASSUME FeedAssumption, NEW b, BookOK(b)
  PROVE  LET m == Cardinality({id \in Ids : b[id].status # "NONE"})
         IN  m \in Nat /\ 1..m \subseteq Ids /\ \A id \in Ids : b[id].status # "NONE" <=> id <= m
<1> DEFINE D == {id \in Ids : b[id].status # "NONE"}
<1>1. PICK n \in Nat : Ids = 1..n
  BY IdsCounted
<1>2. \A j, k \in Ids : j < k /\ k \in D => j \in D
  BY DEF BookOK
<1>3. D \subseteq Ids
  OBVIOUS
<1> HIDE DEF D
<1>4. PICK m \in 0..n : D = 1..m
  <2>1. CASE D = Ids
    BY <1>1, <2>1
  <2>2. CASE D # Ids
    <3> DEFINE B == {I \in SUBSET Ids : \E k \in Ids \ D : I = 1..k}
    <3>1. B # {}
      <4>1. PICK k \in Ids : k \notin D
        BY <1>3, <2>2
      <4>2. 1..k \in B
        BY <1>1, <4>1
      <4>3. QED BY <4>2
    <3>2. IsFiniteSet(Ids)
      BY <1>1, FS_Interval
    <3>3. PICK I \in B : \A U \in B : ~(U \subseteq I /\ U # I)
      <4>1. B \subseteq SUBSET Ids
        OBVIOUS
      <4> HIDE DEF B
      <4>2. QED BY <3>1, <3>2, <4>1, MinimalSubset
    <3>4. PICK k \in Ids \ D : I = 1..k
      OBVIOUS
    <3>5. ASSUME NEW j \in Ids, j < k PROVE j \in D
      <4>1. SUFFICES ASSUME j \notin D PROVE FALSE
        OBVIOUS
      <4>2. 1..j \in B /\ 1..j \subseteq 1..k /\ 1..j # 1..k
        <5>1. j \in 1..n /\ k \in 1..n
          BY <1>1
        <5>2. k \in 1..k /\ k \notin 1..j
          BY <3>5, <5>1
        <5>3. QED BY <1>1, <3>5, <4>1, <5>1, <5>2
      <4>3. QED BY <3>3, <3>4, <4>2
    <3>6. D = 1..(k - 1) /\ k - 1 \in 0..n
      <4>1. k \in 1..n
        BY <1>1
      <4>2. ASSUME NEW j \in D PROVE j \in 1..(k - 1)
        <5>1. j \in 1..n /\ j # k
          BY <1>1, <1>3
        <5>2. ~(k < j)
          BY <1>2, <1>3
        <5>3. QED BY <4>1, <5>1, <5>2
      <4>3. ASSUME NEW j \in 1..(k - 1) PROVE j \in D
        BY <1>1, <3>5, <4>1
      <4>4. D = 1..(k - 1)
        BY <4>2, <4>3
      <4>5. QED BY <4>1, <4>4
    <3>7. QED BY <3>6
  <2>3. QED BY <2>1, <2>2
<1>5. Cardinality(D) = m
  BY <1>4, FS_Interval
<1>6. \A id \in Ids : id \in D <=> id <= m
  BY <1>1, <1>4
<1>7. \A id \in Ids : b[id].status # "NONE" <=> id \in D
  BY DEF D
<1>8. m \in Nat /\ 1..m \subseteq Ids
  BY <1>1, <1>4
<1>9. Cardinality({id \in Ids : b[id].status # "NONE"}) = m
  BY <1>5 DEF D
<1>10. QED BY <1>6, <1>7, <1>8, <1>9

\* A sequence made of a finite set has the set's elements and no others.
LEMMA SequenceOfSet ==
  ASSUME NEW S, IsFiniteSet(S)
  PROVE  /\ SetToSeq(S) \in Seq(S)
         /\ \A x \in S : \E i \in DOMAIN SetToSeq(S) : SetToSeq(S)[i] = x
<1> DEFINE n == Cardinality(S)
           s == SetToSeq(S)
<1>1. n \in Nat /\ ExistsBijection(1..n, S)
  BY FS_CardinalityType
<1>2. \E f \in [1..n -> S] : IsInjective(f)
  BY <1>1 DEF ExistsBijection, Bijection, Injection, IsInjective
<1>3. s \in [1..n -> S] /\ IsInjective(s)
  BY <1>2 DEF SetToSeq
<1> HIDE DEF s
<1>4. s \in Injection(1..n, S)
  BY <1>3 DEF Injection
<1>5. Cardinality(1..n) = n
  BY <1>1, FS_Interval
<1>6. s \in Surjection(1..n, S)
  BY <1>4, <1>5, FS_Injection
<1>7. \A x \in S : \E i \in 1..n : s[i] = x
  BY <1>6 DEF Surjection
<1>8. s \in Seq(S) /\ DOMAIN s = 1..n
  BY <1>1, <1>3
<1>9. QED BY <1>7, <1>8 DEF s

\* The monitor's sum over what it read is what the contracts owe: the actions
\* it leaves out hold nothing, and those it counts hold what it counts.
LEMMA ObligationIsOwed ==
  ASSUME FeedAssumption, CoinAssumption, NEW state, BookOK(state.book), NEW accounts \in Seq(Entry),
         Len(accounts) = CountAt(state), \A i \in DOMAIN accounts : accounts[i] = state.book[i],
         NEW coin \in Coins
  PROVE  Obligation(accounts, coin) = OwedAt(state, coin)
<1> DEFINE b == state.book
           m == CountAt(state)
           S == {i \in Ids : CoinOf[i] = coin}
           T == {i \in DOMAIN accounts : Active(accounts[i].status) /\ TokenOf(accounts[i], i) = coin}
           f == [id \in S |-> EscrowOf(b[id])]
           g == [id \in T |-> accounts[id].funded - accounts[id].claimed]
<1>1. m \in Nat /\ 1..m \subseteq Ids /\ \A id \in Ids : b[id].status # "NONE" <=> id <= m
  BY AnnouncedAreFirst DEF CountAt
<1>2. DOMAIN accounts = 1..m
  BY <1>1
<1>3. \A id \in Ids : b[id] \in Entry /\ EntryOK(b[id])
  BY DEF BookOK
<1> HIDE DEF b, m
<1>4. IsFiniteSet(S)
  <2>1. IsFiniteSet(Ids)
    BY FS_Interval DEF FeedAssumption
  <2>2. QED BY <2>1, FS_Subset
<1>5. f \in [S -> Int]
  BY <1>3 DEF EscrowOf, Entry
<1>6. ASSUME NEW i \in T PROVE i \in S /\ accounts[i] = b[i]
  BY <1>1, <1>2 DEF TokenOf, CoinAssumption, b
<1>7. g \in [T -> Int]
  BY <1>1, <1>2, <1>3, <1>6 DEF Entry
<1>8. \A i \in T : g[i] = f[i]
  <2>1. TAKE i \in T
  <2>2. /\ accounts[i] = b[i] /\ b[i] \in Entry /\ EntryOK(b[i])
        /\ b[i].status \in {"ANNOUNCED", "ROOT_PUBLISHED", "CLAIMABLE"}
    BY <1>3, <1>6 DEF Active
  <2>3. g[i] = b[i].funded - b[i].claimed /\ f[i] = EscrowOf(b[i])
    BY <1>6, <2>2
  <2> HIDE DEF f, g
  <2>4. QED BY <2>2, <2>3 DEF EscrowOf, EntryOK, Entry
<1>9. \A i \in S \ T : f[i] = 0
  <2>1. TAKE i \in S \ T
  <2>2. b[i] \in Entry /\ EntryOK(b[i]) /\ f[i] = EscrowOf(b[i])
    BY <1>3
  <2>3. CASE b[i].status \in {"ROOT_PUBLISHED", "CLAIMABLE"}
    <3>1. b[i].kind = "CASH"
      BY <2>2, <2>3 DEF EntryOK
    <3>2. i \in DOMAIN accounts /\ accounts[i] = b[i]
      <4>1. i \in Ids /\ i <= m
        BY <1>1, <2>3
      <4>2. i \in 1..m
        <5>1. PICK n \in Nat : Ids = 1..n
          BY IdsCounted
        <5>2. i \in Nat /\ 1 <= i /\ m \in Int
          BY <1>1, <4>1, <5>1
        <5>3. QED BY <4>1, <5>2
      <4>3. QED BY <1>2, <4>2 DEF b
    <3>3. QED BY <2>3, <3>1, <3>2 DEF TokenOf, Active
  <2>4. CASE b[i].status \notin {"ROOT_PUBLISHED", "CLAIMABLE"}
    BY <2>2, <2>4 DEF EscrowOf
  <2>5. QED BY <2>3, <2>4
<1>10. T \in SUBSET S
  BY <1>6
<1>11. Obligation(accounts, coin) = SumFunctionOnSet(g, T)
  BY DEF Obligation, SumFunction
<1>12. OwedAt(state, coin) = SumFunctionOnSet(f, S)
  BY DEF OwedAt, SumFunction, b
<1> HIDE DEF f, g, S, T
<1>13. QED BY <1>4, <1>5, <1>7, <1>8, <1>9, <1>10, <1>11, <1>12, SumOfRelevant

SnapType == [pin : Nat, count : Nat, accounts : Seq(Entry), pool : [Coins -> Int], ok : BOOLEAN]

\* What a poll has read so far is the state of the block it is pinned to.
ReadSoFar(s, c) ==
  LET state == IF s.pin = 0 THEN NoBlock ELSE c[s.pin]
  IN  /\ s.pin \in 0..Len(c)
      /\ s.count = CountAt(state)
      /\ \A i \in DOMAIN s.accounts : s.accounts[i] = state.book[i]

PollInv ==
  /\ FeedInv
  /\ snap \in SnapType
  /\ pc = "reading" => ReadSoFar(snap, chain)

LEMMA StateSound ==
  ASSUME FeedAssumption, FeedInv, NEW h \in 0..Len(chain)
  PROVE  BookOK(StateAt(h).book) /\ StateAt(h).pool \in [Coins -> Int] /\ StateAt(h).paused \in SUBSET Pausable
<1>1. CASE h = 0
  BY <1>1, BlankOK DEF StateAt, NoBlock
<1>2. CASE h # 0
  <2>1. h \in 1..Len(chain)
    BY <1>2
  <2>2. chain[h] \in BlockType
    BY <2>1 DEF FeedInv
  <2>3. QED BY <1>2, <2>1, <2>2 DEF StateAt, FeedInv, BlockType
<1>3. QED BY <1>1, <1>2

LEMMA EmptyTyped == Empty \in SnapType /\ Empty.ok = FALSE
BY DEF Empty, SnapType, NoBlock

LEMMA PollStarts == FeedAssumption /\ Init => PollInv
BY FeedStarts, EmptyTyped DEF Init, MonitorInit, PollInv

LEMMA PollStays ==
  ASSUME PollInv, FeedInv', Grows, UNCHANGED <<pc, snap>>
  PROVE  PollInv'
<1>1. ASSUME pc = "reading" PROVE ReadSoFar(snap, chain')
  <2>1. /\ chain \in Seq(BlockType) /\ chain' \in Seq(BlockType) /\ ReadSoFar(snap, chain)
        /\ Len(chain) <= Len(chain') /\ \A h \in 1..Len(chain) : chain'[h] = chain[h]
    BY <1>1, GrowsKeeps DEF PollInv, FeedInv
  <2>2. Len(chain) \in Nat /\ Len(chain') \in Nat /\ snap.pin \in 0..Len(chain)
    BY <2>1 DEF ReadSoFar
  <2>3. CASE snap.pin = 0
    BY <2>1, <2>2, <2>3 DEF ReadSoFar
  <2>4. CASE snap.pin # 0
    <3>1. chain'[snap.pin] = chain[snap.pin] /\ snap.pin \in 0..Len(chain')
      BY <2>1, <2>2, <2>4
    <3>2. QED BY <2>1, <2>4, <3>1 DEF ReadSoFar
  <2>5. QED BY <2>3, <2>4
<1>2. QED BY <1>1 DEF PollInv

LEMMA BeginPollKeeps == FeedAssumption /\ PollInv /\ BeginPoll => PollInv'
<1> SUFFICES ASSUME FeedAssumption, PollInv, BeginPoll PROVE PollInv'
  OBVIOUS
<1>1. FeedInv' /\ chain' = chain /\ Len(chain) \in Nat
  BY FeedStays DEF BeginPoll, PollInv, feedVars, FeedInv
<1> DEFINE o == Empty
           state == StateAt(Len(chain))
           s == [o EXCEPT !.pin = Len(chain), !.count = CountAt(state)]
<1>2. CountAt(state) \in Nat
  BY <1>1, StateSound, AnnouncedAreFirst DEF CountAt, PollInv
<1>3. snap' = s /\ state = IF Len(chain) = 0 THEN NoBlock ELSE chain[Len(chain)]
  BY DEF BeginPoll, Height, StateAt
<1>4. o \in SnapType /\ o.accounts = <<>>
  BY EmptyTyped DEF Empty
<1> HIDE DEF o, state
<1>5. s \in SnapType /\ s.pin = Len(chain) /\ s.count = CountAt(state) /\ s.accounts = <<>>
  BY <1>1, <1>2, <1>4 DEF SnapType
<1> HIDE DEF s
<1>6. ReadSoFar(s, chain)
  BY <1>1, <1>3, <1>5 DEF ReadSoFar
<1>7. QED BY <1>1, <1>3, <1>5, <1>6 DEF PollInv

LEMMA ReadAccountKeeps ==
  ASSUME FeedAssumption, PollInv, NEW id \in Ids, ReadAccount(id)
  PROVE  PollInv'
<1> DEFINE e == StateAt(snap.pin).book[id]
           s == [snap EXCEPT !.accounts = Append(snap.accounts, e)]
<1>1. FeedInv' /\ chain' = chain /\ pc' = "reading" /\ pc = "reading" /\ ReadSoFar(snap, chain)
  BY FeedStays DEF ReadAccount, Readable, PollInv, feedVars
<1>2. e \in Entry /\ e = (IF snap.pin = 0 THEN NoBlock ELSE chain[snap.pin]).book[id]
  BY <1>1, StateSound DEF PollInv, BookOK, ReadSoFar, StateAt
<1>3. snap' = s /\ id = Len(snap.accounts) + 1 /\ snap.accounts \in Seq(Entry) /\ snap \in SnapType
  BY DEF ReadAccount, Seen, PollInv, SnapType
<1> HIDE DEF e
<1>4. Append(snap.accounts, e) \in Seq(Entry)
  BY <1>2, <1>3
<1>5. s \in SnapType /\ s.pin = snap.pin /\ s.count = snap.count /\ s.accounts = Append(snap.accounts, e)
  BY <1>3, <1>4 DEF SnapType
<1> HIDE DEF s
<1>6. \A i \in DOMAIN s.accounts :
         \/ i = id /\ s.accounts[i] = e
         \/ i \in DOMAIN snap.accounts /\ s.accounts[i] = snap.accounts[i]
  <2> DEFINE a == snap.accounts
  <2>1. a \in Seq(Entry) /\ s.accounts = Append(a, e) /\ id = Len(a) + 1 /\ e \in Entry
    BY <1>2, <1>3, <1>5
  <2> HIDE DEF a
  <2>2. DOMAIN Append(a, e) = 1..(Len(a) + 1) /\ DOMAIN a = 1..Len(a) /\ Len(a) \in Nat
    BY <2>1
  <2>3. Append(a, e)[Len(a) + 1] = e /\ \A i \in 1..Len(a) : Append(a, e)[i] = a[i]
    BY <2>1
  <2>4. \A i \in 1..(Len(a) + 1) : i = Len(a) + 1 \/ i \in 1..Len(a)
    BY <2>2
  <2>5. ASSUME NEW i \in DOMAIN s.accounts
        PROVE  \/ i = id /\ s.accounts[i] = e
               \/ i \in DOMAIN a /\ s.accounts[i] = a[i]
    <3>1. i \in 1..(Len(a) + 1)
      BY <2>1, <2>2
    <3>2. CASE i = Len(a) + 1
      <4>1. i = id
        BY <2>1, <3>2
      <4>2. Append(a, e)[i] = e
        BY <2>3, <3>2
      <4>3. s.accounts[i] = Append(a, e)[i]
        BY <2>1
      <4>4. s.accounts[i] = e
        BY <4>2, <4>3
      <4>5. QED BY <4>1, <4>4, Zenon
    <3>3. CASE i \in 1..Len(a)
      <4>1. i \in DOMAIN a
        BY <2>2, <3>3
      <4>2. Append(a, e)[i] = a[i]
        BY <2>3, <3>3
      <4>3. s.accounts[i] = Append(a, e)[i]
        BY <2>1
      <4>4. QED BY <4>1, <4>2, <4>3
    <3>4. QED BY <2>4, <3>1, <3>2, <3>3
  <2>6. QED BY <2>5 DEF a
<1>7. ReadSoFar(s, chain)
  BY <1>1, <1>2, <1>5, <1>6 DEF ReadSoFar
<1>8. QED BY <1>1, <1>3, <1>5, <1>7 DEF PollInv

LEMMA PollStepKeeps ==
  ASSUME FeedAssumption, PollInv, [Next]_vars, [Len(chain') >= Len(chain)]_chain
  PROVE  PollInv'
<1>1. CASE FeedNext /\ UNCHANGED <<pollVars, memoryVars>>
  BY <1>1, FeedStep, PollStays DEF PollInv, pollVars
<1>2. CASE BeginPoll
  BY <1>2, BeginPollKeeps
<1>3. ASSUME NEW id \in Ids, ReadAccount(id) PROVE PollInv'
  BY <1>3, ReadAccountKeeps
<1>4. CASE ReadPoolsAndJudge
  <2>1. /\ FeedInv' /\ pc' = "alerting" /\ pc = "reading"
        /\ snap' = [snap EXCEPT !.pool = StateAt(snap.pin).pool, !.ok = TRUE]
    BY <1>4, FeedStays DEF ReadPoolsAndJudge, Readable, PollInv, Seen
  <2>2. StateAt(snap.pin).pool \in [Coins -> Int]
    BY <2>1, StateSound DEF PollInv, ReadSoFar
  <2>3. snap' \in SnapType
    BY <2>1, <2>2 DEF PollInv, SnapType
  <2>4. QED BY <2>1, <2>3 DEF PollInv
<1>5. CASE FailRead \/ EndPoll
  BY <1>5, FeedStays, EmptyTyped DEF FailRead, EndPoll, PollInv
<1>6. CASE Notify
  <2>1. UNCHANGED <<feedVars, pc, snap>> /\ FeedInv'
    BY <1>6, FeedStays DEF Notify, PollInv
  <2>2. QED BY <2>1, PollStays DEF Grows, feedVars
<1>7. CASE (\E reverted \in BOOLEAN : ObserveClaim(reverted)) \/ PassTime \/ UNCHANGED vars
  <2>1. UNCHANGED <<feedVars, pollVars>> /\ FeedInv'
    BY <1>7, FeedStays DEF ObserveClaim, PassTime, vars, PollInv
  <2>2. QED BY <2>1, PollStays DEF Grows, feedVars, pollVars
<1>8. QED BY <1>1, <1>2, <1>3, <1>4, <1>5, <1>6, <1>7 DEF Next, PollStep

\* The alerts of one poll name every token found short, and no other.
LEMMA AlertsNameThem ==
  ASSUME NEW kind, NEW names, IsFiniteSet(names)
  PROVE  LET s == Alerts(kind, names)
         IN  /\ s \in Seq({Alert(kind, n) : n \in names})
             /\ \A n \in names : \E i \in DOMAIN s : s[i] = Alert(kind, n)
<1> DEFINE A == {Alert(kind, n) : n \in names}
           f == [n \in names |-> Alert(kind, n)]
<1>1. f \in Surjection(names, A)
  BY DEF Surjection
<1> HIDE DEF f
<1>2. IsFiniteSet(A)
  <2> HIDE DEF A
  <2>1. QED BY <1>1, FS_Surjection
<1>3. Alerts(kind, names) = SetToSeq(A)
  BY DEF Alerts
<1>4. \A n \in names : Alert(kind, n) \in A
  OBVIOUS
<1> HIDE DEF A
<1>5. SetToSeq(A) \in Seq(A) /\ \A x \in A : \E i \in DOMAIN SetToSeq(A) : SetToSeq(A)[i] = x
  BY <1>2, SequenceOfSet
<1>6. QED BY <1>3, <1>4, <1>5 DEF A

\* What one round of checks puts into the outbox about solvency is the set of
\* tokens it found short.
LEMMA PagesNameTheShort ==
  ASSUME NEW short, IsFiniteSet(short), NEW changed, IsFiniteSet(changed),
         NEW claims \in Seq({Alert("claims", "window")}), NEW c
  PROVE  LET out == Alerts("solvency", short) \o Alerts("pause", changed) \o claims
         IN  (\E i \in DOMAIN out : out[i] = Alert("solvency", c)) <=> c \in short
<1> DEFINE p == Alerts("solvency", short)
           q == Alerts("pause", changed)
           P == {Alert("solvency", n) : n \in short}
           Q == {Alert("pause", n) : n \in changed}
           R == {Alert("claims", "window")}
           out == p \o q \o claims
<1>1. p \in Seq(P) /\ (\A n \in short : \E i \in DOMAIN p : p[i] = Alert("solvency", n)) /\ q \in Seq(Q)
  BY AlertsNameThem
<1>2. /\ Alert("solvency", c) \in P => c \in short
      /\ Alert("solvency", c) \notin Q /\ Alert("solvency", c) \notin R
  BY DEF Alert
<1> HIDE DEF p, q, P, Q, R
<1>3. claims \in Seq(R)
  BY DEF R
<1>4. /\ Len(p) \in Nat /\ Len(q) \in Nat /\ Len(claims) \in Nat
      /\ DOMAIN p = 1..Len(p) /\ DOMAIN out = 1..(Len(p) + Len(q) + Len(claims))
      /\ \A i \in 1..Len(p) : out[i] = p[i] /\ p[i] \in P
      /\ \A i \in DOMAIN out : out[i] \in P \cup Q \cup R
  <2>1. p \in Seq(P \cup Q \cup R) /\ q \in Seq(P \cup Q \cup R) /\ claims \in Seq(P \cup Q \cup R)
    BY <1>1, <1>3
  <2>2. p \o q \in Seq(P \cup Q \cup R) /\ Len(p \o q) = Len(p) + Len(q) /\ \A i \in 1..Len(p) : (p \o q)[i] = p[i]
    BY <2>1
  <2>3. out \in Seq(P \cup Q \cup R) /\ Len(out) = Len(p \o q) + Len(claims) /\ \A i \in 1..Len(p \o q) : out[i] = (p \o q)[i]
    <3> DEFINE pq == p \o q
    <3>1. pq \in Seq(P \cup Q \cup R)
      BY <2>2
    <3> HIDE DEF pq
    <3>2. /\ pq \o claims \in Seq(P \cup Q \cup R) /\ Len(pq \o claims) = Len(pq) + Len(claims)
          /\ \A i \in 1..Len(pq) : (pq \o claims)[i] = pq[i]
      BY <2>1, <3>1
    <3>3. QED BY <3>2 DEF pq
  <2> HIDE DEF out
  <2>4. Len(p) \in Nat /\ Len(q) \in Nat /\ Len(claims) \in Nat /\ DOMAIN p = 1..Len(p) /\ DOMAIN out = 1..Len(out)
    BY <2>1, <2>3
  <2>5. \A i \in 1..Len(p) : out[i] = p[i] /\ p[i] \in P
    <3> SUFFICES ASSUME NEW i \in 1..Len(p) PROVE out[i] = p[i] /\ p[i] \in P
      OBVIOUS
    <3>1. i \in 1..Len(p \o q)
      BY ONLY <2>2, <2>4, i \in 1..Len(p)
    <3>2. out[i] = p[i]
      BY <2>2, <2>3, <3>1
    <3>3. p[i] \in P
      BY ONLY <1>1, i \in 1..Len(p)
    <3>4. QED BY <3>2, <3>3
  <2>6. \A i \in DOMAIN out : out[i] \in P \cup Q \cup R
    BY <2>3, <2>4
  <2>7. QED BY <2>2, <2>3, <2>4, <2>5, <2>6
<1> HIDE DEF out
<1>5. ASSUME c \in short PROVE \E i \in DOMAIN out : out[i] = Alert("solvency", c)
  <2>1. PICK i \in DOMAIN p : p[i] = Alert("solvency", c)
    BY <1>1, <1>5
  <2>2. i \in DOMAIN out /\ out[i] = p[i]
    BY <1>4
  <2>3. QED BY <2>1, <2>2
<1>6. ASSUME NEW i \in DOMAIN out, out[i] = Alert("solvency", c) PROVE c \in short
  BY <1>2, <1>4, <1>6
<1>7. QED BY <1>5, <1>6 DEF out, p, q

\* The step that ends a poll's reads judges the block it is pinned to.
LEMMA JudgedExactly ==
  ASSUME FeedAssumption, CoinAssumption, PollInv, ReadPoolsAndJudge
  PROVE  {c \in Coins : \E i \in DOMAIN outbox' : outbox'[i] = Alert("solvency", c)}
           = {c \in Coins : ShortAt(StateAt(snap.pin), c)}
<1> DEFINE state == StateAt(snap.pin)
           short == Insolvent(snap.accounts, state.pool)
           changed == PauseChanges(Flags(state))
           claims == IF Spike THEN <<Alert("claims", "window")>> ELSE <<>>
<1>1. ReadSoFar(snap, chain) /\ Len(snap.accounts) = snap.count /\ snap.accounts \in Seq(Entry)
  BY DEF ReadPoolsAndJudge, Readable, PollInv, SnapType
<1>2. /\ BookOK(state.book) /\ state = (IF snap.pin = 0 THEN NoBlock ELSE chain[snap.pin])
  BY <1>1, StateSound DEF PollInv, ReadSoFar, StateAt
<1>3. outbox' = Alerts("solvency", short) \o Alerts("pause", changed) \o claims
  BY DEF ReadPoolsAndJudge, Seen
<1> HIDE DEF state
<1>4. /\ Len(snap.accounts) = CountAt(state)
      /\ \A i \in DOMAIN snap.accounts : snap.accounts[i] = state.book[i]
  BY <1>1, <1>2 DEF ReadSoFar
<1>5. \A c \in Coins : Obligation(snap.accounts, c) = OwedAt(state, c)
  BY <1>1, <1>2, <1>4, ObligationIsOwed
<1>6. \A c \in Coins : c \in short <=> ShortAt(state, c)
  BY <1>5 DEF Insolvent, ShortAt
<1>7. IsFiniteSet(short) /\ IsFiniteSet(changed)
  <2>1. short \subseteq Coins /\ changed \subseteq Contracts
    BY DEF Insolvent, PauseChanges
  <2>2. IsFiniteSet({"registry"} \cup {"distributor"})
    BY FS_Singleton, FS_Union
  <2>3. {"registry"} \cup {"distributor"} = Contracts
    BY DEF Contracts
  <2> HIDE DEF short, changed
  <2>4. QED BY <2>1, <2>2, <2>3, FS_Subset DEF CoinAssumption
<1>8. claims \in Seq({Alert("claims", "window")})
  <2> DEFINE r == Alert("claims", "window")
  <2> HIDE DEF r, short, changed
  <2>1. <<r>> \in Seq({r}) /\ <<>> \in Seq({r})
    OBVIOUS
  <2>2. QED BY <2>1 DEF r
<1> HIDE DEF short, changed, claims
<1>9. \A c : (\E i \in DOMAIN outbox' : outbox'[i] = Alert("solvency", c)) <=> c \in short
  BY <1>3, <1>7, <1>8, PagesNameTheShort
<1>10. QED BY <1>6, <1>9 DEF state

\* A poll pages for exactly the tokens for which the contracts, at the height it
\* read, hold less than they owe, for any number of actions and tokens and
\* whatever the chain did between its reads (monitor.ts:104-246, checks.ts:83-140).
THEOREM PagesForShortfalls ==
  ASSUME FeedAssumption, CoinAssumption
  PROVE  Spec /\ NoBlockLost => PagesExactly
<1>1. Init => PollInv
  BY PollStarts
<1>2. PollInv /\ [Next]_vars /\ [Len(chain') >= Len(chain)]_chain => PollInv'
  BY PollStepKeeps
<1>3. PollInv /\ [Next]_vars =>
        [Judged' /\ ~Judged =>
           {c \in Coins : \E i \in DOMAIN outbox' : outbox'[i] = Alert("solvency", c)}
             = {c \in Coins : ShortAt(StateAt(snap.pin), c)}]_vars
  <2>1. SUFFICES ASSUME PollInv, Next, Judged', ~Judged PROVE ReadPoolsAndJudge
    BY JudgedExactly
  <2>2. pc' = "alerting" /\ snap'.ok
    BY <2>1 DEF Judged
  <2>3. ~(pc' = pc /\ snap' = snap)
    BY <2>1, <2>2 DEF Judged
  <2>4. ~BeginPoll /\ ~EndPoll /\ ~FailRead
    BY <2>2, EmptyTyped DEF BeginPoll, EndPoll, FailRead
  <2>5. \A id \in Ids : ~ReadAccount(id)
    BY <2>2 DEF ReadAccount, Readable
  <2>6. ~Notify /\ ~PassTime /\ ~(\E reverted \in BOOLEAN : ObserveClaim(reverted))
    BY <2>3 DEF Notify, PassTime, ObserveClaim, pollVars
  <2>7. ~(FeedNext /\ UNCHANGED <<pollVars, memoryVars>>)
    BY <2>3 DEF pollVars
  <2>8. QED BY <2>1, <2>4, <2>5, <2>6, <2>7 DEF Next, PollStep
<1>4. QED BY <1>1, <1>2, <1>3, PTL DEF Spec, NoBlockLost, PagesExactly

(***************************************************************************)
(* What a block's events say of its book                                   *)
(***************************************************************************)

IsLog(e, name, id) == e.name = name /\ e.id = id

IsStatusLog(e, id, old, new) ==
  IsLog(e, "ActionStatusChanged", id) /\ e.prev = old.status /\ e.new = new.status

\* What each operation does to the entry of one action, and the log it leaves.
Announces(id, old, new, e) ==
  /\ old.status = "NONE" /\ new.status = "ANNOUNCED"
  /\ new.goal = old.goal /\ new.funded = old.funded /\ new.claimed = old.claimed /\ new.paid = old.paid
  /\ IsLog(e, "ActionAnnounced", id) /\ e.kind = new.kind

Publishes(id, old, new, s, e) ==
  /\ old.status = "ANNOUNCED" /\ new.status = "ROOT_PUBLISHED"
  /\ new.kind = old.kind /\ new.funded = old.funded /\ new.claimed = old.claimed /\ new.paid = old.paid
  /\ IsStatusLog(s, id, old, new)
  /\ IsLog(e, "MerkleRootPublished", id) /\ e.total = new.goal

Funds(id, old, new, e) ==
  /\ old.status = "ROOT_PUBLISHED" /\ new.status \in {"ROOT_PUBLISHED", "CLAIMABLE"}
  /\ new.kind = old.kind /\ new.goal = old.goal /\ new.claimed = old.claimed /\ new.paid = old.paid
  /\ IsLog(e, "Funded", id) /\ e.total = new.funded /\ new.funded = old.funded + e.amount

Pays(id, old, new, e) ==
  /\ old.status = "CLAIMABLE" /\ new.status = "CLAIMABLE"
  /\ new.kind = old.kind /\ new.goal = old.goal /\ new.funded = old.funded
  /\ new.claimed = old.claimed + e.amount /\ new.paid = old.paid \cup {e.index}
  /\ IsLog(e, "Claimed", id)

Sweeps(id, old, new, s, e) ==
  /\ old.status = "CLAIMABLE" /\ new.status = "FINALIZED"
  /\ new.kind = old.kind /\ new.goal = old.goal /\ new.funded = old.funded
  /\ new.claimed = old.claimed /\ new.paid = old.paid
  /\ IsStatusLog(s, id, old, new)
  /\ IsLog(e, "UnclaimedSwept", id) /\ e.amount = old.funded - old.claimed

Voids(id, old, new, s) ==
  /\ old.status \in {"ANNOUNCED", "ROOT_PUBLISHED"} /\ new.status = "CANCELLED"
  /\ new.kind = old.kind /\ new.goal = old.goal /\ new.funded = 0
  /\ new.claimed = old.claimed /\ new.paid = old.paid
  /\ IsStatusLog(s, id, old, new)

\* One operation on one action.
TurnOfOne(id, old, new, e) ==
  \/ Announces(id, old, new, e)
  \/ Funds(id, old, new, e) /\ new.status = old.status
  \/ Pays(id, old, new, e)
  \/ Voids(id, old, new, e)

TurnOfTwo(id, old, new, e, f) ==
  \/ Publishes(id, old, new, e, f)
  \/ Funds(id, old, new, e) /\ IsStatusLog(f, id, old, new)
  \/ Sweeps(id, old, new, e, f)
  \/ Voids(id, old, new, e) /\ IsLog(f, "PublishedActionCancelled", id)

Turn(id, old, new, events) ==
  \/ Len(events) = 1 /\ TurnOfOne(id, old, new, events[1])
  \/ Len(events) = 2 /\ TurnOfTwo(id, old, new, events[1], events[2])

\* From the book of one block to the book of the next: one operation on one
\* action, or none at all.
Quiet(events) ==
  Len(events) = 0 \/ (Len(events) = 1 /\ events[1].name \in {"Paused", "Unpaused"})

Linked(b, c, events) ==
  \/ c = b /\ Quiet(events)
  \/ \E id \in Ids : Turn(id, b[id], c[id], events) /\ \A k \in Ids \ {id} : c[k] = b[k]

\* A chain of sound blocks, each linked to the one before, and the contracts
\* stand where its last block says; also after a reorganisation.
LinkInv ==
  /\ BookOK(book)
  /\ pool \in [Coins -> Int] /\ paused \in SUBSET Pausable
  /\ chain \in Seq(BlockType)
  /\ book = StateAt(Len(chain)).book /\ pool = StateAt(Len(chain)).pool
  /\ paused = StateAt(Len(chain)).paused
  /\ \A h \in 1..Len(chain) :
       /\ BookOK(chain[h].book)
       /\ Linked(StateAt(h - 1).book, chain[h].book, chain[h].events)

\* The events of each operation.
LEMMA StatusEventIs ==
  ASSUME BookOK(book), NEW id \in Ids, NEW s \in Statuses
  PROVE  StatusEvent(id, s) \in EventType /\ IsLog(StatusEvent(id, s), "ActionStatusChanged", id)
         /\ StatusEvent(id, s).prev = book[id].status /\ StatusEvent(id, s).new = s
<1> DEFINE o == Event("ActionStatusChanged", id)
<1>1. o \in EventType /\ o.id = id
  BY EventTyped DEF EventNames
<1>2. StatusEvent(id, s).id = o.id
  <2>1. StatusEvent(id, s) = [o EXCEPT !.prev = book[id].status, !.new = s]
    BY DEF StatusEvent
  <2> HIDE DEF o
  <2>2. QED BY <1>1, <2>1 DEF EventType
<1>3. QED BY <1>1, <1>2, StatusEventTyped DEF IsLog

LEMMA AnnounceLinks ==
  ASSUME FeedAssumption, BookOK(book), NEW id \in Ids, NEW kind \in Kinds, Announce(id, kind)
  PROVE  Linked(book, book', AnnounceEvents(id, kind))
<1> DEFINE o == Event("ActionAnnounced", id)
           e == [o EXCEPT !.kind = kind]
           old == book[id]
           new == [old EXCEPT !.status = "ANNOUNCED", !.kind = kind]
<1>1. IsLog(e, "ActionAnnounced", id) /\ e.kind = kind
  <2>1. o \in EventType /\ o.name = "ActionAnnounced" /\ o.id = id
    BY EventTyped DEF EventNames
  <2> HIDE DEF o
  <2>2. QED BY <2>1 DEF EventType, IsLog
<1>2. book \in [Ids -> Entry] /\ old \in Entry /\ old.status = "NONE"
  BY DEF BookOK, Announce, At
<1>3. book' = [book EXCEPT ![id] = new]
  BY <1>2 DEF Announce
<1>4. AnnounceEvents(id, kind) = <<e>>
  BY DEF AnnounceEvents
<1> HIDE DEF e, old
<1>5. Announces(id, old, new, e)
  BY <1>1, <1>2 DEF Announces, Entry
<1> HIDE DEF new
<1>6. book'[id] = new /\ book[id] = old /\ \A k \in Ids \ {id} : book'[k] = book[k]
  BY <1>2, <1>3 DEF old
<1>7. QED BY <1>4, <1>5, <1>6 DEF Linked, Turn, TurnOfOne

LEMMA PublishLinks ==
  ASSUME FeedAssumption, BookOK(book), NEW id \in Ids, NEW goal \in Goals, PublishGoal(id, goal)
  PROVE  Linked(book, book', PublishEvents(id, goal))
<1> DEFINE s == StatusEvent(id, "ROOT_PUBLISHED")
           o == Event("MerkleRootPublished", id)
           e == [o EXCEPT !.total = goal]
           old == book[id]
           new == [old EXCEPT !.status = "ROOT_PUBLISHED", !.goal = goal]
<1>1. IsLog(e, "MerkleRootPublished", id) /\ e.total = goal
  <2>1. o \in EventType /\ o.name = "MerkleRootPublished" /\ o.id = id
    BY EventTyped DEF EventNames
  <2> HIDE DEF o
  <2>2. QED BY <2>1 DEF EventType, IsLog
<1>2. book \in [Ids -> Entry] /\ old \in Entry /\ old.status = "ANNOUNCED"
  BY DEF BookOK, PublishGoal, At
<1>3. book' = [book EXCEPT ![id] = new]
  BY <1>2 DEF PublishGoal
<1>4. PublishEvents(id, goal) = <<s, e>>
  BY DEF PublishEvents
<1>5. IsLog(s, "ActionStatusChanged", id) /\ s.prev = old.status /\ s.new = "ROOT_PUBLISHED"
  BY StatusEventIs DEF Statuses
<1> HIDE DEF e, old, s
<1>6. Publishes(id, old, new, s, e)
  BY <1>1, <1>2, <1>5 DEF Publishes, Entry, IsStatusLog
<1> HIDE DEF new
<1>7. book'[id] = new /\ book[id] = old /\ \A k \in Ids \ {id} : book'[k] = book[k]
  BY <1>2, <1>3 DEF old
<1>8. QED BY <1>4, <1>6, <1>7 DEF Linked, Turn, TurnOfTwo

LEMMA FundLinks ==
  ASSUME FeedAssumption, BookOK(book), NEW id \in Ids, NEW amount \in Amounts, Deposit(id, amount)
  PROVE  Linked(book, book', FundEvents(id, amount))
<1> DEFINE total == book[id].funded + amount
           o == Event("Funded", id)
           e == [o EXCEPT !.amount = amount, !.total = total]
           s == StatusEvent(id, "CLAIMABLE")
           old == book[id]
           new == [old EXCEPT !.funded = total, !.status = IF total = old.goal THEN "CLAIMABLE" ELSE @]
<1>1. IsLog(e, "Funded", id) /\ e.amount = amount /\ e.total = total
  <2>1. o \in EventType /\ o.name = "Funded" /\ o.id = id
    BY EventTyped DEF EventNames
  <2> HIDE DEF o, total
  <2>2. QED BY <2>1 DEF EventType, IsLog
<1>2. book \in [Ids -> Entry] /\ old \in Entry /\ old.status = "ROOT_PUBLISHED"
  BY DEF BookOK, Deposit, At
<1>3. book' = [book EXCEPT ![id] = new]
  BY <1>2 DEF Deposit
<1>4. FundEvents(id, amount) = IF total = old.goal THEN <<e, s>> ELSE <<e>>
  BY DEF FundEvents
<1>5. IsLog(s, "ActionStatusChanged", id) /\ s.prev = old.status /\ s.new = "CLAIMABLE"
  BY StatusEventIs DEF Statuses
<1>6. total = old.funded + amount
  OBVIOUS
<1> HIDE DEF e, old, s, total
<1>7. /\ Funds(id, old, new, e)
      /\ new.status = IF total = old.goal THEN "CLAIMABLE" ELSE "ROOT_PUBLISHED"
  BY <1>1, <1>2, <1>6 DEF Funds, Entry
<1> HIDE DEF new
<1>8. book'[id] = new /\ book[id] = old /\ \A k \in Ids \ {id} : book'[k] = book[k]
  BY <1>2, <1>3 DEF old
<1>9. Turn(id, old, new, FundEvents(id, amount))
  BY <1>2, <1>4, <1>5, <1>7 DEF Turn, TurnOfOne, TurnOfTwo, IsStatusLog
<1>10. QED BY <1>8, <1>9 DEF Linked

LEMMA ClaimLinks ==
  ASSUME FeedAssumption, BookOK(book), NEW id \in Ids, NEW leaf \in Leaves, Pay(id, leaf)
  PROVE  Linked(book, book', ClaimEvents(id, leaf))
<1> DEFINE total == book[id].claimed + leaf.amount
           o == Event("Claimed", id)
           e == [o EXCEPT !.index = leaf.index, !.amount = leaf.amount]
           old == book[id]
           new == [old EXCEPT !.paid = @ \cup {leaf.index}, !.claimed = total]
<1>1. IsLog(e, "Claimed", id) /\ e.index = leaf.index /\ e.amount = leaf.amount
  <2>1. o \in EventType /\ o.name = "Claimed" /\ o.id = id
    BY EventTyped DEF EventNames
  <2> HIDE DEF o
  <2>2. QED BY <2>1 DEF EventType, IsLog
<1>2. book \in [Ids -> Entry] /\ old \in Entry /\ old.status = "CLAIMABLE"
  BY DEF BookOK, Pay, At
<1>3. book' = [book EXCEPT ![id] = new]
  BY <1>2 DEF Pay
<1>4. ClaimEvents(id, leaf) = <<e>>
  BY DEF ClaimEvents
<1>5. total = old.claimed + leaf.amount
  OBVIOUS
<1> HIDE DEF e, old, total
<1>6. Pays(id, old, new, e)
  BY <1>1, <1>2, <1>5 DEF Pays, Entry
<1> HIDE DEF new
<1>7. book'[id] = new /\ book[id] = old /\ \A k \in Ids \ {id} : book'[k] = book[k]
  BY <1>2, <1>3 DEF old
<1>8. QED BY <1>4, <1>6, <1>7 DEF Linked, Turn, TurnOfOne

LEMMA SweepLinks ==
  ASSUME FeedAssumption, BookOK(book), NEW id \in Ids, Finalize(id)
  PROVE  Linked(book, book', SweepEvents(id))
<1> DEFINE s == StatusEvent(id, "FINALIZED")
           o == Event("UnclaimedSwept", id)
           e == [o EXCEPT !.amount = book[id].funded - book[id].claimed]
           old == book[id]
           new == [old EXCEPT !.status = "FINALIZED"]
<1>1. IsLog(e, "UnclaimedSwept", id) /\ e.amount = old.funded - old.claimed
  <2>1. o \in EventType /\ o.name = "UnclaimedSwept" /\ o.id = id
    BY EventTyped DEF EventNames
  <2> HIDE DEF o
  <2>2. QED BY <2>1 DEF EventType, IsLog
<1>2. book \in [Ids -> Entry] /\ old \in Entry /\ old.status = "CLAIMABLE"
  BY DEF BookOK, Finalize, At
<1>3. book' = [book EXCEPT ![id] = new]
  BY <1>2 DEF Finalize
<1>4. SweepEvents(id) = <<s, e>>
  BY DEF SweepEvents
<1>5. IsLog(s, "ActionStatusChanged", id) /\ s.prev = old.status /\ s.new = "FINALIZED"
  BY StatusEventIs DEF Statuses
<1> HIDE DEF e, old, s
<1>6. Sweeps(id, old, new, s, e)
  BY <1>1, <1>2, <1>5 DEF Sweeps, Entry, IsStatusLog
<1> HIDE DEF new
<1>7. book'[id] = new /\ book[id] = old /\ \A k \in Ids \ {id} : book'[k] = book[k]
  BY <1>2, <1>3 DEF old
<1>8. QED BY <1>4, <1>6, <1>7 DEF Linked, Turn, TurnOfTwo

LEMMA CancelLinks ==
  ASSUME FeedAssumption, BookOK(book), NEW id \in Ids, Void(id)
  PROVE  Linked(book, book', CancelEvents(id))
<1> DEFINE s == StatusEvent(id, "CANCELLED")
           o == Event("PublishedActionCancelled", id)
           e == [o EXCEPT !.amount = book[id].funded]
           old == book[id]
           new == [old EXCEPT !.status = "CANCELLED", !.funded = 0]
<1>1. IsLog(e, "PublishedActionCancelled", id)
  <2>1. o \in EventType /\ o.name = "PublishedActionCancelled" /\ o.id = id
    BY EventTyped DEF EventNames
  <2> HIDE DEF o
  <2>2. QED BY <2>1 DEF EventType, IsLog
<1>2. book \in [Ids -> Entry] /\ old \in Entry /\ old.status \in {"ANNOUNCED", "ROOT_PUBLISHED"}
  BY DEF BookOK, Void
<1>3. book' = [book EXCEPT ![id] = new]
  BY <1>2 DEF Void
<1>4. CancelEvents(id) = <<s>> \/ CancelEvents(id) = <<s, e>>
  BY DEF CancelEvents
<1>5. IsLog(s, "ActionStatusChanged", id) /\ s.prev = old.status /\ s.new = "CANCELLED"
  BY StatusEventIs DEF Statuses
<1> HIDE DEF e, old, s
<1>6. Voids(id, old, new, s)
  BY <1>2, <1>5 DEF Voids, Entry, IsStatusLog
<1> HIDE DEF new
<1>7. book'[id] = new /\ book[id] = old /\ \A k \in Ids \ {id} : book'[k] = book[k]
  BY <1>2, <1>3 DEF old
<1>8. QED BY <1>1, <1>4, <1>6, <1>7 DEF Linked, Turn, TurnOfOne, TurnOfTwo

\* A block linked to the last one.
LEMMA EmitLinks ==
  ASSUME LinkInv, BookOK(book'), pool' \in [Coins -> Int], paused' \in SUBSET Pausable,
         NEW events \in Seq(EventType), Linked(book, book', events), Emit(events)
  PROVE  LinkInv'
<1>0. PICK tx \in NextTx : chain' = Append(chain, Block(events, tx))
  BY DEF Emit
<1> DEFINE b == Block(events, tx)
<1>1. b \in BlockType /\ b.book = book' /\ b.pool = pool' /\ b.paused = paused' /\ b.events = events
  BY NextTxTyped DEF Block, BlockType, BookOK, LinkInv
<1>2. chain' = Append(chain, b) /\ chain \in Seq(BlockType) /\ Len(chain) \in Nat
  BY <1>0 DEF LinkInv
<1> HIDE DEF b
<1>3. /\ chain' \in Seq(BlockType) /\ Len(chain') = Len(chain) + 1
      /\ chain'[Len(chain')] = b /\ \A h \in 1..Len(chain) : chain'[h] = chain[h]
  BY <1>1, <1>2
<1>4. StateAt(Len(chain))' = b
  BY <1>2, <1>3 DEF StateAt
<1>5. \A h \in 0..Len(chain) : StateAt(h)' = StateAt(h)
  BY <1>3 DEF StateAt, NoBlock
<1>6. ASSUME NEW h \in 1..Len(chain')
      PROVE  BookOK(chain'[h].book) /\ Linked(StateAt(h - 1)'.book, chain'[h].book, chain'[h].events)
  <2>1. h - 1 \in 0..Len(chain)
    BY <1>2, <1>3
  <2>2. CASE h = Len(chain')
    <3>1. StateAt(h - 1)'.book = book
      BY <1>2, <1>3, <1>5, <2>1, <2>2 DEF LinkInv
    <3>2. QED BY <1>1, <1>3, <2>2, <3>1
  <2>3. CASE h # Len(chain')
    <3>1. h \in 1..Len(chain) /\ chain'[h] = chain[h] /\ StateAt(h - 1)' = StateAt(h - 1)
      BY <1>2, <1>3, <1>5, <2>1, <2>3
    <3>2. QED BY <3>1 DEF LinkInv
  <2>4. QED BY <2>2, <2>3
<1>7. QED BY <1>1, <1>3, <1>4, <1>6 DEF LinkInv

\* The blocks up to h, and the contracts as they stood there.
LEMMA ReorganiseLinks ==
  ASSUME FeedAssumption, LinkInv, NEW h \in 0..Height, Reorganise(h)
  PROVE  LinkInv'
<1>1. h \in 0..Len(chain) /\ h < Len(chain) /\ Len(chain) \in Nat /\ chain \in Seq(BlockType)
  BY DEF Reorganise, Height, LinkInv
<1>2. chain' \in Seq(BlockType) /\ Len(chain') = h /\ \A k \in 1..h : chain'[k] = chain[k]
  <2>1. chain' = SubSeq(chain, 1, h)
    BY DEF Reorganise
  <2>2. QED BY <1>1, <2>1
<1>3. \A k \in 0..h : StateAt(k)' = StateAt(k)
  BY <1>2 DEF StateAt, NoBlock
<1>4. BookOK(StateAt(h).book) /\ StateAt(h).pool \in [Coins -> Int] /\ StateAt(h).paused \in SUBSET Pausable
  <2>1. CASE h = 0
    BY <2>1, BlankOK DEF StateAt, NoBlock
  <2>2. CASE h # 0
    <3>1. h \in 1..Len(chain) /\ chain[h] \in BlockType /\ StateAt(h) = chain[h]
      BY <1>1, <2>2 DEF StateAt
    <3>2. QED BY <3>1 DEF LinkInv, BlockType
  <2>3. QED BY <2>1, <2>2
<1>5. book' = StateAt(h)'.book /\ pool' = StateAt(h)'.pool /\ paused' = StateAt(h)'.paused
  BY <1>1, <1>3 DEF Reorganise
<1>6. ASSUME NEW k \in 1..h
      PROVE  BookOK(chain'[k].book) /\ Linked(StateAt(k - 1)'.book, chain'[k].book, chain'[k].events)
  <2>1. k \in 1..Len(chain) /\ k - 1 \in 0..h
    BY <1>1
  <2>2. QED BY <1>2, <1>3, <2>1 DEF LinkInv
<1>7. BookOK(book') /\ pool' \in [Coins -> Int] /\ paused' \in SUBSET Pausable
  BY <1>4 DEF Reorganise
<1>8. StateAt(Len(chain))' = StateAt(h)'
  BY <1>2 DEF StateAt
<1>9. QED BY <1>2, <1>5, <1>6, <1>7, <1>8 DEF LinkInv

LEMMA LinkStep ==
  ASSUME FeedAssumption, LinkInv, FeedNext
  PROVE  LinkInv'
<1>1. BookOK(book) /\ pool \in [Coins -> Int] /\ paused \in SUBSET Pausable
  BY DEF LinkInv
<1>2. CASE MineRegistry
  <2>1. pool' \in [Coins -> Int] /\ paused' \in SUBSET Pausable
    BY <1>1, <1>2 DEF MineRegistry
  <2>2. ASSUME NEW id \in Ids, NEW kind \in Kinds, Announce(id, kind), Emit(AnnounceEvents(id, kind))
        PROVE  LinkInv'
    BY <1>1, <2>1, <2>2, AnnounceMoves, AnnounceEventsOK, AnnounceLinks, EmitLinks DEF EventsOK
  <2>3. ASSUME NEW id \in Ids, NEW goal \in Goals, PublishGoal(id, goal), Emit(PublishEvents(id, goal))
        PROVE  LinkInv'
    BY <1>1, <2>1, <2>3, PublishMoves, PublishEventsOK, PublishLinks, EmitLinks DEF EventsOK
  <2>4. ASSUME NEW id \in Ids, Void(id), Emit(CancelEvents(id))
        PROVE  LinkInv'
    BY <1>1, <2>1, <2>4, VoidMoves, CancelEventsOK, CancelLinks, EmitLinks DEF EventsOK
  <2>5. QED BY <1>2, <2>2, <2>3, <2>4 DEF MineRegistry
<1>3. CASE MineDistributor
  <2>1. paused' \in SUBSET Pausable
    BY <1>1, <1>3 DEF MineDistributor
  <2>2. ASSUME NEW id \in Ids, NEW amount \in Amounts, Deposit(id, amount), Settle(id, amount),
               Emit(FundEvents(id, amount))
        PROVE  LinkInv'
    <3>1. amount \in Int
      BY DEF FeedAssumption
    <3>2. pool' \in [Coins -> Int]
      BY <1>1, <2>2, <3>1, SettleTyped
    <3>3. QED BY <1>1, <2>1, <2>2, <3>2, DepositMoves, FundEventsOK, FundLinks, EmitLinks DEF EventsOK
  <2>3. ASSUME NEW id \in Ids, NEW leaf \in Leaves, Pay(id, leaf), Settle(id, -leaf.amount),
               Emit(ClaimEvents(id, leaf))
        PROVE  LinkInv'
    <3>1. -leaf.amount \in Int
      BY DEF FeedAssumption
    <3>2. pool' \in [Coins -> Int]
      BY <1>1, <2>3, <3>1, SettleTyped
    <3>3. QED BY <1>1, <2>1, <2>3, <3>2, PayMoves, ClaimEventsOK, ClaimLinks, EmitLinks DEF EventsOK
  <2>4. ASSUME NEW id \in Ids, Finalize(id), Settle(id, book[id].claimed - book[id].funded),
               Emit(SweepEvents(id))
        PROVE  LinkInv'
    <3>1. book[id].claimed - book[id].funded \in Int
      BY <1>1 DEF BookOK, Entry
    <3>2. pool' \in [Coins -> Int]
      BY <1>1, <2>4, <3>1, SettleTyped
    <3>3. QED BY <1>1, <2>1, <2>4, <3>2, FinalizeMoves, SweepEventsOK, SweepLinks, EmitLinks DEF EventsOK
  <2>5. ASSUME NEW id \in Ids, Void(id), Settle(id, -book[id].funded), Emit(CancelEvents(id))
        PROVE  LinkInv'
    <3>1. -book[id].funded \in Int
      BY <1>1 DEF BookOK, Entry
    <3>2. pool' \in [Coins -> Int]
      BY <1>1, <2>5, <3>1, SettleTyped
    <3>3. QED BY <1>1, <2>1, <2>5, <3>2, VoidMoves, CancelEventsOK, CancelLinks, EmitLinks DEF EventsOK
  <2>6. QED BY <1>3, <2>2, <2>3, <2>4, <2>5 DEF MineDistributor
<1>4. ASSUME NEW contract \in Pausable, TogglePause(contract)
      PROVE  LinkInv'
  <2>1. PICK e \in EventType : e.name \in {"Paused", "Unpaused"} /\ Emit(<<e>>)
    BY <1>4, ToggleEvent
  <2>2. paused' \in SUBSET Pausable /\ book' = book /\ pool' = pool
    BY <1>1, <1>4 DEF TogglePause
  <2>3. Linked(book, book', <<e>>)
    BY <2>1, <2>2 DEF Linked, Quiet
  <2>4. BookOK(book') /\ pool' \in [Coins -> Int] /\ <<e>> \in Seq(EventType)
    BY <1>1, <2>1, <2>2
  <2>5. QED BY <2>1, <2>2, <2>3, <2>4, EmitLinks
<1>5. ASSUME NEW coin \in Coins, NEW amount \in Leaks, Leak(coin, amount)
      PROVE  LinkInv'
  <2>1. pool' \in [Coins -> Int] /\ paused' = paused /\ book' = book /\ Emit(<<>>)
    BY <1>1, <1>5 DEF Leak, FeedAssumption
  <2>2. Linked(book, book', <<>>) /\ <<>> \in Seq(EventType)
    BY <2>1 DEF Linked, Quiet
  <2>3. QED BY <1>1, <2>1, <2>2, EmitLinks
<1>6. ASSUME NEW h \in 0..Height, Reorganise(h)
      PROVE  LinkInv'
  BY <1>6, ReorganiseLinks
<1>7. QED BY <1>2, <1>3, <1>4, <1>5, <1>6 DEF FeedNext

LEMMA LinkStarts == FeedAssumption /\ FeedInit => LinkInv
<1> SUFFICES ASSUME FeedAssumption, FeedInit PROVE LinkInv
  OBVIOUS
<1>1. BookOK(book) /\ book = NoBlock.book
  BY BlankOK DEF FeedInit, BookInit, NoBlock
<1>2. pool \in [Coins -> Int] /\ paused \in SUBSET Pausable /\ chain \in Seq(BlockType) /\ Len(chain) = 0
  BY DEF FeedInit, NoBlock
<1>3. QED BY <1>1, <1>2 DEF FeedInit, LinkInv, StateAt, NoBlock

LEMMA LinkStays == LinkInv /\ UNCHANGED feedVars => LinkInv'
<1> SUFFICES ASSUME LinkInv, UNCHANGED feedVars PROVE LinkInv'
  OBVIOUS
<1>1. book' = book /\ pool' = pool /\ paused' = paused /\ chain' = chain
  BY DEF feedVars
<1>2. QED BY <1>1 DEF LinkInv, StateAt, NoBlock

(***************************************************************************)
(* The index                                                               *)
(***************************************************************************)

\* Functions on a part of K.
Records(K, V) == UNION {[D -> V] : D \in SUBSET K}

EntityType ==
  [status : Statuses \cup Pausable, kind : Kinds \cup {"CASH"}, goal : Int, funded : Int,
   claimed : Int, paid : SUBSET Indices]

ChildType == [id : Ids \cup {0}, index : Indices \cup {0}, amount : Int]

StoreType(K) ==
  [action : Records(Ids, EntityType), funding : Records(K, ChildType), claim : Records(K, ChildType),
   sweep : Records(K, ChildType)]

Slots(children, id) == {children[key].index : key \in Of(children, id)}

\* What a store holds of one action.
Card(s, id) ==
  [present |-> id \in DOMAIN s.action,
   entity |-> IF id \in DOMAIN s.action THEN s.action[id] ELSE Blank,
   deposited |-> AmountOf(s.funding, id), paidOut |-> AmountOf(s.claim, id),
   slots |-> Slots(s.claim, id), swept |-> AmountOf(s.sweep, id)]

CardType ==
  [present : BOOLEAN, entity : EntityType, deposited : Int, paidOut : Int, slots : SUBSET (Indices \cup {0}),
   swept : Int]

\* How one event changes an entity ...
Updated(o, x, e) ==
  /\ x.kind = IF e.name = "ActionAnnounced" THEN e.kind ELSE o.kind
  /\ x.status = IF e.name = "ActionAnnounced" THEN "ANNOUNCED"
                ELSE IF e.name = "ActionStatusChanged" THEN e.new ELSE o.status
  /\ x.goal = IF e.name = "MerkleRootPublished" THEN e.total ELSE o.goal
  /\ x.funded = IF e.name = "Funded" THEN e.total ELSE o.funded
  /\ x.claimed = IF e.name = "Claimed" THEN o.claimed + e.amount ELSE o.claimed

\* ... and what a store holds of its action.
Posted(old, new, e) ==
  /\ new.present
  /\ IF old.present THEN Updated(old.entity, new.entity, e)
     ELSE Updated([Blank EXCEPT !.status = "ANNOUNCED"], new.entity, e)
  /\ new.deposited = old.deposited + IF e.name = "Funded" THEN e.amount ELSE 0
  /\ new.paidOut = old.paidOut + IF e.name = "Claimed" THEN e.amount ELSE 0
  /\ new.slots = old.slots \cup IF e.name = "Claimed" THEN {e.index} ELSE {}
  /\ new.swept = old.swept + IF e.name = "UnclaimedSwept" THEN e.amount ELSE 0

LEMMA RecordsAre ==
  ASSUME NEW K, NEW V, NEW r
  PROVE  r \in Records(K, V) <=> DOMAIN r \subseteq K /\ r \in [DOMAIN r -> V]
BY DEF Records

LEMMA PutIn ==
  ASSUME NEW K, NEW V, NEW r \in Records(K, V), NEW k, NEW v \in V, NEW L, K \cup {k} \subseteq L
  PROVE  Put(r, k, v) \in Records(L, V)
<1>1. DOMAIN r \subseteq K /\ r \in [DOMAIN r -> V]
  BY RecordsAre
<1> DEFINE p == Put(r, k, v)
<1>2. p \in [DOMAIN r \cup {k} -> V] /\ DOMAIN r \cup {k} \subseteq L
  BY <1>1 DEF Put
<1> HIDE DEF p
<1>3. DOMAIN p \subseteq L /\ p \in [DOMAIN p -> V]
  BY <1>2
<1>4. QED BY <1>3, RecordsAre DEF p

LEMMA RecordsGrow ==
  ASSUME NEW K, NEW V, NEW r \in Records(K, V), NEW L, K \subseteq L
  PROVE  r \in Records(L, V)
BY RecordsAre

\* The amounts of an action's records, and their sum.
PartsOf(children, id) == [key \in Of(children, id) |-> children[key].amount]

LEMMA AmountsTyped ==
  ASSUME NEW K, IsFiniteSet(K), NEW r \in Records(K, ChildType), NEW id
  PROVE  /\ IsFiniteSet(Of(r, id)) /\ PartsOf(r, id) \in [Of(r, id) -> Int]
         /\ AmountOf(r, id) = SumFunctionOnSet(PartsOf(r, id), Of(r, id)) /\ AmountOf(r, id) \in Int
         /\ Slots(r, id) \subseteq Indices \cup {0}
<1>1. DOMAIN r \subseteq K /\ r \in [DOMAIN r -> ChildType] /\ Of(r, id) \subseteq K
  BY RecordsAre DEF Of
<1>2. IsFiniteSet(Of(r, id))
  BY <1>1, FS_Subset
<1>3. \A key \in Of(r, id) : r[key] \in ChildType
  BY <1>1 DEF Of
<1>4. PartsOf(r, id) \in [Of(r, id) -> Int] /\ Slots(r, id) \subseteq Indices \cup {0}
  BY <1>3 DEF ChildType, PartsOf, Slots
<1>5. AmountOf(r, id) = SumFunctionOnSet(PartsOf(r, id), Of(r, id))
  BY DEF AmountOf, SumFunction, PartsOf
<1>6. QED BY <1>2, <1>4, <1>5, SumInt

\* A record under a fresh key adds its amount and its index to its action.
LEMMA PutAdds ==
  ASSUME NEW K, IsFiniteSet(K), NEW r \in Records(K, ChildType), NEW k, k \notin K, NEW v \in ChildType,
         NEW id
  PROVE  /\ AmountOf(Put(r, k, v), id) = AmountOf(r, id) + IF v.id = id THEN v.amount ELSE 0
         /\ Slots(Put(r, k, v), id) = Slots(r, id) \cup IF v.id = id THEN {v.index} ELSE {}
<1> DEFINE p == Put(r, k, v)
<1>0. p \in Records(K \cup {k}, ChildType)
  BY PutIn
<1>1. DOMAIN p = DOMAIN r \cup {k} /\ p[k] = v /\ \A j \in DOMAIN r : p[j] = r[j]
  <2>1. k \notin DOMAIN r
    BY RecordsAre
  <2>2. QED BY <2>1 DEF Put
<1>2. IsFiniteSet(K \cup {k})
  BY FS_AddElement
<1> HIDE DEF p
<1>3. k \notin DOMAIN r
  BY RecordsAre
<1>4. CASE v.id # id
  <2>1. Of(p, id) = Of(r, id)
    BY <1>1, <1>3, <1>4 DEF Of
  <2>2. PartsOf(p, id) = PartsOf(r, id) /\ Slots(p, id) = Slots(r, id)
    BY <1>1, <2>1 DEF PartsOf, Slots, Of
  <2>3. AmountOf(p, id) = AmountOf(r, id) /\ AmountOf(r, id) \in Int
    BY <1>0, <1>2, <2>1, <2>2, AmountsTyped
  <2>4. QED BY <1>4, <2>2, <2>3 DEF p
<1>5. CASE v.id = id
  <2>1. Of(p, id) = Of(r, id) \cup {k} /\ k \notin Of(r, id) /\ k \in Of(p, id) /\ Of(p, id) \ {k} = Of(r, id)
    BY <1>1, <1>3, <1>5 DEF Of
  <2>2. Slots(p, id) = Slots(r, id) \cup {v.index}
    BY <1>1, <2>1 DEF Slots, Of
  <2>3. IsFiniteSet(Of(p, id)) /\ PartsOf(p, id) \in [Of(p, id) -> Int]
        /\ AmountOf(p, id) = SumFunctionOnSet(PartsOf(p, id), Of(p, id))
    BY <1>0, <1>2, AmountsTyped
  <2>4. PartsOf(p, id)[k] = v.amount /\ [y \in Of(p, id) \ {k} |-> PartsOf(p, id)[y]] = PartsOf(r, id)
    BY <1>1, <2>1 DEF PartsOf, Of
  <2>5. AmountOf(p, id) = v.amount + SumFunctionOnSet(PartsOf(r, id), Of(r, id))
    BY <2>1, <2>3, <2>4, SumOut
  <2>6. AmountOf(r, id) = SumFunctionOnSet(PartsOf(r, id), Of(r, id)) /\ AmountOf(r, id) \in Int
    BY AmountsTyped
  <2>7. v.amount \in Int
    BY DEF ChildType
  <2>8. QED BY <1>5, <2>2, <2>5, <2>6, <2>7 DEF p
<1>6. QED BY <1>4, <1>5

\* What the handlers make of a store, field by field.
Stored(s, key, e, x) ==
  [action |-> Put(s.action, e.id, x),
   funding |-> IF e.name = "Funded" THEN Put(s.funding, key, Child(e)) ELSE s.funding,
   claim |-> IF e.name = "Claimed" THEN Put(s.claim, key, Child(e)) ELSE s.claim,
   sweep |-> IF e.name = "UnclaimedSwept" THEN Put(s.sweep, key, Child(e)) ELSE s.sweep]

LEMMA StubTyped == [Blank EXCEPT !.status = "ANNOUNCED"] \in EntityType /\ Blank \in EntityType
BY DEF Blank, EntityType, Statuses

LEMMA LoadTyped ==
  ASSUME NEW K, NEW s \in StoreType(K), NEW id \in Ids
  PROVE  Load(s, id) \in EntityType
<1>1. s.action \in Records(Ids, EntityType)
  BY DEF StoreType
<1>2. s.action \in [DOMAIN s.action -> EntityType]
  BY <1>1, RecordsAre
<1>3. QED BY <1>2, StubTyped DEF Load

LEMMA SaveIs ==
  ASSUME NEW K, NEW s \in StoreType(K), NEW id, NEW x
  PROVE  Save(s, id, x) = [action |-> Put(s.action, id, x), funding |-> s.funding, claim |-> s.claim,
                           sweep |-> s.sweep]
BY DEF Save, StoreType

LEMMA StoreExcept ==
  ASSUME NEW v, v = [action |-> v.action, funding |-> v.funding, claim |-> v.claim, sweep |-> v.sweep],
         NEW key, NEW c
  PROVE  /\ [v EXCEPT !.funding = Put(@, key, c)]
              = [action |-> v.action, funding |-> Put(v.funding, key, c), claim |-> v.claim, sweep |-> v.sweep]
         /\ [v EXCEPT !.claim = Put(@, key, c)]
              = [action |-> v.action, funding |-> v.funding, claim |-> Put(v.claim, key, c), sweep |-> v.sweep]
         /\ [v EXCEPT !.sweep = Put(@, key, c)]
              = [action |-> v.action, funding |-> v.funding, claim |-> v.claim, sweep |-> Put(v.sweep, key, c)]
<1>1. v \in [action : {v.action}, funding : {v.funding}, claim : {v.claim}, sweep : {v.sweep}]
  OBVIOUS
<1>2. QED BY <1>1

LEMMA HandleIs ==
  ASSUME NEW K, NEW s \in StoreType(K), NEW key, NEW e \in EventType, e.id \in Ids, e.name \in Topics
  PROVE  \E x \in EntityType : Updated(Load(s, e.id), x, e) /\ HandleEvent(s, key, e) = Stored(s, key, e, x)
<1> DEFINE o == Load(s, e.id)
<1>1. o \in EntityType
  BY LoadTyped
<1>2. e.kind \in Kinds \cup {"CASH"} /\ e.new \in Statuses \cup Pausable /\ e.total \in Int /\ e.amount \in Int
  BY DEF EventType
<1>3. \A x : Save(s, e.id, x) = [action |-> Put(s.action, e.id, x), funding |-> s.funding,
                                 claim |-> s.claim, sweep |-> s.sweep]
  BY SaveIs
<1>4. CASE e.name = "ActionAnnounced"
  <2> DEFINE x == [o EXCEPT !.kind = e.kind, !.status = "ANNOUNCED"]
  <2>1. HandleEvent(s, key, e) = Save(s, e.id, x)
    BY <1>4 DEF HandleEvent, HandleAnnounced
  <2> HIDE DEF o
  <2>2. x \in EntityType /\ Updated(o, x, e)
    BY <1>1, <1>2, <1>4 DEF EntityType, Updated, Statuses
  <2> HIDE DEF x
  <2>3. Save(s, e.id, x) = Stored(s, key, e, x)
    BY <1>3, <1>4 DEF Stored
  <2>4. QED BY <2>1, <2>2, <2>3 DEF o
<1>5. CASE e.name = "MerkleRootPublished"
  <2> DEFINE x == [o EXCEPT !.goal = e.total]
  <2>1. HandleEvent(s, key, e) = Save(s, e.id, x)
    BY <1>5 DEF HandleEvent, HandleRootPublished
  <2> HIDE DEF o
  <2>2. x \in EntityType /\ Updated(o, x, e)
    BY <1>1, <1>2, <1>5 DEF EntityType, Updated
  <2> HIDE DEF x
  <2>3. Save(s, e.id, x) = Stored(s, key, e, x)
    BY <1>3, <1>5 DEF Stored
  <2>4. QED BY <2>1, <2>2, <2>3 DEF o
<1>6. CASE e.name = "ActionStatusChanged"
  <2> DEFINE x == [o EXCEPT !.status = e.new]
  <2>1. HandleEvent(s, key, e) = Save(s, e.id, x)
    BY <1>6 DEF HandleEvent, HandleStatusChanged
  <2> HIDE DEF o
  <2>2. x \in EntityType /\ Updated(o, x, e)
    BY <1>1, <1>2, <1>6 DEF EntityType, Updated
  <2> HIDE DEF x
  <2>3. Save(s, e.id, x) = Stored(s, key, e, x)
    BY <1>3, <1>6 DEF Stored
  <2>4. QED BY <2>1, <2>2, <2>3 DEF o
<1>7. CASE e.name = "Funded"
  <2> DEFINE x == [o EXCEPT !.funded = e.total]
  <2>1. HandleEvent(s, key, e) = [Save(s, e.id, x) EXCEPT !.funding = Put(@, key, Child(e))]
    BY <1>7 DEF HandleEvent, HandleFunded
  <2> HIDE DEF o
  <2>2. x \in EntityType /\ Updated(o, x, e)
    BY <1>1, <1>2, <1>7 DEF EntityType, Updated
  <2> HIDE DEF x
  <2>3. [Save(s, e.id, x) EXCEPT !.funding = Put(@, key, Child(e))] = Stored(s, key, e, x)
    <3> DEFINE v == Save(s, e.id, x)
    <3>1. v = [action |-> Put(s.action, e.id, x), funding |-> s.funding, claim |-> s.claim, sweep |-> s.sweep]
      BY <1>3
    <3> HIDE DEF v
    <3>2. v = [action |-> v.action, funding |-> v.funding, claim |-> v.claim, sweep |-> v.sweep]
      BY <3>1
    <3>3. [v EXCEPT !.funding = Put(@, key, Child(e))] = Stored(s, key, e, x)
      BY <1>7, <3>1, <3>2, StoreExcept DEF Stored
    <3>4. QED BY <3>3 DEF v
  <2>4. QED BY <2>1, <2>2, <2>3 DEF o
<1>8. CASE e.name = "Claimed"
  <2> DEFINE x == [o EXCEPT !.claimed = @ + e.amount]
  <2>1. HandleEvent(s, key, e) = [Save(s, e.id, x) EXCEPT !.claim = Put(@, key, Child(e))]
    BY <1>8 DEF HandleEvent, HandleClaimed
  <2> HIDE DEF o
  <2>2. x \in EntityType /\ Updated(o, x, e)
    BY <1>1, <1>2, <1>8 DEF EntityType, Updated
  <2> HIDE DEF x
  <2>3. [Save(s, e.id, x) EXCEPT !.claim = Put(@, key, Child(e))] = Stored(s, key, e, x)
    <3> DEFINE v == Save(s, e.id, x)
    <3>1. v = [action |-> Put(s.action, e.id, x), funding |-> s.funding, claim |-> s.claim, sweep |-> s.sweep]
      BY <1>3
    <3> HIDE DEF v
    <3>2. v = [action |-> v.action, funding |-> v.funding, claim |-> v.claim, sweep |-> v.sweep]
      BY <3>1
    <3>3. [v EXCEPT !.claim = Put(@, key, Child(e))] = Stored(s, key, e, x)
      BY <1>8, <3>1, <3>2, StoreExcept DEF Stored
    <3>4. QED BY <3>3 DEF v
  <2>4. QED BY <2>1, <2>2, <2>3 DEF o
<1>9. CASE e.name = "UnclaimedSwept"
  <2>1. HandleEvent(s, key, e) = [Save(s, e.id, o) EXCEPT !.sweep = Put(@, key, Child(e))]
    BY <1>9 DEF HandleEvent, HandleSwept
  <2> HIDE DEF o
  <2>2. Updated(o, o, e)
    BY <1>9 DEF Updated
  <2>3. [Save(s, e.id, o) EXCEPT !.sweep = Put(@, key, Child(e))] = Stored(s, key, e, o)
    <3> DEFINE v == Save(s, e.id, o)
    <3>1. v = [action |-> Put(s.action, e.id, o), funding |-> s.funding, claim |-> s.claim, sweep |-> s.sweep]
      BY <1>3
    <3> HIDE DEF v
    <3>2. v = [action |-> v.action, funding |-> v.funding, claim |-> v.claim, sweep |-> v.sweep]
      BY <3>1
    <3>3. [v EXCEPT !.sweep = Put(@, key, Child(e))] = Stored(s, key, e, o)
      BY <1>9, <3>1, <3>2, StoreExcept DEF Stored
    <3>4. QED BY <3>3 DEF v
  <2>4. QED BY <1>1, <2>1, <2>2, <2>3 DEF o
<1>10. QED BY <1>4, <1>5, <1>6, <1>7, <1>8, <1>9 DEF Topics

LEMMA CardTyped ==
  ASSUME NEW K, IsFiniteSet(K), NEW s \in StoreType(K), NEW id \in Ids
  PROVE  Card(s, id) \in CardType
<1>1. /\ s.action \in Records(Ids, EntityType) /\ s.funding \in Records(K, ChildType)
      /\ s.claim \in Records(K, ChildType) /\ s.sweep \in Records(K, ChildType)
  BY DEF StoreType
<1>2. id \in DOMAIN s.action => s.action[id] \in EntityType
  BY <1>1, RecordsAre
<1>3. /\ AmountOf(s.funding, id) \in Int /\ AmountOf(s.claim, id) \in Int /\ AmountOf(s.sweep, id) \in Int
      /\ Slots(s.claim, id) \in SUBSET (Indices \cup {0})
  BY <1>1, AmountsTyped
<1>4. QED BY <1>2, <1>3, StubTyped DEF Card, CardType

\* What the stores s and t hold of every action but id is the same.
Spares(s, t, id) == \A k \in Ids : k # id => Card(t, k) = Card(s, k)

\* An event under a fresh key changes what the store holds of its action, and
\* of no other.
LEMMA EventPosts ==
  ASSUME NEW K, IsFiniteSet(K), NEW s \in StoreType(K), NEW key, key \notin K, NEW e \in EventType,
         e.id \in Ids, e.name \in Topics
  PROVE  LET t == HandleEvent(s, key, e)
         IN  /\ t \in StoreType(K \cup {key})
             /\ Posted(Card(s, e.id), Card(t, e.id), e)
             /\ Spares(s, t, e.id)
<1>1. PICK x \in EntityType : Updated(Load(s, e.id), x, e) /\ HandleEvent(s, key, e) = Stored(s, key, e, x)
  BY HandleIs
<1> DEFINE t == Stored(s, key, e, x)
           L == K \cup {key}
           c == Child(e)
<1>2. /\ s.action \in Records(Ids, EntityType) /\ s.funding \in Records(K, ChildType)
      /\ s.claim \in Records(K, ChildType) /\ s.sweep \in Records(K, ChildType)
  BY DEF StoreType
<1>3. c \in ChildType /\ c.id = e.id /\ c.index = e.index /\ c.amount = e.amount
  BY DEF Child, ChildType, EventType
<1>4. Put(s.action, e.id, x) \in Records(Ids, EntityType)
  BY <1>2, PutIn
<1>5. \A r \in Records(K, ChildType) : Put(r, key, c) \in Records(L, ChildType) /\ r \in Records(L, ChildType)
  <2> SUFFICES ASSUME NEW r \in Records(K, ChildType)
               PROVE  Put(r, key, c) \in Records(L, ChildType) /\ r \in Records(L, ChildType)
    OBVIOUS
  <2>1. K \cup {key} \subseteq L /\ K \subseteq L
    OBVIOUS
  <2> HIDE DEF c, L
  <2>2. Put(r, key, c) \in Records(L, ChildType)
    BY ONLY <1>3, <2>1, PutIn, r \in Records(K, ChildType)
  <2>3. QED BY <2>1, <2>2, RecordsGrow
<1>6. \A r \in Records(K, ChildType), id \in Ids :
        /\ AmountOf(Put(r, key, c), id) = AmountOf(r, id) + IF e.id = id THEN e.amount ELSE 0
        /\ Slots(Put(r, key, c), id) = Slots(r, id) \cup IF e.id = id THEN {e.index} ELSE {}
        /\ AmountOf(r, id) \in Int
  <2> HIDE DEF c, L
  <2> SUFFICES ASSUME NEW r \in Records(K, ChildType), NEW id \in Ids
               PROVE  /\ AmountOf(Put(r, key, c), id) = AmountOf(r, id) + IF e.id = id THEN e.amount ELSE 0
                      /\ Slots(Put(r, key, c), id) = Slots(r, id) \cup IF e.id = id THEN {e.index} ELSE {}
                      /\ AmountOf(r, id) \in Int
    OBVIOUS
  <2>1. /\ AmountOf(Put(r, key, c), id) = AmountOf(r, id) + IF c.id = id THEN c.amount ELSE 0
        /\ Slots(Put(r, key, c), id) = Slots(r, id) \cup IF c.id = id THEN {c.index} ELSE {}
    BY ONLY <1>3, PutAdds, IsFiniteSet(K), key \notin K, r \in Records(K, ChildType)
  <2>2. AmountOf(r, id) \in Int
    BY AmountsTyped
  <2>3. QED BY <1>3, <2>1, <2>2
<1> HIDE DEF c, L
<1>7. /\ t.action = Put(s.action, e.id, x)
      /\ t.funding = IF e.name = "Funded" THEN Put(s.funding, key, c) ELSE s.funding
      /\ t.claim = IF e.name = "Claimed" THEN Put(s.claim, key, c) ELSE s.claim
      /\ t.sweep = IF e.name = "UnclaimedSwept" THEN Put(s.sweep, key, c) ELSE s.sweep
      /\ t = [action |-> t.action, funding |-> t.funding, claim |-> t.claim, sweep |-> t.sweep]
  BY DEF Stored, c
<1> HIDE DEF t
<1>8. t \in StoreType(L)
  <2>1. /\ t.action \in Records(Ids, EntityType) /\ t.funding \in Records(L, ChildType)
        /\ t.claim \in Records(L, ChildType) /\ t.sweep \in Records(L, ChildType)
    BY <1>2, <1>4, <1>5, <1>7
  <2>2. QED BY <1>7, <2>1 DEF StoreType
<1>9. /\ DOMAIN t.action = DOMAIN s.action \cup {e.id} /\ t.action[e.id] = x
      /\ \A k \in DOMAIN s.action : k # e.id => t.action[k] = s.action[k]
  BY <1>7 DEF Put
<1>10. \A id \in Ids :
         /\ AmountOf(t.funding, id) = AmountOf(s.funding, id) + IF e.name = "Funded" /\ e.id = id THEN e.amount ELSE 0
         /\ AmountOf(t.claim, id) = AmountOf(s.claim, id) + IF e.name = "Claimed" /\ e.id = id THEN e.amount ELSE 0
         /\ Slots(t.claim, id) = Slots(s.claim, id) \cup IF e.name = "Claimed" /\ e.id = id THEN {e.index} ELSE {}
         /\ AmountOf(t.sweep, id) = AmountOf(s.sweep, id) + IF e.name = "UnclaimedSwept" /\ e.id = id THEN e.amount ELSE 0
  BY <1>2, <1>6, <1>7
<1>11. Posted(Card(s, e.id), Card(t, e.id), e)
  BY <1>1, <1>9, <1>10 DEF Posted, Card, Load
<1>12. ASSUME NEW k \in Ids \ {e.id} PROVE Card(t, k) = Card(s, k)
  <2>1. /\ AmountOf(t.funding, k) = AmountOf(s.funding, k) /\ AmountOf(t.claim, k) = AmountOf(s.claim, k)
        /\ Slots(t.claim, k) = Slots(s.claim, k) /\ AmountOf(t.sweep, k) = AmountOf(s.sweep, k)
    <3>1. k \in Ids /\ e.id # k
      OBVIOUS
    <3>2. AmountOf(s.funding, k) \in Int /\ AmountOf(s.claim, k) \in Int /\ AmountOf(s.sweep, k) \in Int
      BY <1>2, <1>6, <3>1
    <3>3. AmountOf(t.funding, k) = AmountOf(s.funding, k) /\ AmountOf(t.claim, k) = AmountOf(s.claim, k)
      BY <1>10, <3>1, <3>2
    <3>4. Slots(t.claim, k) = Slots(s.claim, k)
      BY <1>10, <3>1
    <3>5. AmountOf(t.sweep, k) = AmountOf(s.sweep, k)
      BY <1>10, <3>1, <3>2
    <3>6. QED BY <3>3, <3>4, <3>5
  <2>2. (k \in DOMAIN t.action <=> k \in DOMAIN s.action) /\ (k \in DOMAIN s.action => t.action[k] = s.action[k])
    BY <1>9
  <2>3. QED BY <2>1, <2>2 DEF Card
<1>13. Spares(s, t, e.id)
  BY <1>12 DEF Spares
<1>14. QED BY <1>1, <1>8, <1>11, <1>13 DEF t, L

(***************************************************************************)
(* A block's events, one after the other                                   *)
(***************************************************************************)

LEMMA MaxOfShort == Max({1}) = 1 /\ Max({2}) = 2 /\ Max({1, 2}) = 2
BY DEF Max

LEMMA PartsOfShort ==
  ASSUME NEW t \in SUBSET {1, 2}
  PROVE  t = {} \/ t = {1} \/ t = {2} \/ t = {1, 2}
<1>1. CASE 1 \in t /\ 2 \in t
  BY <1>1
<1>2. CASE 1 \in t /\ 2 \notin t
  BY <1>2
<1>3. CASE 1 \notin t /\ 2 \in t
  BY <1>3
<1>4. CASE 1 \notin t /\ 2 \notin t
  BY <1>4
<1>5. QED BY <1>1, <1>2, <1>3, <1>4

LEMMA RestsOfShort ==
  /\ {1} \ {1} = {} /\ {2} \ {2} = {} /\ {1, 2} \ {2} = {1}
  /\ {1} # {2} /\ {1} # {1, 2} /\ {2} # {1, 2} /\ {1} # {} /\ {2} # {} /\ {1, 2} # {}
<1>1. {1} \ {1} = {} /\ {2} \ {2} = {}
  OBVIOUS
<1>2. {1, 2} \ {2} = {1}
  OBVIOUS
<1>3. {1} # {2} /\ {1} # {1, 2} /\ {2} # {1, 2} /\ {1} # {} /\ {2} # {} /\ {1, 2} # {}
  <2>1. 1 \in {1} /\ 1 \notin {2} /\ 2 \notin {1} /\ 2 \in {1, 2} /\ 1 \in {1, 2} /\ 2 \in {2}
    OBVIOUS
  <2>2. QED BY <2>1
<1>4. QED BY <1>1, <1>2, <1>3

Positions(events) == [pos \in DOMAIN events |-> pos]

\* g says what the handlers make of s after each part of the block.
IsHandled(g, s, h, events) ==
  g = [t \in SUBSET DOMAIN Positions(events) |->
         IF t = {} THEN s
         ELSE HandleEvent(g[t \ {Max(t)}], EventId(h, Positions(events)[Max(t)]),
                          events[Positions(events)[Max(t)]])]

LEMMA BlockIsEntry ==
  ASSUME NEW s, NEW h
  PROVE  HandleBlock(s, h)
           = (CHOOSE g : IsHandled(g, s, h, chain[h].events))[DOMAIN Positions(chain[h].events)]
BY DEF HandleBlock, FoldLeft, MapThenFoldSet, IsHandled, Positions

LEMMA HandledAt ==
  ASSUME NEW s, NEW h, NEW events, NEW g, IsHandled(g, s, h, events),
         NEW t \in SUBSET DOMAIN events, t # {}, NEW m \in DOMAIN events, Max(t) = m, NEW r, t \ {m} = r
  PROVE  g[t] = HandleEvent(g[r], EventId(h, m), events[m])
<1>1. DOMAIN Positions(events) = DOMAIN events /\ Positions(events)[m] = m
  BY DEF Positions
<1>2. g[t] = HandleEvent(g[t \ {Max(t)}], EventId(h, Positions(events)[Max(t)]),
                         events[Positions(events)[Max(t)]])
  BY <1>1 DEF IsHandled
<1>3. QED BY <1>1, <1>2

LEMMA HandledShort ==
  ASSUME NEW s, NEW h, NEW events \in Seq(EventType), NEW g, IsHandled(g, s, h, events)
  PROVE  /\ Len(events) = 0 => g[DOMAIN Positions(events)] = s
         /\ Len(events) = 1 => g[DOMAIN Positions(events)] = HandleEvent(s, EventId(h, 1), events[1])
         /\ Len(events) = 2 =>
              g[DOMAIN Positions(events)]
                = HandleEvent(HandleEvent(s, EventId(h, 1), events[1]), EventId(h, 2), events[2])
<1>1. DOMAIN Positions(events) = DOMAIN events
  BY DEF Positions
<1>2. g[{}] = s
  BY <1>1 DEF IsHandled
<1>3. DOMAIN events = 1..Len(events)
  OBVIOUS
<1>4. ASSUME Len(events) \in {1, 2} PROVE g[{1}] = HandleEvent(s, EventId(h, 1), events[1])
  <2>1. {1} \in SUBSET DOMAIN events /\ 1 \in DOMAIN events
    BY <1>3, <1>4
  <2>2. g[{1}] = HandleEvent(g[{}], EventId(h, 1), events[1])
    BY <2>1, MaxOfShort, RestsOfShort, HandledAt
  <2>3. QED BY <1>2, <2>2
<1>5. ASSUME Len(events) = 2
      PROVE  g[{1, 2}] = HandleEvent(HandleEvent(s, EventId(h, 1), events[1]), EventId(h, 2), events[2])
  <2>1. {1, 2} \in SUBSET DOMAIN events /\ 2 \in DOMAIN events
    BY <1>3, <1>5
  <2>2. g[{1, 2}] = HandleEvent(g[{1}], EventId(h, 2), events[2])
    BY <2>1, MaxOfShort, RestsOfShort, HandledAt
  <2>3. QED BY <1>4, <1>5, <2>2
<1>6. /\ Len(events) = 0 => DOMAIN events = {}
      /\ Len(events) = 1 => DOMAIN events = {1}
      /\ Len(events) = 2 => DOMAIN events = {1, 2}
  BY <1>3
<1>7. QED BY <1>1, <1>2, <1>4, <1>5, <1>6

LEMMA HandledExists ==
  ASSUME NEW s, NEW h, NEW events \in Seq(EventType), Len(events) \in 0..2
  PROVE  \E g : IsHandled(g, s, h, events)
<1> DEFINE D == DOMAIN Positions(events)
           H(t, pos) == HandleEvent(t, EventId(h, pos), events[pos])
           g == [t \in SUBSET D |->
                   IF t = {} THEN s ELSE IF t = {1} THEN H(s, 1) ELSE IF t = {2} THEN H(s, 2)
                   ELSE H(H(s, 1), 2)]
<1>1. D = 1..Len(events) /\ D \subseteq {1, 2} /\ \A pos \in D : Positions(events)[pos] = pos
  BY DEF Positions
<1>2. \A t \in SUBSET D : t = {} \/ t = {1} \/ t = {2} \/ t = {1, 2}
  BY <1>1, PartsOfShort
<1>3. DOMAIN g = SUBSET D /\ g[{}] = s
  OBVIOUS
<1>4. \A t \in SUBSET D : t = {1} => g[t] = H(s, 1)
  BY RestsOfShort
<1>5. \A t \in SUBSET D : t = {2} => g[t] = H(s, 2)
  BY RestsOfShort
<1>6. \A t \in SUBSET D : t = {1, 2} => g[t] = H(H(s, 1), 2)
  BY RestsOfShort
<1>7. g = [t \in SUBSET D |-> g[t]]
  OBVIOUS
<1> HIDE DEF g, D, H
<1>8. ASSUME NEW t \in SUBSET D, t # {}
      PROVE  g[t] = H(g[t \ {Max(t)}], Positions(events)[Max(t)])
  <2>1. CASE t = {1}
    <3>1. Max(t) = 1 /\ Positions(events)[1] = 1
      BY <1>1, <2>1, MaxOfShort
    <3>2. t \ {Max(t)} = {}
      BY <2>1, <3>1, RestsOfShort
    <3>3. QED BY <1>3, <1>4, <2>1, <3>1, <3>2
  <2>2. CASE t = {2}
    <3>1. Max(t) = 2 /\ Positions(events)[2] = 2
      BY <1>1, <2>2, MaxOfShort
    <3>2. t \ {Max(t)} = {}
      BY <2>2, <3>1, RestsOfShort
    <3>3. QED BY <1>3, <1>5, <2>2, <3>1, <3>2
  <2>3. CASE t = {1, 2}
    <3>1. Max(t) = 2 /\ Positions(events)[2] = 2 /\ {1} \in SUBSET D
      BY <1>1, <2>3, MaxOfShort
    <3>2. t \ {Max(t)} = {1}
      BY <2>3, <3>1, RestsOfShort
    <3>3. g[{1}] = H(s, 1)
      BY <1>4, <3>1
    <3>4. QED BY <1>6, <2>3, <3>1, <3>2, <3>3
  <2>4. QED BY <1>2, <1>8, <2>1, <2>2, <2>3
<1>9. \A t \in SUBSET D : g[t] = IF t = {} THEN s ELSE H(g[t \ {Max(t)}], Positions(events)[Max(t)])
  BY <1>3, <1>8
<1>10. IsHandled(g, s, h, events)
  BY <1>7, <1>9 DEF IsHandled, D, H
<1>11. QED BY <1>10

LEMMA HandleBlockIs ==
  ASSUME NEW s, NEW h, chain[h].events \in Seq(EventType)
  PROVE  LET events == chain[h].events
         IN  /\ Len(events) = 0 => HandleBlock(s, h) = s
             /\ Len(events) = 1 => HandleBlock(s, h) = HandleEvent(s, EventId(h, 1), events[1])
             /\ Len(events) = 2 =>
                  HandleBlock(s, h)
                    = HandleEvent(HandleEvent(s, EventId(h, 1), events[1]), EventId(h, 2), events[2])
<1> DEFINE events == chain[h].events
           g == CHOOSE g : IsHandled(g, s, h, events)
<1> SUFFICES ASSUME Len(events) \in 0..2
             PROVE  /\ Len(events) = 0 => HandleBlock(s, h) = s
                    /\ Len(events) = 1 => HandleBlock(s, h) = HandleEvent(s, EventId(h, 1), events[1])
                    /\ Len(events) = 2 =>
                         HandleBlock(s, h)
                           = HandleEvent(HandleEvent(s, EventId(h, 1), events[1]), EventId(h, 2), events[2])
  OBVIOUS
<1>1. IsHandled(g, s, h, events)
  BY HandledExists
<1>2. HandleBlock(s, h) = g[DOMAIN Positions(events)]
  BY BlockIsEntry
<1> HIDE DEF g, events
<1>3. events \in Seq(EventType)
  BY DEF events
<1>4. QED BY ONLY <1>1, <1>2, <1>3, HandledShort

(***************************************************************************)
(* The entities and the book                                               *)
(***************************************************************************)

\* What a store holds of an action whose entry is b.
Mirrors(card, b) ==
  /\ card.present <=> b.status # "NONE"
  /\ ~card.present => card.entity = Blank
  /\ card.entity.kind = b.kind /\ card.entity.status = b.status /\ card.entity.goal = b.goal
  /\ card.entity.claimed = b.claimed
  /\ b.status # "CANCELLED" => card.entity.funded = b.funded
  /\ card.deposited = card.entity.funded /\ card.paidOut = card.entity.claimed
  /\ card.slots = b.paid
  /\ card.swept = IF b.status = "FINALIZED" THEN card.entity.funded - card.entity.claimed ELSE 0

EventKeys(h) == (1..h) \X {1, 2}

Matches(s, b, h) == s \in StoreType(EventKeys(h)) /\ \A id \in Ids : Mirrors(Card(s, id), b[id])

\* Every block indexed has the entities of its own book, whether or not the
\* chain still holds it.
IndexInv ==
  /\ LinkInv
  /\ indexed \in Seq([block : BlockType, store : StoreType(Nat \X {1, 2})])
  /\ \A k \in 1..Len(indexed) : Matches(indexed[k].store, indexed[k].block.book, k)

\* One event, and two, of one operation.
LEMMA OneMirrors ==
  ASSUME NEW id, NEW old \in Entry, NEW new \in Entry, NEW e \in EventType, TurnOfOne(id, old, new, e),
         NEW c \in CardType, NEW d \in CardType, Mirrors(c, old), Posted(c, d, e)
  PROVE  Mirrors(d, new)
<1>1. CASE Announces(id, old, new, e)
  <2> DEFINE stub == [Blank EXCEPT !.status = "ANNOUNCED"]
  <2>1. ~c.present /\ c.entity = Blank /\ Updated(stub, d.entity, e)
    BY <1>1 DEF Announces, Mirrors, Posted
  <2>2. /\ stub.kind = Blank.kind /\ stub.goal = Blank.goal /\ stub.funded = Blank.funded
        /\ stub.claimed = Blank.claimed
    BY DEF Blank
  <2> HIDE DEF stub
  <2>3. QED BY <1>1, <2>1, <2>2 DEF Announces, IsLog, Mirrors, Posted, Updated, CardType, EntityType, Entry
<1>2. CASE Funds(id, old, new, e) /\ new.status = old.status
  BY <1>2 DEF Funds, IsLog, Mirrors, Posted, Updated, CardType, EntityType, Entry
<1>3. CASE Pays(id, old, new, e)
  BY <1>3 DEF Pays, IsLog, Mirrors, Posted, Updated, CardType, EntityType, Entry
<1>4. CASE Voids(id, old, new, e)
  BY <1>4 DEF Voids, IsLog, IsStatusLog, Mirrors, Posted, Updated, CardType, EntityType, Entry
<1>5. QED BY <1>1, <1>2, <1>3, <1>4 DEF TurnOfOne

LEMMA TwoMirror ==
  ASSUME NEW id, NEW old \in Entry, NEW new \in Entry, NEW e \in EventType, NEW f \in EventType,
         TurnOfTwo(id, old, new, e, f), f.name \in Topics,
         NEW c \in CardType, NEW m \in CardType, NEW d \in CardType,
         Mirrors(c, old), Posted(c, m, e), Posted(m, d, f)
  PROVE  Mirrors(d, new)
<1>1. CASE Publishes(id, old, new, e, f)
  BY <1>1 DEF Publishes, IsLog, IsStatusLog, Mirrors, Posted, Updated, CardType, EntityType, Entry
<1>2. CASE Funds(id, old, new, e) /\ IsStatusLog(f, id, old, new)
  BY <1>2 DEF Funds, IsLog, IsStatusLog, Mirrors, Posted, Updated, CardType, EntityType, Entry
<1>3. CASE Sweeps(id, old, new, e, f)
  BY <1>3 DEF Sweeps, IsLog, IsStatusLog, Mirrors, Posted, Updated, CardType, EntityType, Entry
<1>4. QED BY <1>1, <1>2, <1>3 DEF TurnOfTwo, IsLog, Topics

\* The manifest has no handler for the event a refund adds.
LEMMA VoidMirrors ==
  ASSUME NEW id, NEW old \in Entry, NEW new \in Entry, NEW e \in EventType, Voids(id, old, new, e),
         NEW c \in CardType, NEW d \in CardType, Mirrors(c, old), Posted(c, d, e)
  PROVE  Mirrors(d, new)
BY OneMirrors DEF TurnOfOne

LEMMA KeysGrow ==
  ASSUME NEW h \in Nat, h > 0
  PROVE  /\ IsFiniteSet(EventKeys(h - 1)) /\ EventId(h, 1) \notin EventKeys(h - 1)
         /\ EventId(h, 2) \notin EventKeys(h - 1) \cup {EventId(h, 1)}
         /\ IsFiniteSet(EventKeys(h - 1) \cup {EventId(h, 1)})
         /\ EventKeys(h - 1) \subseteq EventKeys(h) /\ EventKeys(h - 1) \cup {EventId(h, 1)} \subseteq EventKeys(h)
         /\ EventKeys(h - 1) \cup {EventId(h, 1)} \cup {EventId(h, 2)} \subseteq EventKeys(h)
         /\ EventKeys(h) \subseteq Nat \X {1, 2}
<1>1. IsFiniteSet(EventKeys(h - 1))
  <2>1. h - 1 \in Int /\ 1 \in Int
    OBVIOUS
  <2>2. IsFiniteSet(1..(h - 1))
    BY <2>1, FS_Interval
  <2>3. IsFiniteSet({1, 2})
    <3>1. IsFiniteSet({}) /\ {1} = {} \cup {1} /\ {1, 2} = {1} \cup {2}
      BY FS_EmptySet
    <3>2. IsFiniteSet({1})
      BY <3>1, FS_AddElement
    <3>3. QED BY <3>1, <3>2, FS_AddElement
  <2>4. QED BY <2>2, <2>3, FS_Product DEF EventKeys
<1>2. EventId(h, 1) \notin EventKeys(h - 1) /\ EventId(h, 2) \notin EventKeys(h - 1) /\ EventId(h, 2) # EventId(h, 1)
  BY DEF EventId, EventKeys
<1>3. EventKeys(h - 1) \subseteq EventKeys(h) /\ EventId(h, 1) \in EventKeys(h) /\ EventId(h, 2) \in EventKeys(h)
  BY DEF EventId, EventKeys
<1>4. EventKeys(h) \subseteq Nat \X {1, 2}
  BY DEF EventKeys
<1>5. QED BY <1>1, <1>2, <1>3, <1>4, FS_AddElement

LEMMA StoreGrows ==
  ASSUME NEW K, NEW L, K \subseteq L, NEW s \in StoreType(K)
  PROVE  s \in StoreType(L)
<1>1. /\ s = [action |-> s.action, funding |-> s.funding, claim |-> s.claim, sweep |-> s.sweep]
      /\ s.action \in Records(Ids, EntityType) /\ s.funding \in Records(K, ChildType)
      /\ s.claim \in Records(K, ChildType) /\ s.sweep \in Records(K, ChildType)
  BY DEF StoreType
<1>2. /\ s.funding \in Records(L, ChildType) /\ s.claim \in Records(L, ChildType)
      /\ s.sweep \in Records(L, ChildType)
  BY <1>1, RecordsGrow
<1>3. QED BY <1>1, <1>2 DEF StoreType

\* An event no handler is named for.
LEMMA NotHandled ==
  ASSUME NEW s, NEW key, NEW e, e.name \notin Topics
  PROVE  HandleEvent(s, key, e) = s
BY DEF HandleEvent, Topics

\* The handlers take the entities of a book to those of the next.
LEMMA BlockMirrors ==
  ASSUME NEW h \in Nat, h > 0, NEW s, NEW b, NEW c, BookOK(b), BookOK(c), Matches(s, b, h - 1),
         chain[h].events \in Seq(EventType), Linked(b, c, chain[h].events)
  PROVE  Matches(HandleBlock(s, h), c, h)
<1> DEFINE events == chain[h].events
           k1 == EventId(h, 1)
           k2 == EventId(h, 2)
           K == EventKeys(h - 1)
           t == HandleEvent(s, k1, events[1])
           u == HandleEvent(t, k2, events[2])
<1>1. /\ Len(events) = 0 => HandleBlock(s, h) = s
      /\ Len(events) = 1 => HandleBlock(s, h) = t
      /\ Len(events) = 2 => HandleBlock(s, h) = u
  BY HandleBlockIs
<1>2. /\ IsFiniteSet(K) /\ k1 \notin K /\ k2 \notin K \cup {k1} /\ IsFiniteSet(K \cup {k1})
      /\ K \subseteq EventKeys(h) /\ K \cup {k1} \subseteq EventKeys(h) /\ K \cup {k1} \cup {k2} \subseteq EventKeys(h)
  BY KeysGrow
<1>3. s \in StoreType(K) /\ \A id \in Ids : Mirrors(Card(s, id), b[id])
  BY DEF Matches
<1>4. b \in [Ids -> Entry] /\ c \in [Ids -> Entry]
  BY DEF BookOK
<1>5. /\ Len(events) \in {1, 2} => events[1] \in EventType
      /\ Len(events) = 2 => events[2] \in EventType
  OBVIOUS
<1> HIDE DEF events, k1, k2, K
<1>6. ASSUME NEW st \in StoreType(EventKeys(h)), \A id \in Ids : Mirrors(Card(st, id), c[id])
      PROVE  Matches(st, c, h)
  BY <1>6 DEF Matches
<1>7. CASE c = b /\ Quiet(events)
  <2>1. s \in StoreType(EventKeys(h))
    BY <1>2, <1>3, StoreGrows
  <2>2. Matches(s, c, h)
    BY <1>3, <1>6, <1>7, <2>1
  <2>3. CASE Len(events) = 0
    BY <1>1, <2>2, <2>3
  <2>4. CASE Len(events) # 0
    <3>1. Len(events) = 1 /\ events[1].name \notin Topics
      BY <1>7, <2>4 DEF Quiet, Topics
    <3>2. t = s
      BY <3>1, NotHandled
    <3>3. QED BY <1>1, <2>2, <3>1, <3>2
  <2>5. QED BY <2>3, <2>4
<1>8. ASSUME NEW id \in Ids, Turn(id, b[id], c[id], events), \A k \in Ids \ {id} : c[k] = b[k]
      PROVE  Matches(HandleBlock(s, h), c, h)
  <2> DEFINE e == events[1]
             f == events[2]
             old == b[id]
             new == c[id]
  <2>1. Len(events) \in {1, 2} /\ e \in EventType /\ e.name \in Topics /\ e.id = id
    BY <1>5, <1>8 DEF Turn, TurnOfOne, TurnOfTwo, Announces, Funds, Pays, Voids, Publishes, Sweeps,
                      IsStatusLog, IsLog, Topics
  <2>2. /\ t \in StoreType(K \cup {k1}) /\ Posted(Card(s, id), Card(t, id), e)
        /\ \A k \in Ids \ {id} : Card(t, k) = Card(s, k)
    <3> HIDE DEF e
    <3> DEFINE w == HandleEvent(s, k1, e)
    <3>1. IsFiniteSet(K) /\ k1 \notin K /\ s \in StoreType(K) /\ e \in EventType
      BY <1>2, <1>3, <2>1
    <3>2. e.id \in Ids /\ e.name \in Topics
      BY <2>1
    <3>3. /\ w \in StoreType(K \cup {k1}) /\ Posted(Card(s, e.id), Card(w, e.id), e)
          /\ Spares(s, w, e.id)
      BY <3>1, <3>2, EventPosts
    <3>4. w = t
      BY DEF e
    <3> HIDE DEF w, t
    <3>5. QED BY <2>1, <3>3, <3>4 DEF Spares
  <2>3. old \in Entry /\ new \in Entry /\ Card(s, id) \in CardType /\ Card(t, id) \in CardType
    BY <1>2, <1>3, <1>4, <2>2, CardTyped
  <2>4. Mirrors(Card(s, id), old)
    BY <1>3
  <2>5. t \in StoreType(EventKeys(h))
    BY <1>2, <2>2, StoreGrows
  <2> HIDE DEF t, e
  <2>6. ASSUME Mirrors(Card(t, id), new) PROVE Matches(t, c, h)
    <3>1. ASSUME NEW k \in Ids PROVE Mirrors(Card(t, k), c[k])
      <4>1. CASE k = id
        BY <2>6, <4>1
      <4>2. CASE k # id
        BY <1>3, <1>8, <2>2, <4>2
      <4>3. QED BY <4>1, <4>2
    <3>2. QED BY <1>6, <2>5, <3>1
  <2>7. CASE Len(events) = 1
    <3>1. TurnOfOne(id, old, new, e)
      BY <1>8, <2>7 DEF Turn, e
    <3>2. Mirrors(Card(t, id), new)
      BY ONLY <2>1, <2>2, <2>3, <2>4, <3>1, OneMirrors
    <3>3. QED BY <1>1, <2>6, <2>7, <3>2
  <2>8. CASE Len(events) = 2
    <3>1. TurnOfTwo(id, old, new, e, f) /\ f \in EventType
      BY <1>5, <1>8, <2>8 DEF Turn, e
    <3>2. CASE f.name \in Topics
      <4>1. f.id = id
        BY <3>1 DEF TurnOfTwo, Publishes, Sweeps, IsStatusLog, IsLog
      <4>2. /\ u \in StoreType(K \cup {k1} \cup {k2}) /\ Posted(Card(t, id), Card(u, id), f)
            /\ \A k \in Ids \ {id} : Card(u, k) = Card(t, k)
        <5> HIDE DEF f
        <5> DEFINE w == HandleEvent(t, k2, f)
        <5>1. /\ w \in StoreType(K \cup {k1} \cup {k2}) /\ Posted(Card(t, f.id), Card(w, f.id), f)
              /\ Spares(t, w, f.id)
          BY <1>2, <2>2, <3>1, <3>2, <4>1, EventPosts
        <5>2. w = u
          BY DEF f
        <5> HIDE DEF w, u
        <5>3. QED BY <4>1, <5>1, <5>2 DEF Spares
      <4>3. IsFiniteSet(K \cup {k1} \cup {k2})
        BY <1>2, FS_AddElement
      <4>4. Card(u, id) \in CardType
        BY <4>2, <4>3, CardTyped
      <4>5. u \in StoreType(EventKeys(h))
        BY <1>2, <4>2, StoreGrows
      <4> HIDE DEF u, f
      <4>6. Mirrors(Card(u, id), new)
        BY ONLY <2>1, <2>2, <2>3, <2>4, <3>1, <3>2, <4>2, <4>4, TwoMirror
      <4>7. ASSUME NEW k \in Ids PROVE Mirrors(Card(u, k), c[k])
        <5>1. CASE k = id
          BY <4>6, <5>1
        <5>2. CASE k # id
          <6>1. Card(u, k) = Card(s, k) /\ c[k] = b[k]
            BY <1>8, <2>2, <4>2, <5>2
          <6>2. QED BY <1>3, <6>1
        <5>3. QED BY <5>1, <5>2
      <4>8. QED BY <1>1, <1>6, <2>8, <4>5, <4>7
    <3>3. CASE f.name \notin Topics
      <4>1. Voids(id, old, new, e)
        BY <3>1, <3>3 DEF TurnOfTwo, Publishes, Sweeps, IsStatusLog, IsLog, Topics
      <4>2. Mirrors(Card(t, id), new)
        BY ONLY <2>1, <2>2, <2>3, <2>4, <4>1, VoidMirrors
      <4>3. u = t
        BY <3>3, NotHandled
      <4>4. QED BY <1>1, <2>6, <2>8, <4>2, <4>3
    <3>4. QED BY <3>2, <3>3
  <2>9. QED BY <2>1, <2>7, <2>8
<1>9. QED BY <1>7, <1>8 DEF Linked, events

(***************************************************************************)
(* The index, step by step                                                 *)
(***************************************************************************)

BookOf(h) == IF h = 0 THEN NoBlock.book ELSE indexed[h].block.book

LEMMA NothingMatches == Matches(NoEntities, NoBlock.book, 0)
<1> DEFINE none == [id \in {} |-> Blank]
<1>1. none \in Records(Ids, EntityType) /\ DOMAIN none = {}
  BY RecordsAre
<1>2. <<>> \in Records(EventKeys(0), ChildType) /\ DOMAIN <<>> = {}
  <2>1. DOMAIN <<>> = {}
    OBVIOUS
  <2>2. <<>> \in [{} -> ChildType]
    OBVIOUS
  <2>3. QED BY <2>1, <2>2, RecordsAre
<1>3. NoEntities \in StoreType(EventKeys(0)) /\ DOMAIN NoEntities.action = {}
  BY <1>1, <1>2 DEF NoEntities, StoreType
<1>4. ASSUME NEW id \in Ids
      PROVE  Mirrors(Card(NoEntities, id), NoBlock.book[id])
  <2>1. Of(<<>>, id) = {}
    BY <1>2 DEF Of
  <2>2. Slots(<<>>, id) = {}
    BY <2>1 DEF Slots
  <2>3. AmountOf(<<>>, id) = 0
    <3>1. PartsOf(<<>>, id) \in [{} -> Int] /\ DOMAIN PartsOf(<<>>, id) = {}
      BY <2>1 DEF PartsOf
    <3>2. AmountOf(<<>>, id) = SumFunctionOnSet(PartsOf(<<>>, id), {})
      BY <2>1 DEF AmountOf, SumFunction, PartsOf
    <3>3. QED BY <3>1, <3>2, SumEmpty
  <2>4. NoBlock.book[id] = Blank
    BY DEF NoBlock
  <2>5. /\ NoEntities.funding = <<>> /\ NoEntities.claim = <<>> /\ NoEntities.sweep = <<>>
        /\ id \notin DOMAIN NoEntities.action
    BY <1>3 DEF NoEntities
  <2> DEFINE c == Card(NoEntities, id)
  <2>6. /\ ~c.present /\ c.entity = Blank /\ c.deposited = 0 /\ c.paidOut = 0
        /\ c.slots = {} /\ c.swept = 0
    <3> DEFINE z == NoEntities
    <3>1. AmountOf(z.funding, id) = 0 /\ AmountOf(z.claim, id) = 0 /\ AmountOf(z.sweep, id) = 0
      BY <2>3, <2>5
    <3>2. Slots(z.claim, id) = {} /\ id \notin DOMAIN z.action
      BY <2>2, <2>5
    <3> HIDE DEF z
    <3>3. ~Card(z, id).present
      BY <3>2 DEF Card
    <3>4. /\ Card(z, id).entity = Blank /\ Card(z, id).deposited = 0 /\ Card(z, id).paidOut = 0
          /\ Card(z, id).slots = {} /\ Card(z, id).swept = 0
      BY <3>1, <3>2 DEF Card
    <3>5. QED BY <3>3, <3>4 DEF z
  <2> HIDE DEF c
  <2>7. Mirrors(c, Blank)
    BY <2>6 DEF Mirrors, Blank
  <2>8. QED BY <2>4, <2>7 DEF c
<1>5. QED BY <1>3, <1>4 DEF Matches

LEMMA IndexedMatches ==
  ASSUME IndexInv, NEW h \in 0..Len(indexed)
  PROVE  Matches(StoreAt(h), BookOf(h), h)
BY NothingMatches DEF IndexInv, StoreAt, BookOf

LEMMA IndexStarts == FeedAssumption /\ IndexInit => IndexInv
<1> SUFFICES ASSUME FeedAssumption, IndexInit PROVE IndexInv
  OBVIOUS
<1>1. LinkInv
  BY LinkStarts DEF IndexInit
<1>2. QED BY <1>1 DEF IndexInit, IndexInv

LEMMA IndexGoesOn == ASSUME FeedAssumption, IndexInv, IndexBlock PROVE IndexInv'
<1> DEFINE h == Len(indexed) + 1
           s == StoreAt(h - 1)
           r == [block |-> chain[h], store |-> HandleBlock(s, h)]
           T == [block : BlockType, store : StoreType(Nat \X {1, 2})]
<1>1. LinkInv /\ indexed \in Seq(T) /\ \A k \in 1..Len(indexed) : Matches(indexed[k].store, indexed[k].block.book, k)
  BY DEF IndexInv
<1>2. LinkInv'
  BY <1>1, LinkStays DEF IndexBlock
<1>3. h \in Nat /\ h > 0 /\ h - 1 \in 0..Len(indexed) /\ h \in 1..Len(chain) /\ h <= Height
  BY <1>1 DEF IndexBlock, LinkInv, Height
<1>4. chain[h] \in BlockType /\ chain[h].events \in Seq(EventType) /\ BookOK(chain[h].book)
      /\ Linked(StateAt(h - 1).book, chain[h].book, chain[h].events)
  <2>1. chain[h] \in BlockType
    BY <1>1, <1>3 DEF LinkInv
  <2>2. chain[h].events \in Seq(EventType)
    BY <2>1 DEF BlockType
  <2>3. QED BY <1>1, <1>3, <2>1, <2>2 DEF LinkInv
<1>5. BookOf(h - 1) = StateAt(h - 1).book /\ BookOK(StateAt(h - 1).book)
  <2>1. CASE h = 1
    BY <2>1, BlankOK DEF BookOf, StateAt, NoBlock
  <2>2. CASE h # 1
    <3>1. h - 1 \in 1..Len(indexed) /\ h - 1 \in 1..Len(chain) /\ h - 1 # 0
      BY <1>1, <1>3, <2>2 DEF LinkInv
    <3>2. indexed[h - 1].block = chain[h - 1]
      BY <1>1, <3>1 DEF IndexBlock, Onchain
    <3>3. BookOK(chain[h - 1].book)
      BY <1>1, <3>1 DEF LinkInv
    <3>4. QED BY <3>1, <3>2, <3>3 DEF BookOf, StateAt
  <2>3. QED BY <2>1, <2>2
<1>6. Matches(s, StateAt(h - 1).book, h - 1)
  BY <1>3, <1>5, IndexedMatches
<1>7. Matches(r.store, chain[h].book, h)
  BY <1>3, <1>4, <1>5, <1>6, BlockMirrors
<1>8. r \in T /\ r.block.book = chain[h].book
  <2>1. r.store \in StoreType(EventKeys(h)) /\ EventKeys(h) \subseteq Nat \X {1, 2}
    BY <1>3, <1>7, KeysGrow DEF Matches
  <2>2. HandleBlock(s, h) \in StoreType(Nat \X {1, 2})
    BY <2>1, StoreGrows
  <2>3. QED BY <1>4, <2>2
<1>9. indexed' = Append(indexed, r)
  BY DEF IndexBlock
<1> HIDE DEF r, T, s
<1>10. /\ indexed' \in Seq(T) /\ Len(indexed') = h
       /\ \A k \in 1..Len(indexed) : indexed'[k] = indexed[k]
       /\ indexed'[h] = r
  BY <1>1, <1>8, <1>9
<1>11. \A k \in 1..Len(indexed') : Matches(indexed'[k].store, indexed'[k].block.book, k)
  BY <1>1, <1>3, <1>7, <1>8, <1>10
<1>12. QED BY <1>2, <1>10, <1>11 DEF IndexInv, T, LinkInv

LEMMA IndexGoesBack == ASSUME IndexInv, RevertBlock PROVE IndexInv'
<1> DEFINE T == [block : BlockType, store : StoreType(Nat \X {1, 2})]
<1>1. LinkInv /\ indexed \in Seq(T) /\ \A k \in 1..Len(indexed) : Matches(indexed[k].store, indexed[k].block.book, k)
  BY DEF IndexInv
<1>2. LinkInv'
  BY <1>1, LinkStays DEF RevertBlock
<1>3. Len(indexed) > 0 /\ indexed' = SubSeq(indexed, 1, Len(indexed) - 1)
  BY <1>1 DEF RevertBlock, Front
<1> HIDE DEF T
<1>4. /\ indexed' \in Seq(T) /\ Len(indexed') = Len(indexed) - 1
      /\ \A k \in 1..Len(indexed') : k \in 1..Len(indexed) /\ indexed'[k] = indexed[k]
  <2> DEFINE n == Len(indexed) - 1
  <2>1. n \in 0..Len(indexed) /\ n \in Nat /\ indexed \in Seq(T) /\ indexed' = SubSeq(indexed, 1, n)
    BY <1>1, <1>3
  <2> HIDE DEF n
  <2>2. indexed' \in Seq(T) /\ Len(indexed') = n /\ \A k \in 1..n : indexed'[k] = indexed[k]
    BY ONLY <2>1
  <2>3. QED BY <2>1, <2>2 DEF n
<1>5. QED BY <1>1, <1>2, <1>4 DEF IndexInv, T

LEMMA IndexStep ==
  ASSUME FeedAssumption, IndexInv, [IndexNext]_indexVars
  PROVE  IndexInv'
<1>1. CASE IndexBlock
  BY <1>1, IndexGoesOn
<1>2. CASE RevertBlock
  BY <1>2, IndexGoesBack
<1>3. CASE FeedNext /\ UNCHANGED indexed
  BY <1>3, LinkStep DEF IndexInv
<1>4. CASE UNCHANGED indexVars
  BY <1>4, LinkStays DEF indexVars, IndexInv
<1>5. QED BY <1>1, <1>2, <1>3, <1>4 DEF IndexNext

LEMMA EntitiesFollow == IndexInv => EntitiesMatchBook
<1> SUFFICES ASSUME IndexInv PROVE EntitiesMatchBook
  OBVIOUS
<1> DEFINE n == Len(indexed)
           b == BookOf(n)
<1>1. n \in Nat /\ n \in 0..n /\ DOMAIN indexed = 1..n
  BY DEF IndexInv
<1>2. Matches(Entities, b, n)
  BY <1>1, IndexedMatches DEF Entities
<1>3. Synced => Book = b
  BY <1>1 DEF Synced, Onchain, Book, StateAt, BookOf
<1> HIDE DEF n, b
<1>4. /\ Entities.action \in Records(Ids, EntityType) /\ DOMAIN Entities.action \subseteq Ids
      /\ \A id \in Ids : Mirrors(Card(Entities, id), b[id])
  BY <1>2, RecordsAre DEF Matches, StoreType
<1>5. ASSUME NEW id \in Ids PROVE id \in DOMAIN Entities.action <=> b[id].status # "NONE"
  BY <1>4 DEF Mirrors, Card
<1>6. ASSUME NEW id \in DOMAIN Entities.action
      PROVE  LET x == Entities.action[id]
             IN  /\ x.kind = b[id].kind /\ x.status = b[id].status /\ x.goal = b[id].goal
                 /\ x.claimed = b[id].claimed
                 /\ b[id].status # "CANCELLED" => x.funded = b[id].funded
                 /\ AmountOf(Entities.funding, id) = x.funded /\ AmountOf(Entities.claim, id) = x.claimed
                 /\ Slots(Entities.claim, id) = b[id].paid
                 /\ x.status = "FINALIZED" => AmountOf(Entities.sweep, id) = x.funded - x.claimed
  <2>1. id \in Ids /\ Mirrors(Card(Entities, id), b[id])
    BY <1>4
  <2>2. Card(Entities, id).entity = Entities.action[id]
    BY DEF Card
  <2>3. /\ Card(Entities, id).deposited = AmountOf(Entities.funding, id)
        /\ Card(Entities, id).paidOut = AmountOf(Entities.claim, id)
        /\ Card(Entities, id).slots = Slots(Entities.claim, id)
        /\ Card(Entities, id).swept = AmountOf(Entities.sweep, id)
    BY DEF Card
  <2>4. QED BY <2>1, <2>2, <2>3 DEF Mirrors
<1>7. FieldsMatch
  <2> SUFFICES ASSUME Synced
               PROVE  /\ DOMAIN Entities.action = {id \in Ids : Book[id].status # "NONE"}
                      /\ \A id \in DOMAIN Entities.action :
                           /\ Agree({"kind", "status", "goal", "claimed"}, Entities.action[id], Book[id])
                           /\ Book[id].status # "CANCELLED" => Entities.action[id].funded = Book[id].funded
    BY DEF FieldsMatch
  <2>1. DOMAIN Entities.action = {id \in Ids : Book[id].status # "NONE"}
    BY <1>3, <1>4, <1>5
  <2>2. ASSUME NEW id \in DOMAIN Entities.action
        PROVE  /\ Agree({"kind", "status", "goal", "claimed"}, Entities.action[id], Book[id])
               /\ Book[id].status # "CANCELLED" => Entities.action[id].funded = Book[id].funded
    BY <1>3, <1>6 DEF Agree
  <2>3. QED BY <2>1, <2>2
<1>8. ChildrenAddUp
  <2> SUFFICES ASSUME NEW id \in DOMAIN Entities.action
               PROVE  LET entity == Entities.action[id]
                      IN  /\ AmountOf(Entities.funding, id) = entity.funded
                          /\ AmountOf(Entities.claim, id) = entity.claimed
                          /\ Synced => {Entities.claim[key].index : key \in Of(Entities.claim, id)} = Book[id].paid
                          /\ entity.status = "FINALIZED" =>
                               AmountOf(Entities.sweep, id) = entity.funded - entity.claimed
    BY DEF ChildrenAddUp
  <2>1. Synced => {Entities.claim[key].index : key \in Of(Entities.claim, id)} = Book[id].paid
    BY <1>3, <1>6 DEF Slots
  <2>2. QED BY <1>6, <2>1
<1>9. QED BY <1>7, <1>8 DEF EntitiesMatchBook

\* Whatever the order of a transaction's logs and however often the chain
\* reorganised, the entities of an indexed block are the contracts' storage at
\* that block and the child records add up to the totals beside them
\* (subgraph/src/corporate-action-registry.ts, dividend-distributor.ts,
\* helpers.ts), on chains of any length.
THEOREM EntitiesAlwaysMatch ==
  ASSUME FeedAssumption
  PROVE  IndexSpec => []EntitiesMatchBook
<1>1. IndexInit => IndexInv
  BY IndexStarts
<1>2. IndexInv /\ [IndexNext]_indexVars => IndexInv'
  BY IndexStep
<1>3. QED BY <1>1, <1>2, EntitiesFollow, PTL DEF IndexSpec

(***************************************************************************)
(* Folds over a sequence                                                   *)
(***************************************************************************)

LEMMA MaxIn ==
  ASSUME NEW s, IsFiniteSet(s), s \subseteq Int, s # {}
  PROVE  Max(s) \in s
<1> DEFINE Above(x) == {y \in s : y >= x}
           B == {Above(x) : x \in s}
<1>1. B \subseteq SUBSET s /\ B # {}
  OBVIOUS
<1>2. PICK m \in B : \A U \in B : ~(U \subseteq m /\ U # m)
  <2> HIDE DEF B
  <2>1. QED BY ONLY <1>1, IsFiniteSet(s), MinimalSubset
<1>3. PICK x \in s : m = Above(x)
  OBVIOUS
<1>4. \A y \in s : x >= y
  <2> SUFFICES ASSUME NEW y \in s, ~(x >= y) PROVE FALSE
    OBVIOUS
  <2>1. x \in Int /\ y \in Int /\ y > x /\ Above(y) \in B /\ \A z \in s : z \in Int
    OBVIOUS
  <2>2. Above(y) \subseteq Above(x) /\ x \in Above(x) /\ x \notin Above(y)
    <3>1. \A z \in s : z >= y => z >= x
      BY ONLY <2>1
    <3>2. x >= x /\ ~(x >= y)
      BY ONLY <2>1
    <3> HIDE DEF B
    <3>3. QED BY <3>1, <3>2
  <2> HIDE DEF Above, B
  <2>3. QED BY <1>2, <1>3, <2>1, <2>2
<1>5. QED BY <1>4 DEF Max

LEMMA FirstParts ==
  ASSUME NEW n \in Nat, NEW k \in 1..n
  PROVE  /\ 1..k \in SUBSET (1..n) /\ 1..k # {} /\ Max(1..k) = k /\ (1..k) \ {k} = 1..(k - 1)
         /\ 1..(k - 1) \in SUBSET (1..n)
<1>1. 1..k \in SUBSET (1..n) /\ 1..k # {} /\ (1..k) \ {k} = 1..(k - 1) /\ 1..(k - 1) \in SUBSET (1..n)
  OBVIOUS
<1>2. IsFiniteSet(1..k) /\ 1..k \subseteq Int
  BY FS_Interval
<1>3. k \in 1..k /\ \A y \in 1..k : k >= y
  OBVIOUS
<1>4. Max(1..k) = k
  BY <1>3 DEF Max
<1>5. QED BY <1>1, <1>4

\* What a left fold of `step` over 1..n tabulates.
IsRun(g, step, base, n) ==
  g = [s \in SUBSET (1..n) |-> IF s = {} THEN base ELSE step[<<Max(s), g[s \ {Max(s)}]>>]]

LEMMA RunExists ==
  ASSUME NEW n \in Nat, NEW V, NEW base \in V, NEW step \in [(1..n) \X V -> V]
  PROVE  \E g \in [SUBSET (1..n) -> V] : IsRun(g, step, base, n)
<1> DEFINE S == 1..n
           pick == [s \in SUBSET S |-> Max(s)]
<1>1. IsFiniteSet(S) /\ S \subseteq Int
  BY FS_Interval
<1>2. \A s \in SUBSET S : s # {} => Max(s) \in s
  BY <1>1, FS_Subset, MaxIn
<1>3. \A s \in SUBSET S : pick[s] = Max(s) /\ (s # {} => pick[s] \in s)
  BY <1>2
<1> HIDE DEF pick
<1>4. PICK g \in [SUBSET S -> V] : IsFoldTable(g, step, base, pick, S)
  <2> HIDE DEF S
  <2>1. step \in [S \X V -> V]
    BY DEF S
  <2>2. QED BY <1>1, <1>3, <2>1, FoldTableExists
<1>5. \A s \in SUBSET S : g[s] = IF s = {} THEN base ELSE step[<<Max(s), g[s \ {Max(s)}]>>]
  <2> SUFFICES ASSUME NEW s \in SUBSET S
               PROVE  g[s] = IF s = {} THEN base ELSE step[<<Max(s), g[s \ {Max(s)}]>>]
    OBVIOUS
  <2>1. g[s] = IF s = {} THEN base ELSE step[<<pick[s], g[s \ {pick[s]}]>>]
    BY <1>4 DEF IsFoldTable
  <2>2. QED BY <1>3, <2>1
<1>6. g = [s \in SUBSET S |-> g[s]]
  OBVIOUS
<1>7. IsRun(g, step, base, n)
  BY <1>5, <1>6 DEF IsRun
<1>8. QED BY <1>7

(***************************************************************************)
(* The event streams                                                       *)
(***************************************************************************)

\* What the decoder of this subscription makes of its logs.
Payload == {Decode(e) : e \in {x \in EventType : x.name = topic}}

TellType == [Ids -> Seq(Payload)]

Named(e) == e \in EventType /\ (e.name \in Topics => e.id \in Ids)

\* What one log adds to what was heard of one action.
Hear(s, e, id) == IF e.name = topic /\ e.id = id THEN Append(s, Decode(e)) ELSE s

LEMMA DecodeIs ==
  ASSUME NEW e
  PROVE  /\ e.name = "ActionAnnounced" => (Decode(e).decision = "rescale" <=> e.kind # "CASH")
         /\ e.name = "MerkleRootPublished" => Decode(e).totalPayout = e.total
         /\ e.name = "ActionStatusChanged" =>
              Decode(e).previousStatus = e.prev /\ Decode(e).newStatus = e.new
         /\ e.name = "Funded" => Decode(e).amount = e.amount /\ Decode(e).totalFunded = e.total
         /\ e.name = "Claimed" => Decode(e).index = e.index /\ Decode(e).amount = e.amount
         /\ e.name = "UnclaimedSwept" => Decode(e).amount = e.amount
<1>1. e.name = "ActionAnnounced" => (Decode(e).decision = "rescale" <=> e.kind # "CASH")
  BY DEF Decode, Announcement, DecodeActionAnnounced, Decide
<1>2. e.name = "MerkleRootPublished" => Decode(e).totalPayout = e.total
  BY DEF Decode, DecodeMerkleRootPublished
<1>3. e.name = "ActionStatusChanged" => Decode(e).previousStatus = e.prev /\ Decode(e).newStatus = e.new
  BY DEF Decode, DecodeActionStatusChanged
<1>4. e.name = "Funded" => Decode(e).amount = e.amount /\ Decode(e).totalFunded = e.total
  BY DEF Decode, DecodeFunded
<1>5. e.name = "Claimed" => Decode(e).index = e.index /\ Decode(e).amount = e.amount
  BY DEF Decode, DecodeClaimed
<1>6. e.name = "UnclaimedSwept" => Decode(e).amount = e.amount
  BY DEF Decode, DecodeUnclaimedSwept
<1>7. QED BY <1>1, <1>2, <1>3, <1>4, <1>5, <1>6

\* The sum of what was told, as it grows.
LEMMA AmountTyped ==
  ASSUME topic \in {"Funded", "Claimed", "UnclaimedSwept"}, NEW p \in Payload
  PROVE  p.amount \in Int
<1>1. PICK e \in EventType : e.name = topic /\ p = Decode(e)
  BY DEF Payload
<1>2. p.amount = e.amount
  BY <1>1, DecodeIs
<1>3. QED BY <1>2 DEF EventType

Told(s) == [i \in DOMAIN s |-> s[i].amount]

LEMMA NothingTold == AmountTold(<<>>) = 0
<1>1. Told(<<>>) \in [{} -> Int] /\ DOMAIN <<>> = {}
  BY DEF Told
<1>2. AmountTold(<<>>) = SumFunctionOnSet(Told(<<>>), {})
  BY DEF AmountTold, SumFunction, Told
<1>3. QED BY <1>1, <1>2, SumEmpty

LEMMA TellAdds ==
  ASSUME NEW P, \A p \in P : p.amount \in Int, NEW s \in Seq(P), NEW x \in P
  PROVE  /\ AmountTold(Append(s, x)) = AmountTold(s) + x.amount
         /\ AmountTold(s) \in Int
<1> DEFINE r == Append(s, x)
           n == Len(s)
           S == 1..n + 1
<1>1. n \in Nat /\ DOMAIN s = 1..n /\ r \in Seq(P) /\ DOMAIN r = S /\ r[n + 1] = x
      /\ \A i \in 1..n : r[i] = s[i]
  OBVIOUS
<1>2. IsFiniteSet(S) /\ n + 1 \in S /\ S \ {n + 1} = 1..n /\ IsFiniteSet(1..n)
  <2>1. n \in Int /\ n + 1 \in Int /\ 1 \in Int
    BY <1>1
  <2>2. IsFiniteSet(S) /\ IsFiniteSet(1..n)
    BY <2>1, FS_Interval
  <2>3. n + 1 \in S /\ S \ {n + 1} = 1..n
    BY <1>1
  <2>4. QED BY <2>2, <2>3
<1> HIDE DEF r, n, S
<1>3. Told(s) \in [1..n -> Int] /\ Told(r) \in [S -> Int]
  <2>1. \A i \in 1..n : s[i] \in P
    BY <1>1
  <2>2. \A i \in S : r[i] \in P
    BY <1>1
  <2>3. QED BY <1>1, <2>1, <2>2 DEF Told
<1>4. Told(r)[n + 1] = x.amount /\ [y \in S \ {n + 1} |-> Told(r)[y]] = Told(s)
  <2>1. Told(r)[n + 1] = x.amount
    BY <1>1, <1>2 DEF Told
  <2>2. \A y \in 1..n : y \in S /\ Told(r)[y] = s[y].amount
    BY <1>1, <1>2 DEF Told
  <2>3. [y \in 1..n |-> Told(r)[y]] = [y \in 1..n |-> s[y].amount]
    BY <2>2
  <2>4. QED BY <1>1, <1>2, <2>1, <2>3 DEF Told
<1>5. AmountTold(r) = SumFunctionOnSet(Told(r), S) /\ AmountTold(s) = SumFunctionOnSet(Told(s), 1..n)
  <2>1. DOMAIN Told(r) = S /\ DOMAIN Told(s) = 1..n
    BY <1>3
  <2>2. AmountTold(r) = SumFunction(Told(r)) /\ AmountTold(s) = SumFunction(Told(s))
    BY DEF AmountTold, Told
  <2>3. QED BY <2>1, <2>2 DEF SumFunction
<1>6. SumFunctionOnSet(Told(s), 1..n) \in Int
  BY <1>2, <1>3, SumInt
<1>7. SumFunctionOnSet(Told(r), S) = x.amount + SumFunctionOnSet(Told(s), 1..n)
  <2> DEFINE f == Told(r)
             m == n + 1
  <2>1. IsFiniteSet(S) /\ f \in [S -> Int] /\ m \in S
    BY <1>2, <1>3
  <2>2. f[m] = x.amount /\ [y \in S \ {m} |-> f[y]] = Told(s) /\ S \ {m} = 1..n
    BY <1>2, <1>4
  <2> HIDE DEF f, m
  <2>3. SumFunctionOnSet(f, S) = f[m] + SumFunctionOnSet([y \in S \ {m} |-> f[y]], S \ {m})
    BY ONLY <2>1, SumOut
  <2>4. QED BY <2>2, <2>3 DEF f
<1>8. x.amount \in Int
  OBVIOUS
<1>9. QED BY <1>5, <1>6, <1>7, <1>8 DEF r

\* One log, handed on or passed over.
LEMMA HandOnHears ==
  ASSUME topic \in Topics, NEW told \in TellType, NEW e, Named(e)
  PROVE  HandOn(told, e) = [id \in Ids |-> Hear(told[id], e, id)] /\ HandOn(told, e) \in TellType
<1>1. told = [id \in Ids |-> told[id]] /\ \A id \in Ids : told[id] \in Seq(Payload)
  BY DEF TellType
<1>2. CASE e.name # topic
  BY <1>1, <1>2 DEF HandOn, Hear
<1>3. CASE e.name = topic
  <2>1. e.id \in Ids /\ e \in EventType /\ Decode(e) \in Payload
    BY <1>3 DEF Named, Payload
  <2> DEFINE x == Decode(e)
             k == e.id
  <2>2. HandOn(told, e) = [told EXCEPT ![k] = Append(@, x)]
    BY <1>3 DEF HandOn
  <2>3. \A id \in Ids : Hear(told[id], e, id) = IF id = k THEN Append(told[id], x) ELSE told[id]
    BY <1>3 DEF Hear
  <2> HIDE DEF x, k
  <2>4. x \in Payload /\ k \in Ids
    BY <2>1 DEF x, k
  <2>5. [told EXCEPT ![k] = Append(@, x)] = [id \in Ids |-> Hear(told[id], e, id)]
    BY <1>1, <2>3
  <2>6. \A id \in Ids : Append(told[id], x) \in Seq(Payload)
    <3> SUFFICES ASSUME NEW id \in Ids PROVE Append(told[id], x) \in Seq(Payload)
      OBVIOUS
    <3>1. told[id] \in Seq(Payload)
      BY <1>1
    <3>2. QED BY ONLY <2>4, <3>1
  <2>7. \A id \in Ids : Hear(told[id], e, id) \in Seq(Payload)
    <3> SUFFICES ASSUME NEW id \in Ids PROVE Hear(told[id], e, id) \in Seq(Payload)
      OBVIOUS
    <3>1. CASE id = k
      <4>1. Hear(told[id], e, id) = Append(told[id], x)
        BY <2>3, <3>1
      <4>2. QED BY <2>6, <4>1
    <3>2. CASE id # k
      <4>1. Hear(told[id], e, id) = told[id]
        BY <2>3, <3>2
      <4>2. QED BY <1>1, <4>1
    <3>3. QED BY <3>1, <3>2
  <2>8. HandOn(told, e) = [id \in Ids |-> Hear(told[id], e, id)]
    BY <2>2, <2>5
  <2>9. QED BY <2>7, <2>8 DEF TellType
<1>4. QED BY <1>2, <1>3

IsHeard(g, told, events) ==
  g = [s \in SUBSET DOMAIN events |->
         IF s = {} THEN told ELSE HandOn(g[s \ {Max(s)}], events[Max(s)])]

LEMMA HeardIsEntry ==
  ASSUME NEW told, NEW h
  PROVE  HandBlockOn(told, h) = (CHOOSE g : IsHeard(g, told, chain[h].events))[DOMAIN chain[h].events]
BY DEF HandBlockOn, FoldLeft, MapThenFoldSet, IsHeard

LEMMA HeardExists ==
  ASSUME topic \in Topics, NEW told \in TellType, NEW events \in Seq(EventType),
         \A i \in DOMAIN events : Named(events[i])
  PROVE  \E g : IsHeard(g, told, events)
<1> DEFINE n == Len(events)
           step == [p \in (1..n) \X TellType |-> HandOn(p[2], events[p[1]])]
<1>1. n \in Nat /\ DOMAIN events = 1..n
  OBVIOUS
<1>2. \A i \in 1..n, t \in TellType : HandOn(t, events[i]) \in TellType
  BY <1>1, HandOnHears
<1> HIDE DEF n
<1>3. step \in [(1..n) \X TellType -> TellType] /\ \A i \in 1..n, t \in TellType : step[<<i, t>>] = HandOn(t, events[i])
  BY <1>2
<1> HIDE DEF step
<1>4. PICK g \in [SUBSET (1..n) -> TellType] : IsRun(g, step, told, n)
  BY <1>1, <1>3, RunExists
<1>5. \A s \in SUBSET (1..n) : s # {} => Max(s) \in 1..n /\ s \ {Max(s)} \in SUBSET (1..n)
  <2>1. IsFiniteSet(1..n) /\ 1..n \subseteq Int
    BY <1>1, FS_Interval
  <2>2. QED BY <2>1, FS_Subset, MaxIn
<1>6. \A s \in SUBSET (1..n) : g[s] = IF s = {} THEN told ELSE HandOn(g[s \ {Max(s)}], events[Max(s)])
  <2> SUFFICES ASSUME NEW s \in SUBSET (1..n)
               PROVE  g[s] = IF s = {} THEN told ELSE HandOn(g[s \ {Max(s)}], events[Max(s)])
    OBVIOUS
  <2>1. g[s] = IF s = {} THEN told ELSE step[<<Max(s), g[s \ {Max(s)}]>>]
    BY <1>4 DEF IsRun
  <2>2. CASE s # {}
    <3>1. Max(s) \in 1..n /\ g[s \ {Max(s)}] \in TellType
      BY <1>5, <2>2
    <3>2. QED BY <1>3, <2>1, <2>2, <3>1
  <2>3. QED BY <2>1, <2>2
<1>7. g = [s \in SUBSET (1..n) |-> g[s]]
  OBVIOUS
<1>8. IsHeard(g, told, events)
  BY <1>1, <1>6, <1>7 DEF IsHeard
<1>9. QED BY <1>8

\* The loop over the logs of a block with at most two.
LEMMA BlockHears ==
  ASSUME topic \in Topics, NEW told \in TellType, NEW h, chain[h].events \in Seq(EventType),
         Len(chain[h].events) \in 0..2, \A i \in DOMAIN chain[h].events : Named(chain[h].events[i])
  PROVE  LET events == chain[h].events
         IN  /\ Len(events) = 0 => HandBlockOn(told, h) = told
             /\ Len(events) = 1 => HandBlockOn(told, h) = HandOn(told, events[1])
             /\ Len(events) = 2 => HandBlockOn(told, h) = HandOn(HandOn(told, events[1]), events[2])
<1> DEFINE events == chain[h].events
           g == CHOOSE g : IsHeard(g, told, events)
           n == Len(events)
<1>1. HandBlockOn(told, h) = g[DOMAIN events]
  BY HeardIsEntry
<1>2. IsHeard(g, told, events)
  BY HeardExists
<1>3. n \in Nat /\ DOMAIN events = 1..n
  OBVIOUS
<1> HIDE DEF g, events, n
<1>4. g[{}] = told
  BY <1>2 DEF IsHeard
<1>5. ASSUME NEW k \in 1..n
      PROVE  g[1..k] = HandOn(g[1..(k - 1)], events[k])
  <2>1. /\ 1..k \in SUBSET (1..n) /\ 1..k # {} /\ Max(1..k) = k /\ (1..k) \ {k} = 1..(k - 1)
    BY <1>3, FirstParts
  <2>2. g[1..k] = HandOn(g[(1..k) \ {Max(1..k)}], events[Max(1..k)])
    BY <1>2, <1>3, <2>1 DEF IsHeard
  <2>3. QED BY <2>1, <2>2
<1>6. n = 0 => g[1..n] = told
  <2>1. 1..0 = {}
    OBVIOUS
  <2>2. QED BY <1>4, <2>1
<1>7. n \in {1, 2} => g[1..1] = HandOn(told, events[1])
  <2>1. 1 \in Nat /\ 1 - 1 = 0 /\ 1..0 = {} /\ (n \in {1, 2} => 1 \in 1..n)
    OBVIOUS
  <2>2. QED BY <1>4, <1>5, <2>1
<1>8. n = 2 => g[1..2] = HandOn(HandOn(told, events[1]), events[2])
  <2>1. 2 - 1 = 1 /\ (n = 2 => 2 \in 1..n)
    OBVIOUS
  <2>2. QED BY <1>5, <1>7, <2>1
<1>9. QED BY <1>1, <1>3, <1>6, <1>7, <1>8 DEF events, n

\* What stays once it is so.
Onward(old, new) ==
  /\ old.status # "NONE" => new.status # "NONE"
  /\ old.status = "FINALIZED" => new.status = "FINALIZED"

\* A step this stream does not mention, and one it does.
Silent(old, new) ==
  /\ topic = "ActionAnnounced" => old.status # "NONE" /\ new.status # "NONE" /\ new.kind = old.kind
  /\ topic = "MerkleRootPublished" => new.goal = old.goal
  /\ topic = "ActionStatusChanged" =>
       new.status = old.status \/ (old.status = "NONE" /\ new.status = "ANNOUNCED")
  /\ topic = "Funded" =>
       old.status # "CANCELLED" /\ (new.funded = old.funded \/ new.status = "CANCELLED")
  /\ topic = "Claimed" => new.claimed = old.claimed /\ new.paid = old.paid
  /\ topic = "UnclaimedSwept" => old.status # "FINALIZED" /\ new.status # "FINALIZED"

Spoken(old, new, e) ==
  /\ topic = "ActionAnnounced" => old.status = "NONE" /\ new.status # "NONE" /\ e.kind = new.kind
  /\ topic = "MerkleRootPublished" => old.goal = 0 /\ new.goal > 0 /\ e.total = new.goal
  /\ topic = "ActionStatusChanged" =>
       old.status # "NONE" /\ new.status # "NONE" /\ e.prev = old.status /\ e.new = new.status
  /\ topic = "Funded" =>
       old.status # "CANCELLED" /\ new.funded = old.funded + e.amount /\ e.total = new.funded
  /\ topic = "Claimed" => new.claimed = old.claimed + e.amount /\ new.paid = old.paid \cup {e.index}
  /\ topic = "UnclaimedSwept" =>
       old.status # "FINALIZED" /\ new.status = "FINALIZED" /\ e.amount = new.funded - new.claimed

\* An operation adds at most one log to a stream.
LEMMA OneSpeaks ==
  ASSUME topic \in Topics, NEW id, NEW old \in Entry, NEW new \in Entry, EntryOK(old), EntryOK(new),
         NEW e \in EventType, TurnOfOne(id, old, new, e)
  PROVE  /\ e.name # topic => Silent(old, new)
         /\ e.name = topic => Spoken(old, new, e)
         /\ Onward(old, new)
<1>1. CASE Announces(id, old, new, e)
  BY <1>1 DEF Announces, IsLog, Silent, Spoken, Onward, Entry, Topics
<1>2. CASE Funds(id, old, new, e) /\ new.status = old.status
  BY <1>2 DEF Funds, IsLog, Silent, Spoken, Onward, Entry, Topics
<1>3. CASE Pays(id, old, new, e)
  BY <1>3 DEF Pays, IsLog, Silent, Spoken, Onward, Entry, Topics
<1>4. CASE Voids(id, old, new, e)
  BY <1>4 DEF Voids, IsLog, IsStatusLog, Silent, Spoken, Onward, Entry, Topics
<1>5. QED BY <1>1, <1>2, <1>3, <1>4 DEF TurnOfOne

LEMMA OneOfTwoSpeaks ==
  ASSUME topic \in Topics, NEW id, NEW old \in Entry, NEW new \in Entry, EntryOK(old), EntryOK(new),
         NEW e \in EventType, NEW f \in EventType, TurnOfTwo(id, old, new, e, f)
  PROVE  /\ e.name # topic \/ f.name # topic
         /\ e.name # topic /\ f.name # topic => Silent(old, new)
         /\ e.name = topic => Spoken(old, new, e)
         /\ f.name = topic => Spoken(old, new, f)
         /\ Onward(old, new)
<1>1. CASE Publishes(id, old, new, e, f)
  BY <1>1 DEF Publishes, IsLog, IsStatusLog, Silent, Spoken, Onward, Entry, EntryOK, Topics
<1>2. CASE Funds(id, old, new, e) /\ IsStatusLog(f, id, old, new)
  BY <1>2 DEF Funds, IsLog, IsStatusLog, Silent, Spoken, Onward, Entry, Topics
<1>3. CASE Sweeps(id, old, new, e, f)
  BY <1>3 DEF Sweeps, IsLog, IsStatusLog, Silent, Spoken, Onward, Entry, Topics
<1>4. CASE Voids(id, old, new, e) /\ IsLog(f, "PublishedActionCancelled", id)
  BY <1>4 DEF Voids, IsLog, IsStatusLog, Silent, Spoken, Onward, Entry, Topics
<1>5. QED BY <1>1, <1>2, <1>3, <1>4 DEF TurnOfTwo

\* Follows, and what it takes to go on: no stream says a thing twice, and the
\* deposits told are those made until a cancellation.
Tells(old, new, told) ==
  /\ Onward(old, new)
  /\ Follows(old, new, told)
  /\ topic = "MerkleRootPublished" /\ told # <<>> => new.goal > 0
  /\ topic = "ActionStatusChanged" /\ told # <<>> => new.status # "NONE"
  /\ topic = "Funded" /\ new.status # "CANCELLED" => new.funded = old.funded + AmountTold(told)

LEMMA StartsTelling ==
  ASSUME topic' \in Topics, NEW e \in Entry
  PROVE  Tells(e, e, <<>>)'
<1>1. e.funded \in Int /\ e.claimed \in Int
  BY DEF Entry
<1> DEFINE s == <<>>
<1>2. s = <<>> /\ Len(s) = 0 /\ DOMAIN s = {} /\ AmountTold(s) = 0
  BY NothingTold
<1> HIDE DEF s
<1>3. Follows(e, e, s)'
  <2>1. CASE topic' = "ActionAnnounced"
    BY <1>2, <2>1 DEF Follows
  <2>2. CASE topic' = "MerkleRootPublished"
    BY <1>2, <2>2 DEF Follows
  <2>3. CASE topic' = "ActionStatusChanged"
    <3>1. \A i : i \notin 2..Len(s)
      BY <1>2
    <3>2. QED BY <1>2, <2>3, <3>1 DEF Follows
  <2>4. CASE topic' = "Funded"
    BY <1>2, <2>4 DEF Follows
  <2>5. CASE topic' = "Claimed"
    <3>1. {s[i].index : i \in DOMAIN s} = {}
      BY <1>2
    <3>2. QED BY <1>1, <1>2, <2>5, <3>1 DEF Follows
  <2>6. CASE topic' = "UnclaimedSwept"
    BY <1>2, <2>6 DEF Follows
  <2>7. QED BY <2>1, <2>2, <2>3, <2>4, <2>5, <2>6 DEF Topics
<1>4. Tells(e, e, s)'
  BY <1>1, <1>2, <1>3 DEF Tells, Onward
<1>5. QED BY <1>4 DEF s

\* What the stream says nothing of leaves it right.
LEMMA TellsSilently ==
  ASSUME topic \in Topics, NEW old \in Entry, NEW cur \in Entry, NEW new \in Entry,
         NEW s \in Seq(Payload), Tells(old, cur, s), Silent(cur, new), Onward(cur, new)
  PROVE  Tells(old, new, s)
<1>1. Onward(old, new)
  BY DEF Tells, Onward
<1>2. Follows(old, cur, s) /\ Len(s) \in Nat /\ DOMAIN s = 1..Len(s) /\ (s = <<>> <=> Len(s) = 0)
  BY DEF Tells
<1>3. CASE topic = "ActionAnnounced"
  BY <1>1, <1>2, <1>3 DEF Follows, Silent, Tells
<1>4. CASE topic = "MerkleRootPublished"
  BY <1>1, <1>2, <1>4 DEF Follows, Silent, Tells
<1>5. CASE topic = "ActionStatusChanged"
  BY <1>1, <1>2, <1>5 DEF Follows, Silent, Tells, Onward
<1>6. CASE topic = "Funded"
  BY <1>1, <1>2, <1>6 DEF Follows, Silent, Tells
<1>7. CASE topic = "Claimed"
  BY <1>1, <1>2, <1>7 DEF Follows, Silent, Tells
<1>8. CASE topic = "UnclaimedSwept"
  <2>1. Len(s) = 0 /\ s = <<>>
    BY <1>2, <1>8 DEF Follows, Silent
  <2>2. AmountTold(s) = 0
    BY <2>1, NothingTold
  <2>3. QED BY <1>1, <1>2, <1>8, <2>1, <2>2 DEF Follows, Silent, Tells
<1>9. QED BY <1>3, <1>4, <1>5, <1>6, <1>7, <1>8 DEF Topics

\* A sequence and one thing more.
LEMMA OneMore ==
  ASSUME NEW P, NEW s \in Seq(P), NEW x \in P
  PROVE  LET r == Append(s, x)
         IN  /\ r \in Seq(P) /\ Len(r) = Len(s) + 1 /\ DOMAIN r = 1..Len(s) + 1 /\ r # <<>>
             /\ r[Len(s) + 1] = x /\ \A i \in 1..Len(s) : r[i] = s[i]
             /\ Len(s) \in Nat /\ DOMAIN s = 1..Len(s) /\ (s = <<>> <=> Len(s) = 0)
OBVIOUS

LEMMA TellsAloud ==
  ASSUME topic \in Topics, NEW old \in Entry, NEW cur \in Entry, NEW new \in Entry,
         NEW s \in Seq(Payload), Tells(old, cur, s), NEW e \in EventType, e.name = topic,
         Spoken(cur, new, e), Onward(cur, new)
  PROVE  Tells(old, new, Append(s, Decode(e)))
<1> DEFINE x == Decode(e)
           r == Append(s, x)
           n == Len(s)
<1>1. Onward(old, new)
  BY DEF Tells, Onward
<1>2. x \in Payload
  BY DEF Payload
<1>3. /\ r \in Seq(Payload) /\ Len(r) = n + 1 /\ DOMAIN r = 1..n + 1 /\ r # <<>>
      /\ r[n + 1] = x /\ \A i \in 1..n : r[i] = s[i]
      /\ n \in Nat /\ DOMAIN s = 1..n /\ (s = <<>> <=> n = 0)
  <2> HIDE DEF x
  <2>1. QED BY <1>2, OneMore
<1>4. topic \in {"Funded", "Claimed", "UnclaimedSwept"} =>
        AmountTold(r) = AmountTold(s) + x.amount /\ AmountTold(s) \in Int /\ x.amount \in Int
  <2> SUFFICES ASSUME topic \in {"Funded", "Claimed", "UnclaimedSwept"}
               PROVE  AmountTold(r) = AmountTold(s) + x.amount /\ AmountTold(s) \in Int /\ x.amount \in Int
    OBVIOUS
  <2>1. \A p \in Payload : p.amount \in Int
    BY AmountTyped
  <2> HIDE DEF x
  <2>2. QED BY <1>2, <2>1, TellAdds
<1>5. Follows(old, cur, s)
  BY DEF Tells
<1>6. CASE topic = "ActionAnnounced"
  <2>1. x.decision = "rescale" <=> e.kind # "CASH"
    BY <1>6, DecodeIs
  <2>2. old.status = "NONE" /\ cur.status = "NONE" /\ new.status # "NONE" /\ e.kind = new.kind
    BY <1>6 DEF Spoken, Tells, Onward
  <2> HIDE DEF x, r, n
  <2>3. n = 0
    BY <1>5, <1>6, <2>2 DEF Follows, n
  <2>4. Follows(old, new, r)
    BY <1>3, <1>6, <2>1, <2>2, <2>3 DEF Follows
  <2>5. QED BY <1>1, <1>6, <2>4 DEF Tells, r, x
<1>7. CASE topic = "MerkleRootPublished"
  <2>1. x.totalPayout = e.total
    BY <1>7, DecodeIs
  <2>2. s = <<>> /\ new.goal > 0 /\ e.total = new.goal
    BY <1>7 DEF Spoken, Tells, Entry
  <2> HIDE DEF x, r, n
  <2>3. Follows(old, new, r)
    BY <1>3, <1>7, <2>1, <2>2 DEF Follows
  <2>4. QED BY <1>1, <1>7, <2>2, <2>3 DEF Tells, r, x
<1>8. CASE topic = "ActionStatusChanged"
  <2>1. x.previousStatus = e.prev /\ x.newStatus = e.new
    BY <1>8, DecodeIs
  <2>2. cur.status # "NONE" /\ new.status # "NONE" /\ e.prev = cur.status /\ e.new = new.status
    BY <1>8 DEF Spoken
  <2> HIDE DEF x, r
  <2>3. \/ n = 0 /\ (cur.status = old.status \/ <<old.status, cur.status>> = <<"NONE", "ANNOUNCED">>)
        \/ /\ n # 0
           /\ s[1].previousStatus = IF old.status = "NONE" THEN "ANNOUNCED" ELSE old.status
           /\ s[n].newStatus = cur.status
    BY <1>3, <1>5, <1>8 DEF Follows
  <2>4. \A i \in 2..n : s[i].previousStatus = s[i - 1].newStatus
    BY <1>5, <1>8 DEF Follows
  <2> HIDE DEF n
  <2>5. \A i \in 2..n + 1 : r[i].previousStatus = r[i - 1].newStatus
    <3> SUFFICES ASSUME NEW i \in 2..n + 1 PROVE r[i].previousStatus = r[i - 1].newStatus
      OBVIOUS
    <3>1. CASE i = n + 1
      <4>1. n # 0 /\ i - 1 = n /\ n \in 1..n
        BY <1>3, <3>1
      <4>2. r[i] = x /\ r[i - 1] = s[n]
        BY <1>3, <3>1, <4>1
      <4>3. QED BY <2>1, <2>2, <2>3, <4>1, <4>2
    <3>2. CASE i # n + 1
      <4>1. i \in 1..n /\ i - 1 \in 1..n /\ i \in 2..n
        BY <1>3, <3>2
      <4>2. r[i] = s[i] /\ r[i - 1] = s[i - 1]
        BY <1>3, <4>1
      <4>3. QED BY <2>4, <4>1, <4>2
    <3>3. QED BY <3>1, <3>2
  <2>6. r[1].previousStatus = IF old.status = "NONE" THEN "ANNOUNCED" ELSE old.status
    <3>1. CASE n = 0
      <4>1. r[1] = x
        BY <1>3, <3>1
      <4>2. QED BY <2>1, <2>2, <2>3, <3>1, <4>1
    <3>2. CASE n # 0
      <4>1. r[1] = s[1]
        BY <1>3, <3>2
      <4>2. QED BY <2>3, <3>2, <4>1
    <3>3. QED BY <3>1, <3>2
  <2>7. Follows(old, new, r)
    BY <1>3, <1>8, <2>1, <2>2, <2>5, <2>6 DEF Follows
  <2>8. QED BY <1>1, <1>8, <2>2, <2>7 DEF Tells, r, x
<1>9. CASE topic = "Funded"
  <2>1. x.amount = e.amount /\ x.totalFunded = e.total
    BY <1>9, DecodeIs
  <2>2. cur.status # "CANCELLED" /\ new.funded = cur.funded + e.amount /\ e.total = new.funded
    BY <1>9 DEF Spoken
  <2>3. cur.funded = old.funded + AmountTold(s) /\ old.funded \in Int /\ cur.funded \in Int /\ new.funded \in Int
    BY <1>9, <2>2 DEF Tells, Entry
  <2>4. AmountTold(r) = AmountTold(s) + e.amount /\ AmountTold(s) \in Int /\ e.amount \in Int
    BY <1>4, <1>9, <2>1
  <2> HIDE DEF x, r, n
  <2>5. new.funded = old.funded + AmountTold(r)
    BY <2>2, <2>3, <2>4
  <2>6. Follows(old, new, r)
    BY <1>3, <1>9, <2>1, <2>2, <2>5 DEF Follows
  <2>7. QED BY <1>1, <1>9, <2>5, <2>6 DEF Tells, r, x
<1>10. CASE topic = "Claimed"
  <2>1. x.index = e.index /\ x.amount = e.amount
    BY <1>10, DecodeIs
  <2>2. new.claimed = cur.claimed + e.amount /\ new.paid = cur.paid \cup {e.index}
    BY <1>10 DEF Spoken
  <2>3. /\ cur.claimed = old.claimed + AmountTold(s) /\ old.claimed \in Int
        /\ cur.paid = old.paid \cup {s[i].index : i \in DOMAIN s}
    BY <1>5, <1>10 DEF Follows, Entry
  <2>4. AmountTold(r) = AmountTold(s) + e.amount /\ AmountTold(s) \in Int /\ e.amount \in Int
    BY <1>4, <1>10, <2>1
  <2> HIDE DEF x, r, n
  <2>5. new.claimed = old.claimed + AmountTold(r)
    BY <2>2, <2>3, <2>4
  <2>6. {r[i].index : i \in DOMAIN r} = {s[i].index : i \in DOMAIN s} \cup {e.index}
    <3>1. \A i \in 1..n + 1 : i = n + 1 \/ i \in 1..n
      BY <1>3
    <3>2. \A i \in 1..n : i \in 1..n + 1
      BY <1>3
    <3>3. n + 1 \in 1..n + 1
      BY <1>3
    <3>4. QED BY <1>3, <2>1, <3>1, <3>2, <3>3
  <2>7. Follows(old, new, r)
    BY <1>10, <2>2, <2>3, <2>5, <2>6 DEF Follows
  <2>8. QED BY <1>1, <1>10, <2>7 DEF Tells, r, x
<1>11. CASE topic = "UnclaimedSwept"
  <2>1. x.amount = e.amount
    BY <1>11, DecodeIs
  <2>2. cur.status # "FINALIZED" /\ new.status = "FINALIZED" /\ e.amount = new.funded - new.claimed
    BY <1>11 DEF Spoken
  <2>3. old.status # "FINALIZED" /\ n = 0 /\ s = <<>>
    BY <1>3, <1>5, <1>11, <2>2 DEF Follows, Tells, Onward
  <2>4. AmountTold(r) = e.amount
    BY <1>4, <1>11, <2>1, <2>3, NothingTold
  <2> HIDE DEF x, r, n
  <2>5. Follows(old, new, r)
    BY <1>3, <1>11, <2>2, <2>3, <2>4 DEF Follows
  <2>6. QED BY <1>1, <1>11, <2>5 DEF Tells, r, x
<1>12. QED BY <1>6, <1>7, <1>8, <1>9, <1>10, <1>11 DEF Topics

LEMMA LinkedNamed ==
  ASSUME NEW b, NEW c, NEW events \in Seq(EventType), Linked(b, c, events)
  PROVE  Len(events) \in 0..2 /\ \A i \in DOMAIN events : Named(events[i])
<1>1. DOMAIN events = 1..Len(events) /\ \A i \in DOMAIN events : events[i] \in EventType
  OBVIOUS
<1>2. CASE Quiet(events)
  <2>1. Len(events) \in 0..1 /\ \A i \in DOMAIN events : events[i].name \notin Topics
    BY <1>1, <1>2 DEF Quiet, Topics
  <2>2. QED BY <1>1, <2>1 DEF Named
<1>3. ASSUME NEW id \in Ids, Turn(id, b[id], c[id], events)
      PROVE  Len(events) \in 0..2 /\ \A i \in DOMAIN events : Named(events[i])
  <2>1. CASE Len(events) = 1 /\ TurnOfOne(id, b[id], c[id], events[1])
    <3>1. events[1].id = id
      BY <2>1 DEF TurnOfOne, Announces, Funds, Pays, Voids, IsStatusLog, IsLog
    <3>2. QED BY <1>1, <2>1, <3>1 DEF Named
  <2>2. CASE Len(events) = 2 /\ TurnOfTwo(id, b[id], c[id], events[1], events[2])
    <3>1. events[1].id = id /\ events[2].id = id
      BY <2>2 DEF TurnOfTwo, Publishes, Funds, Sweeps, Voids, IsStatusLog, IsLog
    <3>2. \A i \in DOMAIN events : i = 1 \/ i = 2
      BY <1>1, <2>2
    <3>3. QED BY <1>1, <2>2, <3>1, <3>2 DEF Named
  <2>3. QED BY <1>3, <2>1, <2>2 DEF Turn
<1>4. QED BY <1>2, <1>3 DEF Linked

\* From the book of one block to that of the next, every stream stays right.
LEMMA BlockTells ==
  ASSUME topic \in Topics, NEW told \in TellType, NEW h, chain[h].events \in Seq(EventType),
         NEW a, NEW b, NEW c, BookOK(a), BookOK(b), BookOK(c), Linked(b, c, chain[h].events),
         \A id \in Ids : Tells(a[id], b[id], told[id])
  PROVE  /\ HandBlockOn(told, h) \in TellType
         /\ \A id \in Ids : Tells(a[id], c[id], HandBlockOn(told, h)[id])
<1> DEFINE events == chain[h].events
           e == events[1]
           f == events[2]
           t == HandOn(told, e)
           u == HandOn(t, f)
           r == HandBlockOn(told, h)
<1>1. Len(events) \in 0..2 /\ \A i \in DOMAIN events : Named(events[i])
  BY LinkedNamed
<1>2. /\ Len(events) = 0 => r = told
      /\ Len(events) = 1 => r = t
      /\ Len(events) = 2 => r = u
  BY <1>1, BlockHears
<1>3. DOMAIN events = 1..Len(events)
  OBVIOUS
<1>4. /\ Len(events) \in {1, 2} => Named(e)
      /\ Len(events) = 2 => Named(f)
  BY <1>1, <1>3
<1> HIDE DEF events, e, f, r
<1>5. Len(events) \in {1, 2} => t = [id \in Ids |-> Hear(told[id], e, id)] /\ t \in TellType
  BY <1>4, HandOnHears
<1> HIDE DEF t
<1>6. Len(events) = 2 => u = [id \in Ids |-> Hear(t[id], f, id)] /\ u \in TellType
  BY <1>4, <1>5, HandOnHears
<1> HIDE DEF u
<1>7. r \in TellType
  BY <1>1, <1>2, <1>5, <1>6
<1>8. /\ a \in [Ids -> Entry] /\ b \in [Ids -> Entry] /\ c \in [Ids -> Entry]
      /\ \A id \in Ids : EntryOK(a[id]) /\ EntryOK(b[id]) /\ EntryOK(c[id])
      /\ \A id \in Ids : told[id] \in Seq(Payload)
  BY DEF BookOK, TellType
<1>9. CASE c = b /\ Quiet(events)
  <2>1. Len(events) = 1 => e.name # topic
    BY <1>9 DEF Quiet, Topics, e
  <2>2. Len(events) \in {0, 1}
    BY <1>9 DEF Quiet
  <2>3. \A id \in Ids : r[id] = told[id]
    BY <1>2, <1>5, <2>1, <2>2 DEF Hear
  <2>4. QED BY <1>7, <1>9, <2>3 DEF r
<1>10. ASSUME NEW id \in Ids, Turn(id, b[id], c[id], events), \A k \in Ids \ {id} : c[k] = b[k]
       PROVE  \A k \in Ids : Tells(a[k], c[k], r[k])
  <2>1. CASE Len(events) = 1 /\ TurnOfOne(id, b[id], c[id], e)
    <3>1. e.id = id /\ e \in EventType
      BY <1>4, <2>1 DEF TurnOfOne, Announces, Funds, Pays, Voids, IsStatusLog, IsLog, Named
    <3>2. \A k \in Ids : r[k] = Hear(told[k], e, k)
      BY <1>2, <1>5, <2>1
    <3>3. /\ e.name # topic => Silent(b[id], c[id])
          /\ e.name = topic => Spoken(b[id], c[id], e)
          /\ Onward(b[id], c[id])
      BY <1>8, <2>1, <3>1, OneSpeaks
    <3>4. Tells(a[id], c[id], r[id])
      <4>1. CASE e.name # topic
        <5>1. r[id] = told[id]
          BY <3>2, <4>1 DEF Hear
        <5>2. QED BY <1>8, <3>3, <4>1, <5>1, TellsSilently
      <4>2. CASE e.name = topic
        <5>1. r[id] = Append(told[id], Decode(e))
          BY <3>1, <3>2, <4>2 DEF Hear
        <5>2. QED BY <1>8, <3>1, <3>3, <4>2, <5>1, TellsAloud
      <4>3. QED BY <4>1, <4>2
    <3>5. ASSUME NEW k \in Ids, k # id PROVE Tells(a[k], c[k], r[k])
      <4>1. r[k] = told[k] /\ c[k] = b[k]
        BY <1>10, <3>1, <3>2, <3>5 DEF Hear
      <4>2. QED BY <4>1
    <3>6. QED BY <3>4, <3>5
  <2>2. CASE Len(events) = 2 /\ TurnOfTwo(id, b[id], c[id], e, f)
    <3>1. e.id = id /\ f.id = id /\ e \in EventType /\ f \in EventType
      BY <1>4, <2>2 DEF TurnOfTwo, Publishes, Funds, Sweeps, Voids, IsStatusLog, IsLog, Named
    <3>2. \A k \in Ids : r[k] = Hear(Hear(told[k], e, k), f, k)
      BY <1>2, <1>5, <1>6, <2>2
    <3>3. /\ e.name # topic \/ f.name # topic
          /\ e.name # topic /\ f.name # topic => Silent(b[id], c[id])
          /\ e.name = topic => Spoken(b[id], c[id], e)
          /\ f.name = topic => Spoken(b[id], c[id], f)
          /\ Onward(b[id], c[id])
      BY <1>8, <2>2, <3>1, OneOfTwoSpeaks
    <3>4. Tells(a[id], c[id], r[id])
      <4>1. CASE e.name # topic /\ f.name # topic
        <5>1. r[id] = told[id]
          BY <3>2, <4>1 DEF Hear
        <5>2. QED BY <1>8, <3>3, <4>1, <5>1, TellsSilently
      <4>2. CASE e.name = topic
        <5>1. r[id] = Append(told[id], Decode(e))
          BY <3>1, <3>2, <3>3, <4>2 DEF Hear
        <5>2. QED BY <1>8, <3>1, <3>3, <4>2, <5>1, TellsAloud
      <4>3. CASE e.name # topic /\ f.name = topic
        <5>1. r[id] = Append(told[id], Decode(f))
          BY <3>1, <3>2, <4>3 DEF Hear
        <5>2. QED BY <1>8, <3>1, <3>3, <4>3, <5>1, TellsAloud
      <4>4. QED BY <4>1, <4>2, <4>3
    <3>5. ASSUME NEW k \in Ids, k # id PROVE Tells(a[k], c[k], r[k])
      <4>1. r[k] = told[k] /\ c[k] = b[k]
        BY <1>10, <3>1, <3>2, <3>5 DEF Hear
      <4>2. QED BY <4>1
    <3>6. QED BY <3>4, <3>5
  <2>3. QED BY <1>10, <2>1, <2>2 DEF Turn, e, f
<1>11. QED BY <1>7, <1>9, <1>10 DEF Linked, events, r

\* What the loop over a batch tabulates.
IsBatch(g, told, from, n) ==
  g = [s \in SUBSET (1..n) |->
         IF s = {} THEN told ELSE HandBlockOn(g[s \ {Max(s)}], [i \in 1..n |-> from + i][Max(s)])]

LEMMA BatchIsEntry ==
  ASSUME NEW told, NEW from, NEW n
  PROVE  FoldLeft(HandBlockOn, told, [i \in 1..n |-> from + i])
           = (CHOOSE g : IsBatch(g, told, from, n))[1..n]
<1> DEFINE l == [i \in 1..n |-> from + i]
<1>1. DOMAIN l = 1..n
  OBVIOUS
<1> HIDE DEF l
<1>2. FoldLeft(HandBlockOn, told, l)
        = (CHOOSE g : g = [s \in SUBSET DOMAIN l |->
                             IF s = {} THEN told ELSE HandBlockOn(g[s \ {Max(s)}], l[Max(s)])])[DOMAIN l]
  BY DEF FoldLeft, MapThenFoldSet
<1>3. QED BY <1>1, <1>2 DEF IsBatch, l

LEMMA BlockTyped ==
  ASSUME topic \in Topics, NEW told \in TellType, NEW h, chain[h].events \in Seq(EventType),
         NEW b, NEW c, Linked(b, c, chain[h].events)
  PROVE  HandBlockOn(told, h) \in TellType
<1> DEFINE events == chain[h].events
           e == events[1]
           f == events[2]
           t == HandOn(told, e)
           u == HandOn(t, f)
<1>1. Len(events) \in 0..2 /\ \A i \in DOMAIN events : Named(events[i])
  BY LinkedNamed
<1>2. /\ Len(events) = 0 => HandBlockOn(told, h) = told
      /\ Len(events) = 1 => HandBlockOn(told, h) = t
      /\ Len(events) = 2 => HandBlockOn(told, h) = u
  BY <1>1, BlockHears
<1>3. DOMAIN events = 1..Len(events)
  OBVIOUS
<1>4. /\ Len(events) \in {1, 2} => Named(e)
      /\ Len(events) = 2 => Named(f)
  BY <1>1, <1>3
<1> HIDE DEF events, e, f
<1>5. Len(events) \in {1, 2} => t \in TellType
  BY <1>4, HandOnHears
<1> HIDE DEF t
<1>6. Len(events) = 2 => u \in TellType
  BY <1>4, <1>5, HandOnHears
<1>7. QED BY <1>1, <1>2, <1>5, <1>6

LEMMA BatchExists ==
  ASSUME topic \in Topics, LinkInv, NEW told \in TellType, NEW from \in Nat, NEW n \in Nat,
         from + n <= Len(chain)
  PROVE  \E g : IsBatch(g, told, from, n)
<1> DEFINE l == [i \in 1..n |-> from + i]
           step == [p \in (1..n) \X TellType |-> HandBlockOn(p[2], l[p[1]])]
<1>1. \A i \in 1..n : l[i] = from + i /\ from + i \in 1..Len(chain)
  BY DEF LinkInv
<1> HIDE DEF l
<1>2. \A i \in 1..n, t \in TellType : HandBlockOn(t, l[i]) \in TellType
  <2> SUFFICES ASSUME NEW i \in 1..n, NEW t \in TellType PROVE HandBlockOn(t, l[i]) \in TellType
    OBVIOUS
  <2> DEFINE h == from + i
  <2>1. l[i] = h /\ h \in 1..Len(chain)
    BY <1>1
  <2> HIDE DEF h
  <2>2. chain[h] \in BlockType /\ Linked(StateAt(h - 1).book, chain[h].book, chain[h].events)
    BY <2>1 DEF LinkInv
  <2>3. chain[h].events \in Seq(EventType)
    BY <2>2 DEF BlockType
  <2>4. QED BY <2>1, <2>2, <2>3, BlockTyped
<1>3. step \in [(1..n) \X TellType -> TellType]
      /\ \A i \in 1..n, t \in TellType : step[<<i, t>>] = HandBlockOn(t, l[i])
  BY <1>2
<1> HIDE DEF step
<1>4. PICK g \in [SUBSET (1..n) -> TellType] : IsRun(g, step, told, n)
  BY <1>3, RunExists
<1>5. \A s \in SUBSET (1..n) : s # {} => Max(s) \in 1..n /\ s \ {Max(s)} \in SUBSET (1..n)
  <2>1. IsFiniteSet(1..n) /\ 1..n \subseteq Int
    BY FS_Interval
  <2>2. QED BY <2>1, FS_Subset, MaxIn
<1>6. \A s \in SUBSET (1..n) : g[s] = IF s = {} THEN told ELSE HandBlockOn(g[s \ {Max(s)}], l[Max(s)])
  <2> SUFFICES ASSUME NEW s \in SUBSET (1..n)
               PROVE  g[s] = IF s = {} THEN told ELSE HandBlockOn(g[s \ {Max(s)}], l[Max(s)])
    OBVIOUS
  <2>1. g[s] = IF s = {} THEN told ELSE step[<<Max(s), g[s \ {Max(s)}]>>]
    BY <1>4 DEF IsRun
  <2>2. CASE s # {}
    <3>1. Max(s) \in 1..n /\ g[s \ {Max(s)}] \in TellType
      BY <1>5, <2>2
    <3>2. QED BY <1>3, <2>1, <2>2, <3>1
  <2>3. QED BY <2>1, <2>2
<1>7. g = [s \in SUBSET (1..n) |-> g[s]]
  OBVIOUS
<1>8. IsBatch(g, told, from, n)
  BY <1>6, <1>7 DEF IsBatch, l
<1>9. QED BY <1>8

LEMMA BooksSound ==
  ASSUME FeedAssumption, LinkInv, NEW h \in 0..Len(chain)
  PROVE  BookOK(StateAt(h).book)
BY BlankOK DEF LinkInv, StateAt, NoBlock

\* However a batch is cut, the streams stay right.
LEMMA BatchTells ==
  ASSUME FeedAssumption, LinkInv, topic \in Topics, NEW told \in TellType, NEW from \in Nat, NEW n \in Nat,
         from + n <= Len(chain), NEW a, BookOK(a),
         \A id \in Ids : Tells(a[id], StateAt(from).book[id], told[id])
  PROVE  LET r == FoldLeft(HandBlockOn, told, [i \in 1..n |-> from + i])
         IN  /\ r \in TellType
             /\ \A id \in Ids : Tells(a[id], StateAt(from + n).book[id], r[id])
<1> DEFINE g == CHOOSE g : IsBatch(g, told, from, n)
           r == FoldLeft(HandBlockOn, told, [i \in 1..n |-> from + i])
           Right(k) == /\ g[1..k] \in TellType
                       /\ \A id \in Ids : Tells(a[id], StateAt(from + k).book[id], g[1..k][id])
           Bad == {s \in SUBSET (1..n) : \E k \in 0..n : s = 1..k /\ ~Right(k)}
<1>1. IsBatch(g, told, from, n)
  BY BatchExists
<1>2. r = g[1..n]
  BY BatchIsEntry
<1> HIDE DEF g, r
<1>3. g[{}] = told
  BY <1>1 DEF IsBatch
<1>4. ASSUME NEW k \in 1..n
      PROVE  g[1..k] = HandBlockOn(g[1..(k - 1)], from + k)
  <2>1. 1..k \in SUBSET (1..n) /\ 1..k # {} /\ Max(1..k) = k /\ (1..k) \ {k} = 1..(k - 1)
    BY FirstParts
  <2>2. g[1..k] = HandBlockOn(g[(1..k) \ {Max(1..k)}], [i \in 1..n |-> from + i][Max(1..k)])
    BY <1>1, <2>1 DEF IsBatch
  <2>3. QED BY <2>1, <2>2
<1>5. Right(0)
  <2>1. 1..0 = {} /\ from + 0 = from
    OBVIOUS
  <2>2. QED BY <1>3, <2>1
<1>6. ASSUME NEW k \in 1..n, Right(k - 1)
      PROVE  Right(k)
  <2> DEFINE h == from + k
             w == g[1..(k - 1)]
  <2>1. h \in 1..Len(chain) /\ h - 1 \in 0..Len(chain) /\ from + (k - 1) = h - 1 /\ h \in 0..Len(chain) /\ h # 0
    BY DEF LinkInv
  <2>2. w \in TellType /\ \A id \in Ids : Tells(a[id], StateAt(h - 1).book[id], w[id])
    BY <1>6, <2>1
  <2>3. g[1..k] = HandBlockOn(w, h)
    BY <1>4
  <2> HIDE DEF h, w, Right
  <2>4. chain[h] \in BlockType /\ Linked(StateAt(h - 1).book, chain[h].book, chain[h].events)
        /\ StateAt(h).book = chain[h].book
    BY <2>1 DEF LinkInv, StateAt
  <2>5. chain[h].events \in Seq(EventType)
    BY <2>4 DEF BlockType
  <2>6. BookOK(StateAt(h - 1).book) /\ BookOK(chain[h].book)
    BY <2>1, <2>4, BooksSound
  <2>7. /\ HandBlockOn(w, h) \in TellType
        /\ \A id \in Ids : Tells(a[id], chain[h].book[id], HandBlockOn(w, h)[id])
    BY <2>2, <2>4, <2>5, <2>6, BlockTells
  <2>8. QED BY <2>3, <2>4, <2>7 DEF Right, h
<1> HIDE DEF Right
<1>7. \A k \in 0..n : Right(k)
  <2> SUFFICES ASSUME NEW j \in 0..n, ~Right(j) PROVE FALSE
    OBVIOUS
  <2>1. Bad \subseteq SUBSET (1..n) /\ 1..j \in Bad /\ IsFiniteSet(1..n)
    <3>1. 1..j \in SUBSET (1..n)
      OBVIOUS
    <3>2. Bad \subseteq SUBSET (1..n) /\ 1..j \in Bad
      BY <3>1
    <3>3. n \in Int /\ 1 \in Int
      OBVIOUS
    <3>4. IsFiniteSet(1..n)
      BY <3>3, FS_Interval
    <3>5. QED BY <3>2, <3>4
  <2> HIDE DEF Bad
  <2>2. PICK s \in Bad : \A U \in Bad : ~(U \subseteq s /\ U # s)
    <3>1. Bad # {}
      BY <2>1
    <3> DEFINE S == 1..n
    <3>2. IsFiniteSet(S) /\ Bad \subseteq SUBSET S
      BY <2>1
    <3> HIDE DEF S
    <3>3. QED BY ONLY <3>1, <3>2, MinimalSubset
  <2>3. PICK k \in 0..n : s = 1..k /\ ~Right(k)
    BY DEF Bad
  <2>4. k \in 1..n /\ k - 1 \in 0..n
    BY <1>5, <2>3
  <2>5. 1..(k - 1) \in SUBSET (1..n) /\ 1..(k - 1) \subseteq s /\ 1..(k - 1) # s
    <3>1. k \in 1..k /\ k \notin 1..(k - 1) /\ 1..(k - 1) \subseteq 1..k
      BY <2>4
    <3>2. QED BY <2>3, <2>4, <3>1, FirstParts
  <2>6. Right(k - 1)
    <3>1. 1..(k - 1) \notin Bad
      BY <2>2, <2>5
    <3>2. QED BY <2>4, <2>5, <3>1 DEF Bad
  <2>7. QED BY <1>6, <2>3, <2>4, <2>6
<1>8. Right(n)
  BY <1>7
<1>9. QED BY <1>2, <1>8 DEF Right, r

(***************************************************************************)
(* The watcher, step by step                                               *)
(***************************************************************************)

StreamInv ==
  /\ FeedInv /\ LinkInv
  /\ topic \in Topics \cup {"none"}
  /\ cursor \in 0..Len(chain) /\ since \in 0..cursor
  /\ topic = "none" => heard = NothingHeard
  /\ topic # "none" =>
       /\ heard \in TellType
       /\ \A id \in Ids : Tells(StateAt(since).book[id], StateAt(cursor).book[id], heard[id])

LEMMA StreamStarts == FeedAssumption /\ FeedInit /\ WatchInit => StreamInv
<1> SUFFICES ASSUME FeedAssumption, FeedInit, WatchInit PROVE StreamInv
  OBVIOUS
<1>1. FeedInv /\ LinkInv
  BY FeedStarts, LinkStarts
<1>2. cursor = 0 /\ since = 0 /\ Len(chain) = 0 /\ topic = "none" /\ heard = NothingHeard
  BY DEF WatchInit, FeedInit
<1>3. QED BY <1>1, <1>2 DEF StreamInv

LEMMA WatchKeeps ==
  ASSUME FeedAssumption, StreamInv, NEW event \in Topics, Watch(event)
  PROVE  StreamInv'
<1>1. UNCHANGED feedVars /\ chain' = chain
  BY DEF Watch, feedVars
<1>2. FeedInv' /\ LinkInv'
  BY <1>1, FeedStays, LinkStays DEF StreamInv
<1>3. topic' = event /\ topic' # "none" /\ since' \in 0..Len(chain) /\ cursor' = since' /\ heard' = NothingHeard
  BY DEF Watch, Height, StreamInv, Topics
<1>4. Len(chain) \in Nat
  BY DEF StreamInv, LinkInv
<1>5. heard' \in [Ids -> Seq(Payload')]
  <2>1. <<>> \in Seq(Payload')
    OBVIOUS
  <2>2. QED BY <1>3, <2>1 DEF NothingHeard
<1>6. ASSUME NEW id \in Ids
      PROVE  Tells(StateAt(since).book[id], StateAt(cursor).book[id], heard[id])'
  <2>1. BookOK(StateAt(since').book)
    BY <1>3, BooksSound DEF StreamInv
  <2>2. StateAt(since)' = StateAt(since') /\ StateAt(cursor)' = StateAt(since')
    BY <1>1, <1>3 DEF StateAt, NoBlock
  <2>3. PICK e \in Entry : e = StateAt(since').book[id]
    BY <2>1 DEF BookOK
  <2>4. heard'[id] = <<>> /\ topic' \in Topics
    BY <1>3 DEF NothingHeard
  <2>5. Tells(e, e, <<>>)'
    BY <2>4, StartsTelling
  <2>6. QED BY <2>2, <2>3, <2>4, <2>5 DEF Tells, Follows, Onward
<1>7. QED BY <1>1, <1>2, <1>3, <1>4, <1>5, <1>6 DEF StreamInv, TellType

LEMMA OnLogsKeeps == ASSUME FeedAssumption, StreamInv, OnLogs PROVE StreamInv'
<1>1. PICK top \in cursor + 1 .. Height :
        /\ heard' = FoldLeft(HandBlockOn, heard, [i \in 1 .. top - cursor |-> cursor + i])
        /\ cursor' = top
  BY DEF OnLogs
<1>2. UNCHANGED feedVars /\ chain' = chain /\ topic' = topic /\ since' = since /\ topic # "none"
  BY DEF OnLogs, feedVars
<1>3. FeedInv' /\ LinkInv'
  BY <1>2, FeedStays, LinkStays DEF StreamInv
<1> DEFINE n == top - cursor
           a == StateAt(since).book
<1>4. /\ n \in Nat /\ cursor \in Nat /\ cursor + n = top /\ top \in 0..Len(chain) /\ cursor + n <= Len(chain)
      /\ since \in 0..top /\ since \in 0..Len(chain) /\ topic \in Topics
  BY <1>1, <1>2 DEF StreamInv, LinkInv, Height
<1>5. BookOK(a) /\ heard \in TellType /\ \A id \in Ids : Tells(a[id], StateAt(cursor).book[id], heard[id])
  BY <1>2, <1>4, BooksSound DEF StreamInv
<1>6. heard' = FoldLeft(HandBlockOn, heard, [i \in 1..n |-> cursor + i])
  BY <1>1
<1> HIDE DEF n, a
<1>7. heard' \in TellType /\ \A id \in Ids : Tells(a[id], StateAt(cursor + n).book[id], heard'[id])
  BY <1>4, <1>5, <1>6, BatchTells DEF StreamInv
<1>8. Payload' = Payload
  BY <1>2 DEF Payload, Decode, Announcement, DecodeActionAnnounced, Decide, DecodeMerkleRootPublished,
              DecodeActionStatusChanged, DecodeFunded, DecodeClaimed, DecodeUnclaimedSwept, EventType
<1>9. ASSUME NEW id \in Ids
      PROVE  Tells(StateAt(since).book[id], StateAt(cursor).book[id], heard[id])'
  <2>1. StateAt(since)' = StateAt(since) /\ StateAt(cursor)' = StateAt(cursor + n)
    BY <1>1, <1>2, <1>4 DEF StateAt, NoBlock
  <2>2. Tells(a[id], StateAt(cursor + n).book[id], heard'[id])
    BY <1>7
  <2>3. QED BY <1>2, <2>1, <2>2 DEF a, Tells, Follows, Onward
<1>10. QED BY <1>1, <1>2, <1>3, <1>4, <1>7, <1>8, <1>9 DEF StreamInv, TellType

LEMMA UnwatchKeeps == ASSUME StreamInv, Unwatch PROVE StreamInv'
<1>1. UNCHANGED feedVars /\ chain' = chain /\ topic' = "none" /\ cursor' = 0 /\ since' = 0 /\ heard' = NothingHeard
  BY DEF Unwatch, feedVars
<1>2. FeedInv' /\ LinkInv'
  BY <1>1, FeedStays, LinkStays DEF StreamInv
<1>3. Len(chain') \in Nat
  BY <1>2 DEF LinkInv
<1>4. NothingHeard' = NothingHeard
  BY DEF NothingHeard
<1>5. QED BY <1>1, <1>2, <1>3, <1>4 DEF StreamInv

\* The blocks below the cursor stay as they are.
LEMMA WatcherStays ==
  ASSUME StreamInv, FeedInv', LinkInv', UNCHANGED streamVars,
         Len(chain) <= Len(chain'), \A h \in 1..Len(chain) : chain'[h] = chain[h]
  PROVE  StreamInv'
<1>1. topic' = topic /\ since' = since /\ cursor' = cursor /\ heard' = heard
  BY DEF streamVars
<1>2. cursor \in 0..Len(chain) /\ since \in 0..cursor /\ Len(chain) \in Nat /\ Len(chain') \in Nat
  BY DEF StreamInv, LinkInv
<1>3. cursor' \in 0..Len(chain') /\ since' \in 0..cursor'
  BY <1>1, <1>2
<1>4. StateAt(since)' = StateAt(since) /\ StateAt(cursor)' = StateAt(cursor)
  BY <1>1, <1>2 DEF StateAt, NoBlock
<1>5. Payload' = Payload /\ NothingHeard' = NothingHeard
  BY <1>1 DEF Payload, Decode, Announcement, DecodeActionAnnounced, Decide, DecodeMerkleRootPublished,
              DecodeActionStatusChanged, DecodeFunded, DecodeClaimed, DecodeUnclaimedSwept, EventType,
              NothingHeard
<1>6. ASSUME topic # "none", NEW id \in Ids
      PROVE  Tells(StateAt(since).book[id], StateAt(cursor).book[id], heard[id])'
  <2>1. Tells(StateAt(since).book[id], StateAt(cursor).book[id], heard[id])
    BY <1>6 DEF StreamInv
  <2>2. PICK old, new, told : /\ old = StateAt(since).book[id] /\ new = StateAt(cursor).book[id]
                              /\ told = heard[id]
    OBVIOUS
  <2>3. /\ old = StateAt(since)'.book[id] /\ new = StateAt(cursor)'.book[id] /\ told = heard'[id]
    BY <1>1, <1>4, <2>2
  <2>4. Tells(old, new, told)
    BY <2>1, <2>2
  <2>5. Tells(old, new, told)'
    BY <1>1, <2>4 DEF Tells, Follows, Onward
  <2>6. QED BY <2>3, <2>5 DEF Tells, Follows, Onward
<1>7. /\ topic' \in Topics \cup {"none"}
      /\ topic' = "none" => heard' = NothingHeard'
      /\ topic' # "none" => heard' \in TellType'
  BY <1>1, <1>5 DEF StreamInv, TellType
<1>8. QED BY <1>1, <1>3, <1>6, <1>7 DEF StreamInv

LEMMA StreamStep ==
  ASSUME FeedAssumption, StreamInv, [WatchNext]_<<feedVars, streamVars>>, [Len(chain') >= Len(chain)]_chain
  PROVE  StreamInv'
<1>1. CASE \E event \in Topics : Watch(event)
  BY <1>1, WatchKeeps
<1>2. CASE OnLogs
  BY <1>2, OnLogsKeeps
<1>3. CASE Unwatch
  BY <1>3, UnwatchKeeps
<1>4. CASE FeedNext /\ UNCHANGED streamVars
  <2>1. FeedInv' /\ Grows /\ LinkInv'
    BY <1>4, FeedStep, LinkStep DEF StreamInv
  <2>2. Len(chain) <= Len(chain') /\ \A h \in 1..Len(chain) : chain'[h] = chain[h]
    BY <2>1, GrowsKeeps DEF StreamInv, FeedInv
  <2>3. QED BY <1>4, <2>1, <2>2, WatcherStays
<1>5. CASE UNCHANGED <<feedVars, streamVars>>
  <2>1. UNCHANGED feedVars /\ UNCHANGED streamVars /\ chain' = chain
    BY <1>5 DEF feedVars
  <2>2. FeedInv' /\ LinkInv'
    BY <2>1, FeedStays, LinkStays DEF StreamInv
  <2>3. Len(chain) <= Len(chain') /\ \A h \in 1..Len(chain) : chain'[h] = chain[h]
    BY <2>1 DEF StreamInv, LinkInv
  <2>4. QED BY <2>1, <2>2, <2>3, WatcherStays
<1>6. QED BY <1>1, <1>2, <1>3, <1>4, <1>5 DEF WatchNext

LEMMA StreamsFollow == StreamInv => StreamsTellTheBook
BY DEF StreamInv, Tells, StreamsTellTheBook

\* Each of the six event streams alone carries an action's storage from the
\* block the watcher started after to the block it has got to, wherever it
\* started and however the node cut its batches (events.ts:50-277,
\* agent.ts:93-150).
THEOREM StreamsAlwaysTell ==
  ASSUME FeedAssumption
  PROVE  WatchSpec /\ NoBlockLost => []StreamsTellTheBook
<1>1. FeedInit /\ WatchInit => StreamInv
  BY StreamStarts
<1>2. StreamInv /\ [WatchNext]_<<feedVars, streamVars>> /\ [Len(chain') >= Len(chain)]_chain => StreamInv'
  BY StreamStep
<1>3. QED BY <1>1, <1>2, StreamsFollow, PTL DEF WatchSpec, NoBlockLost
=============================================================================
