----------------------------- MODULE ActionFeed -----------------------------
(***************************************************************************)
(* The chain as a reader meets it, call by call: a block holds the book,   *)
(* the pooled balance and the pause flags after one call to the contracts, *)
(* the call's events in the order they are emitted, and the transaction it *)
(* was made in.  A transaction makes one call or several in a row.  The    *)
(* last Depth blocks may still be replaced, whole transactions at a time.  *)
(* Readers may look between two calls of a transaction, which is more than *)
(* a real chain lets them see.                                             *)
(***************************************************************************)
EXTENDS ActionBook, Sequences, SequencesExt, FiniteSetsExt

CONSTANTS
  Coins,      \* payout tokens
  CoinOf,     \* action id -> its payout token
  Pausable,   \* contracts whose pause may be toggled
  Leaks,      \* amounts a faulty token may take from the pool, {} if it is sound
  Depth,      \* blocks a reorganisation may drop
  MaxBlocks   \* bound on the chain's length

\* What the constants of a chain stand for: ids counted from one, amounts that
\* are natural numbers.
FeedAssumption ==
  /\ IsFiniteSet(Ids) /\ Ids = 1..Cardinality(Ids)
  /\ Goals \subseteq Nat /\ Amounts \subseteq Nat /\ Leaks \subseteq Nat
  /\ \A leaf \in Leaves : leaf.amount \in Nat
  /\ \A id \in Ids : CoinOf[id] \in Coins

VARIABLES pool, paused, chain

feedVars == <<book, pool, paused, chain>>

Height == Len(chain)

(***************************************************************************)
(* Events                                                                  *)
(***************************************************************************)

Event(name, id) ==
  [name |-> name, id |-> id, kind |-> "CASH", prev |-> "NONE", new |-> "NONE", index |-> 0,
   amount |-> 0, total |-> 0]

StatusEvent(id, new) ==
  [Event("ActionStatusChanged", id) EXCEPT !.prev = book[id].status, !.new = new]

AnnounceEvents(id, kind) == <<[Event("ActionAnnounced", id) EXCEPT !.kind = kind]>>

PublishEvents(id, goal) ==
  <<StatusEvent(id, "ROOT_PUBLISHED"),
    [Event("MerkleRootPublished", id) EXCEPT !.total = goal]>>

\* Funded carries the new cumulative total; the status moves after it.
FundEvents(id, amount) ==
  LET total == book[id].funded + amount
      funded == [Event("Funded", id) EXCEPT !.amount = amount, !.total = total]
  IN  IF total = book[id].goal THEN <<funded, StatusEvent(id, "CLAIMABLE")>> ELSE <<funded>>

ClaimEvents(id, leaf) ==
  <<[Event("Claimed", id) EXCEPT !.index = leaf.index, !.amount = leaf.amount]>>

SweepEvents(id) ==
  <<StatusEvent(id, "FINALIZED"),
    [Event("UnclaimedSwept", id) EXCEPT !.amount = book[id].funded - book[id].claimed]>>

\* The distributor adds an event of its own when a deposit may be refunded.
CancelEvents(id) ==
  IF At(id, "ANNOUNCED") THEN <<StatusEvent(id, "CANCELLED")>>
  ELSE <<StatusEvent(id, "CANCELLED"),
         [Event("PublishedActionCancelled", id) EXCEPT !.amount = book[id].funded]>>

(***************************************************************************)
(* Blocks                                                                  *)
(***************************************************************************)

NoBlock ==
  [book |-> [id \in Ids |-> Blank], pool |-> [c \in Coins |-> 0], paused |-> {}, events |-> <<>>,
   tx |-> 0]

\* The state a call pinned to height h returns.
StateAt(h) == IF h = 0 THEN NoBlock ELSE chain[h]

Block(events, tx) ==
  [book |-> book', pool |-> pool', paused |-> paused', events |-> events, tx |-> tx]

\* The transaction of the next call: that of the call before it, or a new one.
NextTx == {StateAt(Height).tx, StateAt(Height).tx + 1} \ {0}

\* One call in a new block, while there is room for one.
Emit(events) ==
  /\ Height < MaxBlocks
  /\ \E tx \in NextTx : chain' = Append(chain, Block(events, tx))

\* The pool moves by `change` in the action's token; a transfer never overdraws.
Settle(id, change) ==
  /\ pool[CoinOf[id]] + change >= 0
  /\ pool' = [pool EXCEPT ![CoinOf[id]] = @ + change]

Open(contract) == contract \notin paused

MineRegistry ==
  /\ UNCHANGED <<pool, paused>>
  /\ \E id \in Ids :
       \/ \E kind \in Kinds : Open("registry") /\ Announce(id, kind) /\ Emit(AnnounceEvents(id, kind))
       \/ \E goal \in Goals :
             Open("registry") /\ PublishGoal(id, goal) /\ Emit(PublishEvents(id, goal))
       \/ At(id, "ANNOUNCED") /\ Void(id) /\ Emit(CancelEvents(id))

MineDistributor ==
  /\ UNCHANGED paused
  /\ Open("distributor")
  /\ \E id \in Ids :
       \/ \E amount \in Amounts :
             Deposit(id, amount) /\ Settle(id, amount) /\ Emit(FundEvents(id, amount))
       \/ \E leaf \in Leaves :
             Pay(id, leaf) /\ Settle(id, -leaf.amount) /\ Emit(ClaimEvents(id, leaf))
       \/ Finalize(id) /\ Settle(id, book[id].claimed - book[id].funded) /\ Emit(SweepEvents(id))
       \/ /\ At(id, "ROOT_PUBLISHED")
          /\ Void(id) /\ Settle(id, -book[id].funded) /\ Emit(CancelEvents(id))

TogglePause(contract) ==
  /\ paused' = IF Open(contract) THEN paused \cup {contract} ELSE paused \ {contract}
  /\ UNCHANGED <<book, pool>>
  /\ Emit(<<[Event(IF Open(contract) THEN "Paused" ELSE "Unpaused", 0) EXCEPT !.new = contract]>>)

\* A token that moves balances on its own.
Leak(coin, amount) ==
  /\ pool[coin] >= amount
  /\ pool' = [pool EXCEPT ![coin] = @ - amount]
  /\ UNCHANGED <<book, paused>>
  /\ Emit(<<>>)

Reorganise(h) ==
  /\ h < Height
  /\ chain[h + 1].tx # StateAt(h).tx
  /\ chain' = SubSeq(chain, 1, h)
  /\ book' = StateAt(h).book
  /\ pool' = StateAt(h).pool
  /\ paused' = StateAt(h).paused

FeedInit == BookInit /\ pool = NoBlock.pool /\ paused = {} /\ chain = <<>>

FeedNext ==
  \/ MineRegistry
  \/ MineDistributor
  \/ \E contract \in Pausable : TogglePause(contract)
  \/ \E coin \in Coins, amount \in Leaks : Leak(coin, amount)
  \/ \E h \in 0..Height : h >= Height - Depth /\ Reorganise(h)

\* In such a behaviour every block is final.
NoBlockLost == [][Len(chain') >= Len(chain)]_chain

(***************************************************************************)
(* What the contracts owe in a token, and whether the pool falls short.    *)
(***************************************************************************)

OwedAt(state, coin) ==
  SumFunction([id \in {i \in Ids : CoinOf[i] = coin} |-> EscrowOf(state.book[id])])

ShortAt(state, coin) == state.pool[coin] < OwedAt(state, coin)
=============================================================================
