------------------------------ MODULE Subgraph ------------------------------
(***************************************************************************)
(* The subgraph: handlers fold the event stream into entities.  The graph  *)
(* node runs the handlers of one block in log order and commits them       *)
(* together; when the chain drops a block it undoes that block's writes    *)
(* and goes on from the block before.                                      *)
(***************************************************************************)
EXTENDS ActionFeed

VARIABLES indexed  \* the blocks indexed so far, each with the entities after it

indexVars == <<feedVars, indexed>>

\* CorporateAction entities, and the immutable records that point to them.
NoEntities ==
  [action |-> [id \in {} |-> Blank], funding |-> <<>>, claim |-> <<>>, sweep |-> <<>>]

\* loadOrInitAction: an unknown action starts as a blank, announced dividend.
Load(store, id) ==
  IF id \in DOMAIN store.action THEN store.action[id] ELSE [Blank EXCEPT !.status = "ANNOUNCED"]

Put(records, key, record) ==
  [k \in DOMAIN records \cup {key} |-> IF k = key THEN record ELSE records[k]]

Save(store, id, entity) == [store EXCEPT !.action = Put(@, id, entity)]

\* txHash-logIndex
EventId(block, pos) == <<block, pos>>

Child(e) == [id |-> e.id, index |-> e.index, amount |-> e.amount]

HandleAnnounced(store, e) ==
  Save(store, e.id, [Load(store, e.id) EXCEPT !.kind = e.kind, !.status = "ANNOUNCED"])

HandleRootPublished(store, e) == Save(store, e.id, [Load(store, e.id) EXCEPT !.goal = e.total])

HandleStatusChanged(store, e) == Save(store, e.id, [Load(store, e.id) EXCEPT !.status = e.new])

\* The event carries the running total.
HandleFunded(store, key, e) ==
  [Save(store, e.id, [Load(store, e.id) EXCEPT !.funded = e.total])
     EXCEPT !.funding = Put(@, key, Child(e))]

\* Mutant: claims are read as if they carried a running total, too.
HandleClaimedLast(store, key, e) ==
  [Save(store, e.id, [Load(store, e.id) EXCEPT !.claimed = e.amount])
     EXCEPT !.claim = Put(@, key, Child(e))]

\* This one does not: the handler accumulates.
HandleClaimed(store, key, e) ==
  [Save(store, e.id, [Load(store, e.id) EXCEPT !.claimed = @ + e.amount])
     EXCEPT !.claim = Put(@, key, Child(e))]

HandleSwept(store, key, e) ==
  [Save(store, e.id, Load(store, e.id)) EXCEPT !.sweep = Put(@, key, Child(e))]

\* The manifest's event handlers; it names none for PublishedActionCancelled.
HandleEvent(store, key, e) ==
  CASE e.name = "ActionAnnounced" -> HandleAnnounced(store, e)
    [] e.name = "MerkleRootPublished" -> HandleRootPublished(store, e)
    [] e.name = "ActionStatusChanged" -> HandleStatusChanged(store, e)
    [] e.name = "Funded" -> HandleFunded(store, key, e)
    [] e.name = "Claimed" -> HandleClaimed(store, key, e)
    [] e.name = "UnclaimedSwept" -> HandleSwept(store, key, e)
    [] OTHER -> store

HandleBlock(store, h) ==
  LET events == chain[h].events
      step(s, pos) == HandleEvent(s, EventId(h, pos), events[pos])
  IN  FoldLeft(step, store, [pos \in DOMAIN events |-> pos])

StoreAt(h) == IF h = 0 THEN NoEntities ELSE indexed[h].store

Onchain(h) == h <= Height /\ indexed[h].block = chain[h]

IndexBlock ==
  LET h == Len(indexed) + 1
  IN  /\ h <= Height
      /\ \A k \in DOMAIN indexed : Onchain(k)
      /\ indexed' = Append(indexed, [block |-> chain[h], store |-> HandleBlock(StoreAt(h - 1), h)])
      /\ UNCHANGED feedVars

\* Mutant: the chain moves on and the entities stay.
RevertBlockLate ==
  /\ Len(indexed) > Height
  /\ indexed' = Front(indexed)
  /\ UNCHANGED feedVars

RevertBlock ==
  /\ \E k \in DOMAIN indexed : ~Onchain(k)
  /\ indexed' = Front(indexed)
  /\ UNCHANGED feedVars

IndexInit == FeedInit /\ indexed = <<>>

IndexNext == IndexBlock \/ RevertBlock \/ (FeedNext /\ UNCHANGED indexed)

\* The node keeps indexing; the chain owes nothing.
IndexSpec ==
  IndexInit /\ [][IndexNext]_indexVars /\ WF_indexVars(IndexBlock) /\ WF_indexVars(RevertBlock)

(***************************************************************************)
(* Properties                                                              *)
(***************************************************************************)

Synced == \A k \in DOMAIN indexed : Onchain(k)
Entities == StoreAt(Len(indexed))
Book == StateAt(Len(indexed)).book

Agree(fields, entity, entry) == \A f \in fields : entity[f] = entry[f]

\* No action is missing or stubbed, none has another type, status, target or sum
\* of claims, and the deposits are right until a cancellation.
FieldsMatch ==
  Synced =>
    /\ DOMAIN Entities.action = {id \in Ids : Book[id].status # "NONE"}
    /\ \A id \in DOMAIN Entities.action :
         /\ Agree({"kind", "status", "goal", "claimed"}, Entities.action[id], Book[id])
         /\ Book[id].status # "CANCELLED" => Entities.action[id].funded = Book[id].funded

Of(children, id) == {key \in DOMAIN children : children[key].id = id}
AmountOf(children, id) == SumFunction([key \in Of(children, id) |-> children[key].amount])

\* Every deposit and claim has exactly one record, also when two have one block.
ChildrenAddUp ==
  \A id \in DOMAIN Entities.action :
    LET entity == Entities.action[id]
    IN  /\ AmountOf(Entities.funding, id) = entity.funded
        /\ AmountOf(Entities.claim, id) = entity.claimed
        /\ Synced => {Entities.claim[key].index : key \in Of(Entities.claim, id)} = Book[id].paid
        /\ entity.status = "FINALIZED" =>
             AmountOf(Entities.sweep, id) = entity.funded - entity.claimed

\* Whatever the order of a transaction's logs and however often the chain
\* reorganised, the entities of an indexed block are the contracts' storage at
\* that block, and the child records add up to the totals beside them.
EntitiesMatchBook == FieldsMatch /\ ChildrenAddUp

\* Once the chain rests the index catches up with it and stays there, whatever
\* had to be undone.
IndexCatchesUp == <>[][FALSE]_chain => <>[](Synced /\ Len(indexed) = Height)
=============================================================================
