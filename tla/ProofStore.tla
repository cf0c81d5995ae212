----------------------------- MODULE ProofStore -----------------------------
(***************************************************************************)
(* How a holder's proof reaches the browser: shard-proofs.mjs and a whole  *)
(* proofs.json put files into the store one after the other, and the       *)
(* app's routes /api/proof and /api/claim-tx read them, remembering every  *)
(* answer, also the ones that found nothing, until the process ends.       *)
(*                                                                         *)
(* The files of an action are those of one artifact; a file that is being  *)
(* written does not parse and is read as if it were not there.             *)
(***************************************************************************)
EXTENDS Integers, FiniteSets

CONSTANTS
  Ids,         \* actions with a published artifact, as strings
  Holders,
  Sharded,     \* the actions too large for one file; the others are one file
  HoldersOf,   \* action -> the holders its artifact has a claim for
  PrefixOf,    \* holder -> first byte of the address
  RecordBlock, \* record block of the artifacts
  MaxSpan,     \* MAX_SPAN of the log scan when the record block is not known
  MaxHead,     \* bound: the chain stops here
  MaxClaimed   \* bound: claims paid

\* An action's key is its number, and an artifact has claims for holders.
StoreAssumption ==
  /\ {"none", "null", "unknown"} \cap Ids = {}
  /\ HoldersOf \in [Ids -> SUBSET Holders]

VARIABLES
  shards,      \* <<action, prefix>> -> "absent", "partial" or "written"
  wholes,      \* action -> the same, for proofs-<chain>-<action>.json
  meta,        \* action -> whether the sharder has written meta.json
  head,        \* the chain's height
  claimedAt,   \* <<action, holder>> -> block of the claim's payment, 0 if none
  shardCache,  \* key -> "unknown", "null", or the action whose file was read
  wholeCache,
  txCache,     \* <<action, holder>> -> -1 unknown, 0 null, or a block
  fresh,       \* history: the process started after the store was complete
  reply        \* history: the answer just given by either route

storeVars == <<shards, wholes, meta, head, claimedAt, shardCache, wholeCache, txCache, fresh, reply>>
disk == <<shards, wholes, meta>>
chain == <<head, claimedAt>>
caches == <<shardCache, wholeCache, txCache>>

Prefixes == {PrefixOf[h] : h \in Holders}
NoReply == [route |-> "none", id |-> "none", holder |-> "none", from |-> "none", block |-> 0]

\* An artifact is there once its shards or its whole file are written.
Published(id) ==
  IF id \notin Sharded THEN wholes[id] = "written" ELSE \A h \in HoldersOf[id] : shards[<<id, PrefixOf[h]>>] = "written"
Complete == \A id \in Ids : Published(id)

\* Mutant: one entry per prefix.
ShardKeyShared(id, prefix) == <<CHOOSE i \in Ids : TRUE, prefix>>

\* The cache's key carries the action: prefixes are shared by all of them.
ShardKey(id, prefix) == <<id, prefix>>

(***************************************************************************)
(* Files                                                                   *)
(***************************************************************************)

\* The sharder's loop: meta.json first, then one file per prefix it met.
WriteMeta(id) ==
  /\ id \in Sharded /\ ~meta[id]
  /\ meta' = [meta EXCEPT ![id] = TRUE]
  /\ reply' = NoReply
  /\ UNCHANGED <<shards, wholes, chain, caches, fresh>>

OpenShard(id, prefix) ==
  /\ meta[id]
  /\ \E h \in HoldersOf[id] : PrefixOf[h] = prefix
  /\ shards[<<id, prefix>>] = "absent"
  /\ \A p \in Prefixes : shards[<<id, p>>] # "partial"
  /\ shards' = [shards EXCEPT ![<<id, prefix>>] = "partial"]
  /\ reply' = NoReply
  /\ UNCHANGED <<wholes, meta, chain, caches, fresh>>

CloseShard(id, prefix) ==
  /\ shards[<<id, prefix>>] = "partial"
  /\ shards' = [shards EXCEPT ![<<id, prefix>>] = "written"]
  /\ reply' = NoReply
  /\ UNCHANGED <<wholes, meta, chain, caches, fresh>>

\* The artifact of a small action, as the snapshot wrote it.
CopyWhole(id) ==
  /\ id \notin Sharded
  /\ wholes[id] # "written"
  /\ wholes' = [wholes EXCEPT ![id] = IF @ = "absent" THEN "partial" ELSE "written"]
  /\ reply' = NoReply
  /\ UNCHANGED <<shards, meta, chain, caches, fresh>>

(***************************************************************************)
(* Routes                                                                  *)
(***************************************************************************)

LoadShard(id, prefix) ==
  LET key == ShardKey(id, prefix)
  IN IF shardCache[key] # "unknown" THEN shardCache[key]
     ELSE IF shards[<<id, prefix>>] = "written" THEN id ELSE "null"

LoadWhole(id) ==
  IF wholeCache[id] # "unknown" THEN wholeCache[id]
  ELSE IF wholes[id] = "written" THEN id ELSE "null"

\* The file of an action in which the holder has an entry, "none" for undefined.
EntryIn(file, h) == IF file \in Ids /\ h \in HoldersOf[file] THEN file ELSE "none"

\* GET /api/proof: the whole file is looked at only when the shard has no entry.
GetProof(id, h) ==
  LET shard == LoadShard(id, PrefixOf[h])
      found == EntryIn(shard, h)
      whole == LoadWhole(id)
  IN /\ shardCache' = [shardCache EXCEPT ![ShardKey(id, PrefixOf[h])] = shard]
     /\ wholeCache' = IF found # "none" THEN wholeCache ELSE [wholeCache EXCEPT ![id] = whole]
     /\ reply' = [route |-> "proof", id |-> id, holder |-> h,
                  from |-> IF found # "none" THEN found ELSE EntryIn(whole, h), block |-> 0]
     /\ UNCHANGED <<disk, chain, txCache, fresh>>

\* Where the backward scan for a payment ends.
FloorOf(id, top) ==
  IF meta[id] \/ wholes[id] = "written" THEN RecordBlock
  ELSE IF top > MaxSpan THEN top - MaxSpan ELSE 0

\* GET /api/claim-tx, for a row of the history: the node asked may lag behind;
\* an error is not remembered.
GetClaimTx(id, h) ==
  /\ claimedAt[<<id, h>>] # 0
  /\ \E top \in (head - 1) .. head :
       LET seen == IF claimedAt[<<id, h>>] \in FloorOf(id, top) .. top THEN claimedAt[<<id, h>>] ELSE 0
           hit == txCache[<<id, h>>]
           answer == IF hit = -1 THEN seen ELSE hit
       IN /\ txCache' = [txCache EXCEPT ![<<id, h>>] = answer]
          /\ reply' = [route |-> "claim-tx", id |-> id, holder |-> h, from |-> "none", block |-> answer]
          /\ UNCHANGED <<disk, chain, shardCache, wholeCache, fresh>>

Unread ==
  /\ shardCache' = [key \in Ids \X Prefixes |-> "unknown"]
  /\ wholeCache' = [id \in Ids |-> "unknown"]
  /\ txCache' = [key \in Ids \X Holders |-> -1]

Restart ==
  /\ Unread
  /\ fresh' = Complete
  /\ reply' = NoReply
  /\ UNCHANGED <<disk, chain>>

\* Payments are made after the record block, at the height they are mined in.
Pay(id, h) ==
  /\ head < MaxHead
  /\ h \in HoldersOf[id] /\ claimedAt[<<id, h>>] = 0
  /\ Cardinality({k \in DOMAIN claimedAt : claimedAt[k] # 0}) < MaxClaimed
  /\ head' = head + 1
  /\ claimedAt' = [claimedAt EXCEPT ![<<id, h>>] = head + 1]
  /\ reply' = NoReply
  /\ UNCHANGED <<disk, caches, fresh>>

StoreInit ==
  /\ shards = [key \in Ids \X Prefixes |-> "absent"]
  /\ wholes = [id \in Ids |-> "absent"]
  /\ meta = [id \in Ids |-> FALSE]
  /\ head = RecordBlock
  /\ claimedAt = [key \in Ids \X Holders |-> 0]
  /\ shardCache = [key \in Ids \X Prefixes |-> "unknown"]
  /\ wholeCache = [id \in Ids |-> "unknown"]
  /\ txCache = [key \in Ids \X Holders |-> -1]
  /\ fresh = FALSE
  /\ reply = NoReply

StoreNext ==
  \/ \E id \in Ids : WriteMeta(id) \/ CopyWhole(id)
  \/ \E id \in Ids, p \in Prefixes : OpenShard(id, p) \/ CloseShard(id, p)
  \/ \E id \in Ids, h \in Holders : GetProof(id, h) \/ GetClaimTx(id, h) \/ Pay(id, h)
  \/ Restart

StoreSpec == StoreInit /\ [][StoreNext]_storeVars

(***************************************************************************)
(* Properties                                                              *)
(***************************************************************************)

\* Whatever was cached while files were missing or half written: a proof comes
\* from the artifact of the action asked for, a receipt is that of the holder's
\* own payment, and a process started over a complete store denies no holder
\* (api/proof/route.ts:45-96, api/claim-tx/route.ts:56-102).
AnswersTrue ==
  /\ reply.route = "proof" =>
       /\ reply.from \in {"none", reply.id}
       /\ reply.from # "none" => reply.holder \in HoldersOf[reply.id]
       /\ fresh /\ reply.holder \in HoldersOf[reply.id] => reply.from = reply.id
  /\ reply.route = "claim-tx" => reply.block \in {0, claimedAt[<<reply.id, reply.holder>>]}
=============================================================================
