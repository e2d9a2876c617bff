----------------------------- MODULE PageCache -----------------------------
(***************************************************************************)
(* The decoded-node cache of storage/page/cache.rs, shared by readers that *)
(* are pinned to different prefixes of one append-only page file           *)
(* (PageReader::shared_node in storage/page.rs).  A lookup, the read of    *)
(* the page and the insertion of the node are separate steps: the cache's  *)
(* lock is not held between them.                                          *)
(*                                                                         *)
(* The clock of a shard only orders its entries by last use; the model     *)
(* keeps that order: how many slots were used since each slot was.         *)
(***************************************************************************)
EXTENDS Naturals, Sequences, FiniteSetsExt

CONSTANTS
  Readers,
  MaxPages,             \* bound: pages ever written, the file header included
  SHARDS, SLOTS, WAYS,
  Limit,                \* bytes a shard may hold
  Nodes                 \* nodes that are written: [tree, maxRef, bytes]

VARIABLES
  file,           \* pages written: a sequence of [tree, maxRef, bytes], page 0 apart
  filePoisoned,   \* PageFile::poisoned: an append failed
  shards,         \* shard -> [entries, bytes, hand, age]
  reader          \* reader -> [count, stage, tree, id, ok]

cacheVars == <<file, filePoisoned, shards, reader>>

TreeKinds == {"state", "records"}
NoEntry == [id |-> 0, tree |-> "none", maxRef |-> 0, bytes |-> 0]
PageCount == Len(file) + 1
ValidRef(id, count) == id # 0 /\ id < count

(* read and decode_node at a prefix: an error when the page, or anything   *)
(* it refers to, is outside the prefix, or it belongs to another tree.     *)
Reads(tree, id, count) ==
  ValidRef(id, count) /\ file[id].tree = tree /\ file[id].maxRef < count

-----------------------------------------------------------------------------
(* A shard.                                                                *)

ShardOf(id) == id % SHARDS

(* set_start: the ways that may hold a page.                               *)
Ways(id) ==
  LET start == ((id \div SHARDS) % (SLOTS \div WAYS)) * WAYS
  IN start .. start + WAYS - 1

Cached(shard, id) == {i \in Ways(id) : shard.entries[i].id = id}

Used(age, slot) ==
  [i \in DOMAIN age |-> IF i = slot THEN 0
                        ELSE IF age[i] < age[slot] THEN age[i] + 1 ELSE age[i]]

(* remove.                                                                 *)
Without(shard, slot) ==
  [shard EXCEPT !.bytes = @ - shard.entries[slot].bytes, !.entries[slot] = NoEntry]

(* The slot to fill: an empty way, else the least recently used one.       *)
Victim(shard, id) ==
  LET empty == {i \in Ways(id) : shard.entries[i] = NoEntry}
      oldest == CHOOSE i \in Ways(id) : \A j \in Ways(id) : shard.age[i] >= shard.age[j]
  IN IF empty # {} THEN Min(empty) ELSE oldest

(* The hand goes round, emptying slots, until the new entry fits.          *)
Evicted(shard, bytes) ==
  LET after[k \in 0 .. SLOTS] ==
        IF k = 0 THEN shard
        ELSE [Without(after[k - 1], after[k - 1].hand) EXCEPT !.hand = (@ + 1) % SLOTS]
  IN after[Min({k \in 0 .. SLOTS : after[k].bytes + bytes <= Limit})]

(* Shard::insert.                                                          *)
Insertion(shard, tree, id) ==
  LET index == Victim(shard, id)
      kept == Evicted(Without(shard, index), file[id].bytes)
  IN IF file[id].bytes > Limit \/ Cached(shard, id) # {} THEN shard
     ELSE [kept EXCEPT
             !.entries[index] = [id |-> id, tree |-> tree, maxRef |-> file[id].maxRef,
                                 bytes |-> file[id].bytes],
             !.bytes = @ + file[id].bytes,
             !.age = Used(@, index)]

(* Mutant: a hit is served to every prefix that holds the page itself.     *)
HitInPrefix(entry, tree, id, count) == entry.tree = tree /\ id < count

(* A newer prefix may have filled the slot: a hit is an answer only if     *)
(* everything the node refers to is in this reader's prefix.               *)
HitIsValid(entry, tree, id, count) ==
  entry.tree = tree /\ id < count /\ entry.maxRef < count

-----------------------------------------------------------------------------
CacheInit ==
  /\ file = <<>> /\ filePoisoned = FALSE
  /\ shards = [s \in 0 .. SHARDS - 1 |->
                 [entries |-> [i \in 0 .. SLOTS - 1 |-> NoEntry], bytes |-> 0,
                  hand |-> 0, age |-> [i \in 0 .. SLOTS - 1 |-> i]]]
  /\ reader = [r \in Readers |->
                 [count |-> 1, stage |-> "idle", tree |-> "none", id |-> 0, ok |-> FALSE]]

(* PageFile::append: a failed write poisons the file for good.             *)
AppendPage(node) ==
  /\ ~filePoisoned /\ PageCount < MaxPages
  /\ \/ file' = Append(file, node) /\ UNCHANGED filePoisoned
     \/ filePoisoned' = TRUE /\ UNCHANGED file
  /\ UNCHANGED <<shards, reader>>

(* PageFile::reader: a clone pinned to the present prefix.                 *)
Pin(r) ==
  /\ reader[r].stage \in {"idle", "answered"}
  /\ reader[r].count # PageCount
  /\ reader' = [reader EXCEPT ![r] = [@ EXCEPT !.count = PageCount, !.stage = "idle"]]
  /\ UNCHANGED <<file, filePoisoned, shards>>

Answer(r, ok) == [reader EXCEPT ![r] = [@ EXCEPT !.stage = "answered", !.ok = ok]]

(* shared_node up to the release of the shard's lock in PageCache::get.    *)
Lookup(r, tree, id) ==
  LET shard == shards[ShardOf(id)]
      hits == Cached(shard, id)
      asked == [reader[r] EXCEPT !.tree = tree, !.id = id]
      count == reader[r].count
  IN /\ reader[r].stage \in {"idle", "answered"}
     /\ \/ /\ ~ValidRef(id, count)
           /\ reader' = [reader EXCEPT ![r] = [asked EXCEPT !.stage = "answered", !.ok = FALSE]]
           /\ UNCHANGED shards
        \/ /\ ValidRef(id, count) /\ hits = {}
           /\ reader' = [reader EXCEPT ![r] = [asked EXCEPT !.stage = "read"]]
           /\ UNCHANGED shards
        \/ /\ ValidRef(id, count)
           /\ \E i \in hits :
                LET ok == HitIsValid(shard.entries[i], tree, id, count)
                IN /\ reader' = [reader EXCEPT ![r] =
                                   [asked EXCEPT !.stage = "answered", !.ok = ok]]
                   /\ shards' = IF ok THEN [shards EXCEPT ![ShardOf(id)].age = Used(@, i)]
                                ELSE shards
     /\ UNCHANGED <<file, filePoisoned>>

(* The page is read and decoded outside the lock.                          *)
ReadPage(r) ==
  LET q == reader[r]
  IN /\ q.stage = "read"
     /\ reader' = IF Reads(q.tree, q.id, q.count)
                    THEN [reader EXCEPT ![r].stage = "insert"] ELSE Answer(r, FALSE)
     /\ UNCHANGED <<file, filePoisoned, shards>>

InsertNode(r) ==
  LET q == reader[r]
  IN /\ q.stage = "insert"
     /\ shards' = [shards EXCEPT ![ShardOf(q.id)] = Insertion(@, q.tree, q.id)]
     /\ reader' = Answer(r, TRUE)
     /\ UNCHANGED <<file, filePoisoned>>

CacheNext ==
  \/ \E node \in Nodes : AppendPage(node)
  \/ \E r \in Readers :
       \/ Pin(r)
       \/ \E tree \in TreeKinds, id \in 0 .. MaxPages - 1 : Lookup(r, tree, id)
       \/ ReadPage(r)
       \/ InsertNode(r)

CacheSpec == CacheInit /\ [][CacheNext]_cacheVars

-----------------------------------------------------------------------------
(* Properties.                                                             *)

(* The byte counter of a shard is what its entries hold, never above the   *)
(* limit, and a page is cached once, in one of its own ways, as it is in   *)
(* the file.                                                               *)
ShardsAreExact ==
  \A s \in 0 .. SHARDS - 1 :
    LET shard == shards[s]
        full == {i \in 0 .. SLOTS - 1 : shard.entries[i] # NoEntry}
    IN /\ shard.bytes = MapThenSumSet(LAMBDA i : shard.entries[i].bytes, full)
       /\ shard.bytes <= Limit
       /\ \A i \in full :
            LET e == shard.entries[i]
            IN /\ ShardOf(e.id) = s /\ i \in Ways(e.id)
               /\ [tree |-> e.tree, maxRef |-> e.maxRef, bytes |-> e.bytes] = file[e.id]
               /\ \A j \in full : shard.entries[j].id = e.id => i = j

(* The cache cannot be observed: whatever other readers put into it, a     *)
(* reader gets the answer that its own prefix of the file gives, an error  *)
(* for a node with a reference beyond that prefix included, and its shards *)
(* stay exact and within their limit.                                      *)
CacheIsTransparent ==
  /\ ShardsAreExact
  /\ \A r \in Readers :
       LET q == reader[r]
       IN q.stage = "answered" => q.ok = Reads(q.tree, q.id, q.count)
=============================================================================
