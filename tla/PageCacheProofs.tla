-------------------------- MODULE PageCacheProofs --------------------------
(***************************************************************************)
(* The node cache cannot be observed and stays within its budget, for any  *)
(* number of readers, shards, slots and ways, any limit and any file.      *)
(***************************************************************************)
EXTENDS PageCache, Sums

(* A node on its page.                                                     *)
Page == [tree : TreeKinds, maxRef : Nat, bytes : Nat]

(* What cache.rs fixes at compile time and the pages it is used for.       *)
CacheShape ==
  /\ SHARDS \in Nat /\ SLOTS \in Nat /\ WAYS \in Nat
  /\ SHARDS > 0 /\ SLOTS > 0 /\ WAYS > 0 /\ SLOTS % WAYS = 0
  /\ Limit \in Nat /\ MaxPages \in Nat
  /\ Nodes \subseteq Page

(* The slots of a shard, and what the entry of each weighs.                *)
Slots == 0 .. SLOTS - 1
Weight(entries) == [i \in Slots |-> entries[i].bytes]

-----------------------------------------------------------------------------
(* The inductive invariant.                                                *)

(* A shard whose counter is the sum of its entries.                        *)
Counted(shard) ==
  /\ shard = [entries |-> shard.entries, bytes |-> shard.bytes,
              hand |-> shard.hand, age |-> shard.age]
  /\ shard.entries = [i \in Slots |-> shard.entries[i]]
  /\ \A i \in Slots : shard.entries[i].bytes \in Nat
  /\ shard.bytes \in Nat /\ shard.bytes = Total(Weight(shard.entries), Slots)
  /\ shard.hand \in Slots /\ shard.age \in [Slots -> Slots]

(* An entry of slot i of shard s is a page of the file f.                  *)
Holds(f, s, i, e) ==
  /\ e.id \in 1 .. Len(f) /\ ShardOf(e.id) = s /\ i \in Ways(e.id)
  /\ e = [id |-> e.id, tree |-> f[e.id].tree, maxRef |-> f[e.id].maxRef, bytes |-> f[e.id].bytes]

(* Every entry is a page of the file, and no page is held twice.           *)
Exact(f, s, shard) ==
  /\ Counted(shard) /\ shard.bytes <= Limit
  /\ \A i \in Slots : shard.entries[i] # NoEntry => Holds(f, s, i, shard.entries[i])
  /\ \A i \in Slots, j \in Slots :
       shard.entries[i] # NoEntry /\ shard.entries[j].id = shard.entries[i].id => i = j

(* A reader asks for a page of its prefix, and inserts only what it read.  *)
Asks(f, q) ==
  /\ q = [count |-> q.count, stage |-> q.stage, tree |-> q.tree, id |-> q.id, ok |-> q.ok]
  /\ q.count \in 1 .. Len(f) + 1
  /\ q.stage \in {"read", "insert"} => ValidRef(q.id, q.count) /\ q.id \in Nat
  /\ q.stage = "insert" => f[q.id].tree = q.tree /\ f[q.id].maxRef < q.count
  /\ q.stage = "answered" =>
       /\ q.id \in Nat
       /\ q.ok = (ValidRef(q.id, q.count) /\ f[q.id].tree = q.tree /\ f[q.id].maxRef < q.count)

(* Every shard is exact and every reader asks for what it may.             *)
CacheInv ==
  /\ file \in Seq(Page)
  /\ shards = [s \in 0 .. SHARDS - 1 |-> shards[s]]
  /\ \A s \in 0 .. SHARDS - 1 : Exact(file, s, shards[s])
  /\ reader = [r \in Readers |-> reader[r]]
  /\ \A r \in Readers : Asks(file, reader[r])

-----------------------------------------------------------------------------
(* Slots and ways.                                                         *)

(* The ways of a page are slots of its shard: WAYS divides SLOTS.          *)
LEMMA WaysAreSlots ==
  ASSUME CacheShape, NEW id \in Nat
  PROVE  /\ Ways(id) \subseteq Slots /\ Ways(id) # {} /\ ShardOf(id) \in 0 .. SHARDS - 1
<1> PICK K \in Nat : K = SLOTS \div WAYS /\ SLOTS = K * WAYS /\ K > 0
  BY DEF CacheShape
<1> PICK x \in Nat : x = (id \div SHARDS) % K /\ x < K
  BY DEF CacheShape
<1> PICK start \in Nat : start = x * WAYS
  BY DEF CacheShape
<1>1. start + WAYS <= SLOTS
  BY DEF CacheShape
<1>2. Ways(id) = start .. start + WAYS - 1
  BY DEF Ways
<1>3. ShardOf(id) \in 0 .. SHARDS - 1
  BY DEF ShardOf, CacheShape
<1>4. start \in Ways(id)
  BY <1>2 DEF CacheShape
<1>5. Ways(id) \subseteq Slots
  BY ONLY CacheShape, start \in Nat, <1>1, <1>2 DEF Slots, CacheShape
<1> QED
  BY <1>3, <1>4, <1>5

(* A shard's entries can be summed.                                        *)
LEMMA SlotsAreFinite ==
  CacheShape => IsFiniteSet(Slots)
BY FS_Interval DEF CacheShape, Slots

(* The hand goes round.                                                    *)
LEMMA NextSlot ==
  ASSUME CacheShape, NEW i \in Slots
  PROVE  (i + 1) % SLOTS = IF i + 1 = SLOTS THEN 0 ELSE i + 1
<1>1. CASE i + 1 = SLOTS
  BY <1>1 DEF CacheShape
<1>2. CASE i + 1 # SLOTS
  <2>1. i + 1 \in Nat /\ i + 1 < SLOTS
    BY <1>2 DEF Slots, CacheShape
  <2> QED
    BY <1>2, <2>1 DEF CacheShape
<1> QED
  BY <1>1, <1>2

(* The slot that an insertion fills is a way of its page.                  *)
LEMMA VictimIsWay ==
  ASSUME CacheShape, NEW shard, Counted(shard), NEW id \in Nat
  PROVE  Victim(shard, id) \in Ways(id)
<1> DEFINE empty == {i \in Ways(id) : shard.entries[i] = NoEntry}
<1>1. Ways(id) \subseteq Slots /\ Ways(id) # {}
  BY WaysAreSlots
<1>2. CASE empty # {}
  <2>1. empty \in SUBSET Nat
    BY <1>1 DEF Slots
  <2>2. \E x \in empty : \A y \in empty : x <= y
    <3> HIDE DEF empty
    <3> QED
      BY <1>2, <2>1, Least
  <2>3. Min(empty) \in empty
    BY <2>2 DEF Min
  <2>4. Victim(shard, id) = Min(empty)
    BY <1>2 DEF Victim
  <2> QED
    BY <2>3, <2>4
<1>3. CASE empty = {}
  <2> DEFINE T == {shard.age[i] : i \in Ways(id)}
  <2>1. T \in SUBSET Nat /\ T # {} /\ \A x \in T : x <= SLOTS
    BY <1>1 DEF Counted, Slots, CacheShape
  <2>2. PICK x \in T : \A y \in T : x >= y
    <3> HIDE DEF T
    <3> QED
      BY <2>1, Greatest DEF CacheShape
  <2>3. PICK i \in Ways(id) : \A j \in Ways(id) : shard.age[i] >= shard.age[j]
    BY <2>2
  <2>4. Victim(shard, id) = CHOOSE k \in Ways(id) : \A j \in Ways(id) : shard.age[k] >= shard.age[j]
    BY <1>3 DEF Victim
  <2> QED
    BY <2>3, <2>4
<1> QED
  BY <1>2, <1>3

(* Being used keeps the ages below the number of slots.                    *)
LEMMA UsedIsAge ==
  ASSUME CacheShape, NEW age \in [Slots -> Slots], NEW i \in Slots
  PROVE  Used(age, i) \in [Slots -> Slots]
<1>1. ASSUME NEW j \in Slots
      PROVE  Used(age, i)[j] \in Slots
  <2>1. age[i] \in Slots /\ age[j] \in Slots
    OBVIOUS
  <2> QED
    <3> PICK a \in Slots, b \in Slots : a = age[i] /\ b = age[j]
      BY <2>1
    <3>1. Used(age, i)[j] = IF j = i THEN 0 ELSE IF b < a THEN b + 1 ELSE b
      BY DEF Used
    <3> QED
      BY ONLY CacheShape, <3>1, a \in Slots, b \in Slots DEF Slots, CacheShape
<1> QED
  BY <1>1 DEF Used

-----------------------------------------------------------------------------
(* Bytes.                                                                  *)

(* The fold that the property sums with, taken apart.                      *)
Folded(e, S) ==
  (CHOOSE h : h = [s \in SUBSET S |->
     IF s = {} THEN 0
     ELSE e[CHOOSE x \in s : TRUE].bytes + h[s \ {CHOOSE x \in s : TRUE}]])[S]

(* Its value is the total weight.                                          *)
LEMMA FoldedIsTotal ==
  ASSUME NEW e, NEW S \in SUBSET Slots, IsFiniteSet(S)
  PROVE  Folded(e, S) = Total(Weight(e), S)
<1> DEFINE P(h) == h = [s \in SUBSET S |->
     IF s = {} THEN 0
     ELSE e[CHOOSE x \in s : TRUE].bytes + h[s \ {CHOOSE x \in s : TRUE}]]
<1> PICK g : g = Weight(e)
  OBVIOUS
<1>1. \A x \in S : g[x] = e[x].bytes
  BY DEF Weight
<1>2. \A s \in SUBSET S : s # {} => (CHOOSE x \in s : TRUE) \in S
  OBVIOUS
<1>3. ASSUME NEW h
      PROVE  P(h) <=> IsSum(g, S, h)
  <2>1. ASSUME NEW s \in SUBSET S
        PROVE  Partial(g, h, s) =
                 IF s = {} THEN 0
                 ELSE e[CHOOSE x \in s : TRUE].bytes + h[s \ {CHOOSE x \in s : TRUE}]
    BY <1>1, <1>2 DEF Partial, Pick
  <2> QED
    BY <2>1 DEF IsSum
<1>4. PICK i : IsSum(g, S, i) /\ Total(g, S) = i[S]
  BY TotalIs
<1>5. P(i)
  BY <1>3, <1>4
<1>6. PICK h : h = CHOOSE k : P(k)
  OBVIOUS
<1>7. P(h)
  <2> HIDE DEF P
  <2> QED
    BY <1>5, <1>6
<1>8. IsSum(g, S, h)
  BY <1>3, <1>7
<1>9. \A s \in SUBSET S : h[s] = i[s]
  <2> HIDE DEF P
  <2> QED
    BY <1>4, <1>8, SumSame
<1>10. Folded(e, S) = h[S]
  BY <1>6 DEF Folded
<1> QED
  <2> HIDE DEF P
  <2> QED
    BY <1>4, <1>9, <1>10

(* Slots without weight add nothing.                                       *)
LEMMA EmptyAddsNothing ==
  ASSUME NEW S, IsFiniteSet(S), NEW g, \A x \in S : g[x] = 0
  PROVE  Total(g, S) = 0
<1> DEFINE Bad == {n \in Nat : \E s \in SUBSET S : Cardinality(s) = n /\ Total(g, s) # 0}
<1>1. SUFFICES ASSUME Total(g, S) # 0
               PROVE  FALSE
  OBVIOUS
<1>2. Cardinality(S) \in Bad /\ Bad \in SUBSET Nat
  BY <1>1, FS_CardinalityType
<1>3. PICK n \in Bad : \A m \in Bad : n <= m
  <2> HIDE DEF Bad
  <2> QED
    BY <1>2, Least
<1>4. PICK s \in SUBSET S : Cardinality(s) = n /\ Total(g, s) # 0
  BY <1>3
<1>5. s # {}
  BY <1>4, TotalEmpty
<1>6. PICK x \in s : TRUE
  BY <1>5
<1>7. IsFiniteSet(s) /\ IsFiniteSet(s \ {x})
  BY FS_Subset
<1>8. Total(g, s) = Total(g, {x}) + Total(g, s \ {x})
  <2>1. {x} \in SUBSET s /\ \A y \in s : g[y] \in Nat
    OBVIOUS
  <2> HIDE DEF Bad
  <2> QED
    BY <1>7, <2>1, TotalSplit
<1>9. Total(g, {x}) = 0
  <2>1. g[x] = 0 /\ g[x] \in Nat
    OBVIOUS
  <2> QED
    BY ONLY <2>1, TotalOne
<1>10. Total(g, s \ {x}) # 0
  BY <1>4, <1>8, <1>9
<1>11. Cardinality(s \ {x}) \in Nat /\ Cardinality(s \ {x}) = Cardinality(s) - 1
  BY Taken
<1>12. Cardinality(s \ {x}) \in Bad
  BY <1>10, <1>11
<1> QED
  BY <1>3, <1>4, <1>11, <1>12

(* What one slot contributes.                                              *)
LEMMA SlotWeight ==
  ASSUME CacheShape, NEW g, \A i \in Slots : g[i] \in Nat, NEW i \in Slots
  PROVE  Total(g, Slots) = g[i] + Total(g, Slots \ {i}) /\ Total(g, Slots \ {i}) \in Nat
<1>1. IsFiniteSet(Slots) /\ IsFiniteSet(Slots \ {i})
  BY SlotsAreFinite, FS_Subset
<1>2. {i} \in SUBSET Slots
  OBVIOUS
<1>3. Total(g, Slots) = Total(g, {i}) + Total(g, Slots \ {i})
  BY <1>1, <1>2, TotalSplit
<1>4. Total(g, {i}) = g[i]
  BY TotalOne
<1>5. Total(g, Slots \ {i}) \in Nat
  BY <1>1, TotalNat
<1> QED
  BY <1>3, <1>4, <1>5

(* Filling a slot changes the sum by the difference.                       *)
LEMMA FilledSlot ==
  ASSUME CacheShape, NEW e, e = [i \in Slots |-> e[i]], \A i \in Slots : e[i].bytes \in Nat,
         NEW i \in Slots, NEW x, x.bytes \in Nat
  PROVE  /\ \A j \in Slots : [e EXCEPT ![i] = x][j].bytes \in Nat
         /\ Total(Weight([e EXCEPT ![i] = x]), Slots) + e[i].bytes
              = Total(Weight(e), Slots) + x.bytes
         /\ Total(Weight(e), Slots) \in Nat
         /\ e[i].bytes <= Total(Weight(e), Slots)
         /\ Total(Weight([e EXCEPT ![i] = x]), Slots) \in Nat
<1> PICK d : d = [e EXCEPT ![i] = x]
  OBVIOUS
<1> PICK g : g = Weight(e)
  OBVIOUS
<1> PICK h : h = Weight(d)
  OBVIOUS
<1>1. d[i] = x /\ \A j \in Slots : j # i => d[j] = e[j]
  OBVIOUS
<1>2. \A j \in Slots : g[j] = e[j].bytes /\ g[j] \in Nat
  BY DEF Weight
<1>3. \A j \in Slots : h[j] = d[j].bytes /\ h[j] \in Nat
  BY <1>1 DEF Weight
<1>4. IsFiniteSet(Slots \ {i})
  BY SlotsAreFinite, FS_Subset
<1>5. Total(g, Slots \ {i}) = Total(h, Slots \ {i})
  <2>1. \A j \in Slots \ {i} : g[j] = h[j]
    BY <1>1, <1>2, <1>3
  <2> QED
    BY ONLY <1>4, <2>1, TotalSame
<1>6. Total(g, Slots) = g[i] + Total(g, Slots \ {i}) /\ Total(g, Slots \ {i}) \in Nat
  BY <1>2, SlotWeight
<1>7. Total(h, Slots) = h[i] + Total(h, Slots \ {i}) /\ Total(h, Slots \ {i}) \in Nat
  BY <1>3, SlotWeight
<1>8. g[i] = e[i].bytes /\ h[i] = x.bytes
  BY <1>1, <1>2, <1>3
<1>9. \A j \in Slots : d[j].bytes \in Nat
  BY <1>3
<1> QED
  BY <1>5, <1>6, <1>7, <1>8, <1>9

-----------------------------------------------------------------------------
(* Removal and eviction.                                                   *)

(* Removing an entry takes its bytes from the counter.                     *)
LEMMA WithoutIsCounted ==
  ASSUME CacheShape, NEW shard, Counted(shard), NEW i \in Slots
  PROVE  /\ Counted(Without(shard, i))
         /\ Without(shard, i).entries = [shard.entries EXCEPT ![i] = NoEntry]
         /\ Without(shard, i).hand = shard.hand /\ Without(shard, i).age = shard.age
         /\ Without(shard, i).bytes <= shard.bytes
<1> PICK w : w = Without(shard, i)
  OBVIOUS
<1> PICK e : e = shard.entries
  OBVIOUS
<1> PICK d : d = [e EXCEPT ![i] = NoEntry]
  OBVIOUS
<1>1. /\ w.entries = d /\ w.bytes = shard.bytes - e[i].bytes
      /\ w.hand = shard.hand /\ w.age = shard.age
      /\ w = [entries |-> w.entries, bytes |-> w.bytes, hand |-> w.hand, age |-> w.age]
  <2> PICK b, h, a : b = shard.bytes /\ h = shard.hand /\ a = shard.age
    OBVIOUS
  <2>1. shard = [entries |-> e, bytes |-> b, hand |-> h, age |-> a]
    BY DEF Counted
  <2> HIDE DEF Counted
  <2>2. w = [entries |-> d, bytes |-> b - e[i].bytes, hand |-> h, age |-> a]
    BY <2>1 DEF Without
  <2> QED
    BY <2>2
<1>2. /\ e = [j \in Slots |-> e[j]] /\ \A j \in Slots : e[j].bytes \in Nat
      /\ shard.bytes \in Nat /\ shard.bytes = Total(Weight(e), Slots)
      /\ shard.hand \in Slots /\ shard.age \in [Slots -> Slots]
  BY DEF Counted
<1>3. NoEntry.bytes = 0 /\ NoEntry.bytes \in Nat
  BY DEF NoEntry
<1>4. /\ \A j \in Slots : d[j].bytes \in Nat
      /\ Total(Weight(d), Slots) + e[i].bytes = Total(Weight(e), Slots) + 0
      /\ e[i].bytes <= Total(Weight(e), Slots)
      /\ Total(Weight(d), Slots) \in Nat
  BY <1>2, <1>3, FilledSlot
<1>5. w.bytes \in Nat /\ w.bytes = Total(Weight(d), Slots) /\ w.bytes <= shard.bytes
  BY <1>1, <1>2, <1>4
<1>6. d = [j \in Slots |-> d[j]]
  BY <1>2
<1>7. Counted(w)
  BY <1>1, <1>2, <1>4, <1>5, <1>6 DEF Counted
<1> QED
  BY <1>1, <1>5, <1>7

(* One step of the hand, and k of them.                                    *)
Turn(shard) == [Without(shard, shard.hand) EXCEPT !.hand = (@ + 1) % SLOTS]
AreTurns(shard, n, f) == f = [k \in 0 .. n |-> IF k = 0 THEN shard ELSE Turn(f[k - 1])]

(* The recursive function of an eviction has a value.                      *)
LEMMA TurnsExist ==
  ASSUME NEW shard, NEW n \in Nat
  PROVE  \E f : AreTurns(shard, n, f)
<1> DEFINE Bad == {m \in Nat : ~\E f : AreTurns(shard, m, f)}
<1>1. SUFFICES ASSUME n \in Bad
               PROVE  FALSE
  OBVIOUS
<1>2. PICK m \in Bad : \A k \in Bad : m <= k
  <2>1. Bad \in SUBSET Nat /\ Bad # {}
    BY <1>1
  <2> HIDE DEF Bad
  <2> QED
    BY <2>1, Least
<1>3. m \in Nat /\ ~\E f : AreTurns(shard, m, f)
  BY <1>2
<1>4. m # 0
  <2> DEFINE f == [k \in {0} |-> shard]
  <2>1. AreTurns(shard, 0, f)
    <3>1. 0 .. 0 = {0}
      OBVIOUS
    <3>2. \A k \in {0} : (IF k = 0 THEN shard ELSE Turn(f[k - 1])) = shard
      OBVIOUS
    <3> QED
      BY <3>1, <3>2 DEF AreTurns
  <2> QED
    BY <1>3, <2>1
<1>5. m - 1 \in Nat /\ m - 1 \notin Bad
  BY <1>2, <1>3, <1>4
<1>6. PICK f : AreTurns(shard, m - 1, f)
  BY <1>5
<1> DEFINE g == [k \in 0 .. m |-> IF k = m THEN Turn(f[m - 1]) ELSE f[k]]
<1>7. ASSUME NEW k \in 0 .. m
      PROVE  g[k] = IF k = 0 THEN shard ELSE Turn(g[k - 1])
  <2> HIDE DEF Bad
  <2>1. \A j \in 0 .. m - 1 : f[j] = IF j = 0 THEN shard ELSE Turn(f[j - 1])
    BY <1>6 DEF AreTurns
  <2>2. \A j \in 0 .. m - 1 : g[j] = f[j]
    BY <1>3
  <2>3. CASE k = m
    <3>1. g[k] = Turn(f[m - 1]) /\ m - 1 \in 0 .. m - 1
      BY <1>3, <1>4, <2>3
    <3> QED
      BY <1>4, <2>2, <2>3, <3>1
  <2>4. CASE k # m
    <3>1. k \in 0 .. m - 1 /\ (k # 0 => k - 1 \in 0 .. m - 1)
      BY <1>3, <2>4
    <3> HIDE DEF g
    <3> QED
      BY <2>1, <2>2, <3>1
  <2> QED
    BY <2>3, <2>4
<1>8. AreTurns(shard, m, g)
  <2>1. g = [k \in 0 .. m |-> g[k]]
    OBVIOUS
  <2> HIDE DEF g
  <2>2. [k \in 0 .. m |-> g[k]] = [k \in 0 .. m |-> IF k = 0 THEN shard ELSE Turn(g[k - 1])]
    BY <1>7
  <2> QED
    BY <2>1, <2>2 DEF AreTurns
<1> QED
  BY <1>3, <1>8

(* How many steps of the hand reach slot i, and where it is after k.       *)
Distance(h, i) == IF i >= h THEN i - h ELSE i + SLOTS - h
HandAfter(h, k) == IF h + k < SLOTS THEN h + k ELSE h + k - SLOTS

(* A step of the hand empties its slot.                                    *)
LEMMA TurnIsCounted ==
  ASSUME CacheShape, NEW shard, Counted(shard)
  PROVE  /\ Counted(Turn(shard))
         /\ Turn(shard).entries = [shard.entries EXCEPT ![shard.hand] = NoEntry]
         /\ Turn(shard).hand = IF shard.hand + 1 = SLOTS THEN 0 ELSE shard.hand + 1
         /\ Turn(shard).age = shard.age
<1> PICK i \in Slots : i = shard.hand
  BY DEF Counted
<1> PICK w : w = Without(shard, i)
  OBVIOUS
<1>1. Counted(w) /\ w.entries = [shard.entries EXCEPT ![i] = NoEntry] /\ w.hand = i /\ w.age = shard.age
  BY WithoutIsCounted
<1> PICK n : n = (i + 1) % SLOTS
  OBVIOUS
<1>2. n = (IF i + 1 = SLOTS THEN 0 ELSE i + 1) /\ n \in Slots
  BY NextSlot DEF Slots, CacheShape
<1>3. Turn(shard) = [w EXCEPT !.hand = n]
  BY <1>1 DEF Turn
<1>4. Turn(shard) = [entries |-> w.entries, bytes |-> w.bytes, hand |-> n, age |-> w.age]
  <2> PICK e, b, h, a : e = w.entries /\ b = w.bytes /\ h = w.hand /\ a = w.age
    OBVIOUS
  <2>1. w = [entries |-> e, bytes |-> b, hand |-> h, age |-> a]
    BY <1>1 DEF Counted
  <2> QED
    BY <1>3, <2>1
<1>5. Counted(Turn(shard))
  BY <1>1, <1>2, <1>4 DEF Counted
<1> QED
  BY <1>1, <1>2, <1>4, <1>5

(* After k steps of the hand.                                              *)
LEMMA TurnsEmpty ==
  ASSUME CacheShape, NEW shard, Counted(shard), NEW f, AreTurns(shard, SLOTS, f),
         NEW n \in 0 .. SLOTS
  PROVE  /\ Counted(f[n]) /\ f[n].age = shard.age
         /\ \A i \in Slots : f[n].entries[i] = shard.entries[i] \/ f[n].entries[i] = NoEntry
         /\ \A i \in Slots : Distance(shard.hand, i) < n => f[n].entries[i] = NoEntry
<1> PICK h \in Slots : h = shard.hand
  BY DEF Counted
<1>0. SLOTS \in Nat /\ SLOTS > 0
  BY DEF CacheShape
<1> DEFINE Good(k) ==
             /\ Counted(f[k]) /\ f[k].age = shard.age /\ f[k].hand = HandAfter(h, k)
             /\ \A i \in Slots : f[k].entries[i] = shard.entries[i] \/ f[k].entries[i] = NoEntry
             /\ \A i \in Slots : Distance(h, i) < k => f[k].entries[i] = NoEntry
           Bad == {k \in 0 .. SLOTS : ~Good(k)}
<1>1. SUFFICES ASSUME n \in Bad
               PROVE  FALSE
  OBVIOUS
<1>2. PICK m \in Bad : \A k \in Bad : m <= k
  <2>1. Bad \in SUBSET Nat /\ Bad # {}
    BY <1>0, <1>1
  <2> HIDE DEF Bad
  <2> QED
    BY <2>1, Least
<1>3. m \in 0 .. SLOTS /\ ~Good(m)
  BY <1>2
<1>4. \A k \in 0 .. SLOTS : f[k] = IF k = 0 THEN shard ELSE Turn(f[k - 1])
  BY DEF AreTurns
<1>5. CASE m = 0
  <2>1. f[0] = shard
    BY <1>0, <1>4
  <2>2. HandAfter(h, 0) = h /\ \A i \in Slots : ~(Distance(h, i) < 0)
    BY <1>0 DEF HandAfter, Distance, Slots
  <2>3. Good(0)
    BY <2>1, <2>2
  <2> QED
    BY <1>3, <1>5, <2>3
<1>6. CASE m # 0
  <2> PICK k \in 0 .. SLOTS - 1 : m = k + 1
    <3>1. m - 1 \in 0 .. SLOTS - 1 /\ m = (m - 1) + 1
      BY <1>0, <1>3, <1>6
    <3> QED
      BY ONLY <3>1
  <2>1. Good(k)
    <3>1. k \in 0 .. SLOTS /\ ~(m <= k)
      BY <1>0
    <3>2. k \notin Bad
      BY <1>2, <3>1
    <3> HIDE DEF Good
    <3> QED
      BY <3>1, <3>2
  <2> PICK p : p = f[k]
    OBVIOUS
  <2> PICK q : q = f[m]
    OBVIOUS
  <2>2. q = Turn(p)
    <3>1. m \in 0 .. SLOTS /\ m # 0 /\ m - 1 = k
      BY <1>0, <1>3
    <3> HIDE DEF Good, Bad
    <3> QED
      BY <1>4, <3>1
  <2>3. /\ Counted(p) /\ p.age = shard.age /\ p.hand = HandAfter(h, k)
        /\ \A i \in Slots : p.entries[i] = shard.entries[i] \/ p.entries[i] = NoEntry
        /\ \A i \in Slots : Distance(h, i) < k => p.entries[i] = NoEntry
    BY <2>1
  <2>4. /\ Counted(q) /\ q.entries = [p.entries EXCEPT ![p.hand] = NoEntry]
        /\ q.hand = (IF p.hand + 1 = SLOTS THEN 0 ELSE p.hand + 1) /\ q.age = p.age
    BY ONLY CacheShape, <2>2, <2>3, TurnIsCounted
  <2>5. q.hand = HandAfter(h, m)
    BY ONLY <1>0, <2>3, <2>4, h \in Slots, k \in 0 .. SLOTS - 1, m = k + 1 DEF HandAfter, Slots
  <2>6. p.entries = [i \in Slots |-> p.entries[i]] /\ p.hand \in Slots
    BY <2>3 DEF Counted
  <2>7. \A i \in Slots : q.entries[i] = IF i = p.hand THEN NoEntry ELSE p.entries[i]
    BY <2>4, <2>6
  <2>8. \A i \in Slots : Distance(h, i) < m => Distance(h, i) < k \/ i = p.hand
    BY ONLY <1>0, <2>3, h \in Slots, k \in 0 .. SLOTS - 1, m = k + 1 DEF HandAfter, Distance, Slots
  <2>9. Good(m)
    <3>1. \A i \in Slots : q.entries[i] = shard.entries[i] \/ q.entries[i] = NoEntry
      BY <2>3, <2>7
    <3>2. \A i \in Slots : Distance(h, i) < m => q.entries[i] = NoEntry
      BY <2>3, <2>7, <2>8
    <3> QED
      BY <2>3, <2>4, <2>5, <3>1, <3>2
  <2> HIDE DEF Good
  <2> QED
    BY <1>3, <2>9
<1> QED
  BY <1>5, <1>6

(* A full round of the hand empties the shard, so an entry that fits the   *)
(* limit fits after some of it.                                            *)
LEMMA EvictionFits ==
  ASSUME CacheShape, NEW shard, Counted(shard), NEW b \in Nat, b <= Limit
  PROVE  /\ Counted(Evicted(shard, b)) /\ Evicted(shard, b).bytes + b <= Limit
         /\ Evicted(shard, b).age = shard.age
         /\ \A i \in Slots : \/ Evicted(shard, b).entries[i] = shard.entries[i]
                             \/ Evicted(shard, b).entries[i] = NoEntry
<1>0. SLOTS \in Nat /\ SLOTS > 0
  BY DEF CacheShape
<1> DEFINE P(g) == g = [k \in 0 .. SLOTS |->
              IF k = 0 THEN shard
              ELSE [Without(g[k - 1], g[k - 1].hand) EXCEPT !.hand = (@ + 1) % SLOTS]]
<1>1. ASSUME NEW g
      PROVE  P(g) <=> AreTurns(shard, SLOTS, g)
  BY DEF AreTurns, Turn
<1> PICK f : f = CHOOSE g : P(g)
  OBVIOUS
<1>2. P(f)
  <2>1. \E g : AreTurns(shard, SLOTS, g)
    BY <1>0, TurnsExist
  <2>2. \E g : P(g)
    BY <1>1, <2>1
  <2> HIDE DEF P
  <2> QED
    BY <2>2
<1>3. AreTurns(shard, SLOTS, f)
  <2> HIDE DEF P
  <2>1. P(f) <=> AreTurns(shard, SLOTS, f)
    BY ONLY <1>1
  <2> QED
    BY <1>2, <2>1
<1> DEFINE Fits == {k \in 0 .. SLOTS : f[k].bytes + b <= Limit}
<1>4. Evicted(shard, b) = f[Min(Fits)]
  BY DEF Evicted
<1> HIDE DEF P
<1>5. \A n \in 0 .. SLOTS :
         /\ Counted(f[n]) /\ f[n].age = shard.age
         /\ \A i \in Slots : f[n].entries[i] = shard.entries[i] \/ f[n].entries[i] = NoEntry
         /\ \A i \in Slots : Distance(shard.hand, i) < n => f[n].entries[i] = NoEntry
  BY ONLY CacheShape, Counted(shard), <1>3, TurnsEmpty
<1>6. SLOTS \in Fits
  <2> PICK p : p = f[SLOTS]
    OBVIOUS
  <2>1. \A i \in Slots : Distance(shard.hand, i) < SLOTS
    <3>1. shard.hand \in Slots
      BY DEF Counted
    <3> QED
      BY <1>0, <3>1 DEF Distance, Slots
  <2>2. Counted(p) /\ \A i \in Slots : p.entries[i] = NoEntry
    BY <1>0, <1>5, <2>1
  <2>3. \A i \in Slots : Weight(p.entries)[i] = 0
    BY <2>2 DEF Weight, NoEntry
  <2>4. Total(Weight(p.entries), Slots) = 0
    BY <2>3, SlotsAreFinite, EmptyAddsNothing
  <2>5. p.bytes = 0
    BY <2>2, <2>4 DEF Counted
  <2> QED
    BY <1>0, <2>5
<1>7. Min(Fits) \in Fits
  <2>1. Fits \in SUBSET Nat
    BY <1>0
  <2>2. \E x \in Fits : \A y \in Fits : x <= y
    <3> HIDE DEF Fits
    <3> QED
      BY <1>6, <2>1, Least
  <2> QED
    BY <2>2 DEF Min
<1> QED
  BY <1>4, <1>5, <1>7

-----------------------------------------------------------------------------
(* Insertion.                                                              *)

(* An insertion keeps a shard exact: the page is held nowhere else, since  *)
(* its own ways were searched and no other slot may hold it.               *)
LEMMA InsertionIsExact ==
  ASSUME CacheShape, file \in Seq(Page), NEW s, NEW shard, Exact(file, s, shard),
         NEW id \in 1 .. Len(file), s = ShardOf(id), NEW tree, file[id].tree = tree
  PROVE  Exact(file, s, Insertion(shard, tree, id))
<1> PICK page \in Page : page = file[id]
  OBVIOUS
<1>0. page.bytes \in Nat /\ id \in Nat /\ id # 0
  BY DEF Page
<1> PICK b \in Nat : b = page.bytes
  BY <1>0
<1>1. CASE b > Limit \/ Cached(shard, id) # {}
  BY <1>1 DEF Insertion
<1>2. CASE ~(b > Limit \/ Cached(shard, id) # {})
  <2> PICK index : index = Victim(shard, id)
    OBVIOUS
  <2> PICK w : w = Without(shard, index)
    OBVIOUS
  <2> PICK kept : kept = Evicted(w, b)
    OBVIOUS
  <2> PICK e : e = [id |-> id, tree |-> tree, maxRef |-> page.maxRef, bytes |-> b]
    OBVIOUS
  <2> PICK n : n = Insertion(shard, tree, id)
    OBVIOUS
  <2>1. Counted(shard) /\ index \in Ways(id) /\ index \in Slots
    BY <1>0, VictimIsWay, WaysAreSlots DEF Exact
  <2>2. Counted(w) /\ w.entries = [shard.entries EXCEPT ![index] = NoEntry]
    BY ONLY CacheShape, <2>1, w = Without(shard, index), WithoutIsCounted
  <2>3. b <= Limit
    <3>1. ~(b > Limit) /\ Limit \in Nat
      BY ONLY CacheShape, <1>2 DEF CacheShape
    <3> QED
      BY ONLY <3>1, b \in Nat
  <2>4. /\ Counted(kept) /\ kept.bytes + b <= Limit
        /\ \A i \in Slots : kept.entries[i] = w.entries[i] \/ kept.entries[i] = NoEntry
    <3>1. /\ Counted(Evicted(w, b)) /\ Evicted(w, b).bytes + b <= Limit
          /\ \A i \in Slots : \/ Evicted(w, b).entries[i] = w.entries[i]
                              \/ Evicted(w, b).entries[i] = NoEntry
      BY ONLY CacheShape, b \in Nat, <2>2, <2>3, EvictionFits
    <3> QED
      BY ONLY <3>1, kept = Evicted(w, b)
  <2>5. /\ n.entries = [kept.entries EXCEPT ![index] = e] /\ n.bytes = kept.bytes + b
        /\ n.hand = kept.hand /\ n.age = Used(kept.age, index)
        /\ n = [entries |-> n.entries, bytes |-> n.bytes, hand |-> n.hand, age |-> n.age]
    <3> PICK d, c, h, a : d = kept.entries /\ c = kept.bytes /\ h = kept.hand /\ a = kept.age
      OBVIOUS
    <3>1. kept = [entries |-> d, bytes |-> c, hand |-> h, age |-> a]
      BY <2>4 DEF Counted
    <3>2. n = [kept EXCEPT !.entries[index] = e, !.bytes = @ + b, !.age = Used(@, index)]
      BY <1>2 DEF Insertion
    <3>3. n = [entries |-> [d EXCEPT ![index] = e], bytes |-> c + b, hand |-> h, age |-> Used(a, index)]
      BY ONLY <3>1, <3>2
    <3> QED
      BY <3>3
  <2>6. /\ kept.entries = [i \in Slots |-> kept.entries[i]]
        /\ \A i \in Slots : kept.entries[i].bytes \in Nat
        /\ kept.bytes \in Nat /\ kept.bytes = Total(Weight(kept.entries), Slots)
        /\ kept.hand \in Slots /\ kept.age \in [Slots -> Slots]
        /\ shard.entries = [i \in Slots |-> shard.entries[i]]
    BY <2>1, <2>4 DEF Counted
  <2>7. \A i \in Slots : w.entries[i] = IF i = index THEN NoEntry ELSE shard.entries[i]
    BY <2>1, <2>2, <2>6
  <2>8. kept.entries[index] = NoEntry /\ NoEntry.bytes = 0 /\ NoEntry.id = 0
    BY <2>1, <2>4, <2>7 DEF NoEntry
  <2>9. \A i \in Slots : n.entries[i] = IF i = index THEN e ELSE kept.entries[i]
    BY <2>1, <2>5, <2>6
  <2>10. /\ \A i \in Slots : n.entries[i].bytes \in Nat
         /\ n.bytes = Total(Weight(n.entries), Slots)
    <3> PICK d : d = kept.entries
      OBVIOUS
    <3>1. e.bytes \in Nat /\ e.bytes = b
      BY ONLY b \in Nat, e = [id |-> id, tree |-> tree, maxRef |-> page.maxRef, bytes |-> b]
    <3>2. /\ \A i \in Slots : [d EXCEPT ![index] = e][i].bytes \in Nat
          /\ Total(Weight([d EXCEPT ![index] = e]), Slots) + d[index].bytes
               = Total(Weight(d), Slots) + e.bytes
          /\ Total(Weight([d EXCEPT ![index] = e]), Slots) \in Nat
      BY ONLY CacheShape, d = kept.entries, <2>1, <2>6, <3>1, FilledSlot
    <3>3. n.entries = [d EXCEPT ![index] = e] /\ d[index].bytes = 0
      BY <2>5, <2>8
    <3>4. kept.bytes = Total(Weight(d), Slots) /\ kept.bytes \in Nat
      BY <2>6
    <3>5. Total(Weight(n.entries), Slots) = kept.bytes + b
      BY ONLY <3>1, <3>2, <3>3, <3>4, b \in Nat
    <3> QED
      BY ONLY <2>5, <3>2, <3>3, <3>5
  <2>11. n.entries = [i \in Slots |-> n.entries[i]] /\ n.bytes \in Nat
    BY ONLY <2>5, <2>6, b \in Nat
  <2>12. Counted(n)
    <3>1. n.age \in [Slots -> Slots]
      BY ONLY CacheShape, <2>1, <2>5, <2>6, UsedIsAge
    <3> QED
      BY <2>5, <2>6, <2>10, <2>11, <3>1 DEF Counted
  <2>13. n.bytes <= Limit
    BY <2>4, <2>5
  <2>14. /\ \A i \in Slots : shard.entries[i] # NoEntry => Holds(file, s, i, shard.entries[i])
         /\ \A i \in Slots, j \in Slots :
              shard.entries[i] # NoEntry /\ shard.entries[j].id = shard.entries[i].id => i = j
    BY DEF Exact
  <2>15. ASSUME NEW i \in Slots
         PROVE  shard.entries[i].id # id
    <3>1. CASE shard.entries[i] = NoEntry
      BY <1>0, <2>8, <3>1
    <3>2. CASE i \in Ways(id)
      BY <1>2, <3>2 DEF Cached
    <3>3. CASE shard.entries[i] # NoEntry /\ i \notin Ways(id)
      BY <2>14, <3>3 DEF Holds
    <3> QED
      BY <3>1, <3>2, <3>3
  <2>16. \A i \in Slots : \/ i = index /\ n.entries[i] = e
                          \/ i # index /\ n.entries[i] = shard.entries[i]
                          \/ i # index /\ n.entries[i] = NoEntry
    BY <2>4, <2>7, <2>9
  <2>17. Holds(file, s, index, e) /\ e.id = id
    BY <2>1 DEF Holds
  <2>18. \A i \in Slots : n.entries[i] # NoEntry => Holds(file, s, i, n.entries[i])
    BY <2>14, <2>16, <2>17
  <2>19. ASSUME NEW i \in Slots, NEW j \in Slots,
                n.entries[i] # NoEntry, n.entries[j].id = n.entries[i].id
         PROVE  i = j
    <3>1. n.entries[i].id # 0
      <4>1. Holds(file, s, i, n.entries[i])
        BY <2>18, <2>19
      <4> QED
        BY <4>1 DEF Holds
    <3>2. n.entries[j] # NoEntry
      BY <2>8, <2>19, <3>1
    <3>3. CASE i = index
      BY <2>15, <2>16, <2>17, <2>19, <3>2, <3>3
    <3>4. CASE j = index
      BY <2>15, <2>16, <2>17, <2>19, <3>2, <3>4
    <3>5. CASE i # index /\ j # index
      BY <2>14, <2>16, <2>19, <3>2, <3>5
    <3> QED
      BY <3>3, <3>4, <3>5
  <2> QED
    BY <2>12, <2>13, <2>18, <2>19 DEF Exact
<1> QED
  BY <1>1, <1>2

(* Using an entry keeps a shard exact.                                     *)
LEMMA UseIsExact ==
  ASSUME CacheShape, NEW f, NEW s, NEW shard, Exact(f, s, shard), NEW i \in Slots
  PROVE  Exact(f, s, [shard EXCEPT !.age = Used(@, i)])
<1> PICK e, b, h, a : e = shard.entries /\ b = shard.bytes /\ h = shard.hand /\ a = shard.age
  OBVIOUS
<1> PICK n : n = [shard EXCEPT !.age = Used(@, i)]
  OBVIOUS
<1>1. shard = [entries |-> e, bytes |-> b, hand |-> h, age |-> a] /\ a \in [Slots -> Slots]
  BY DEF Exact, Counted
<1>2. n = [entries |-> e, bytes |-> b, hand |-> h, age |-> Used(a, i)]
  BY ONLY <1>1, n = [shard EXCEPT !.age = Used(@, i)]
<1>3. Used(a, i) \in [Slots -> Slots]
  BY <1>1, UsedIsAge
<1>4. n.entries = e /\ n.bytes = b /\ n.hand = h /\ n.age = Used(a, i)
  BY <1>2
<1> QED
  BY <1>2, <1>3, <1>4 DEF Exact, Counted

(* The file grows under the cache and its readers.                         *)
LEMMA GrowthIsHarmless ==
  ASSUME NEW f \in Seq(Page), NEW node \in Page
  PROVE  /\ \A s, shard : Exact(f, s, shard) => Exact(Append(f, node), s, shard)
         /\ \A q : Asks(f, q) => Asks(Append(f, node), q)
<1> PICK g : g = Append(f, node)
  OBVIOUS
<1>1. Len(g) = Len(f) + 1 /\ \A i \in 1 .. Len(f) : g[i] = f[i]
  OBVIOUS
<1>2. Len(f) \in Nat
  OBVIOUS
<1>3. ASSUME NEW s, NEW shard, Exact(f, s, shard)
      PROVE  Exact(g, s, shard)
  <2>1. \A i \in Slots : shard.entries[i] # NoEntry => Holds(g, s, i, shard.entries[i])
    <3> SUFFICES ASSUME NEW i \in Slots, shard.entries[i] # NoEntry
                 PROVE  Holds(g, s, i, shard.entries[i])
      OBVIOUS
    <3>1. Holds(f, s, i, shard.entries[i])
      BY <1>3 DEF Exact
    <3> QED
      BY <1>1, <1>2, <3>1 DEF Holds
  <2> QED
    BY <1>3, <2>1 DEF Exact
<1>4. ASSUME NEW q, Asks(f, q)
      PROVE  Asks(g, q)
  <2>1. ValidRef(q.id, q.count) /\ q.id \in Nat => g[q.id] = f[q.id]
    BY <1>1, <1>2, <1>4 DEF Asks, ValidRef
  <2>2. q.count \in 1 .. Len(g) + 1
    BY <1>1, <1>2, <1>4 DEF Asks
  <2>3. q.stage \in {"read", "insert"} => ValidRef(q.id, q.count) /\ q.id \in Nat
    BY <1>4 DEF Asks
  <2>4. q.stage = "insert" => g[q.id].tree = q.tree /\ g[q.id].maxRef < q.count
    BY <1>4, <2>1, <2>3 DEF Asks
  <2>5. q.stage = "answered" =>
          /\ q.id \in Nat
          /\ q.ok = (ValidRef(q.id, q.count) /\ g[q.id].tree = q.tree /\ g[q.id].maxRef < q.count)
    <3> SUFFICES ASSUME q.stage = "answered"
                 PROVE  /\ q.id \in Nat
                        /\ q.ok = (ValidRef(q.id, q.count) /\ g[q.id].tree = q.tree
                                     /\ g[q.id].maxRef < q.count)
      OBVIOUS
    <3>1. /\ q.id \in Nat
          /\ q.ok = (ValidRef(q.id, q.count) /\ f[q.id].tree = q.tree /\ f[q.id].maxRef < q.count)
      BY <1>4 DEF Asks
    <3>2. CASE ValidRef(q.id, q.count)
      BY <2>1, <3>1, <3>2
    <3>3. CASE ~ValidRef(q.id, q.count)
      BY <3>1, <3>3
    <3> QED
      BY <3>2, <3>3
  <2> QED
    BY <1>4, <2>2, <2>3, <2>4, <2>5 DEF Asks
<1> QED
  BY <1>3, <1>4

-----------------------------------------------------------------------------
(* The steps.                                                              *)

(* At first nothing is cached.                                             *)
LEMMA InitCache ==
  ASSUME CacheShape, CacheInit
  PROVE  CacheInv
<1> PICK e : e = [i \in Slots |-> NoEntry]
  OBVIOUS
<1> PICK a : a = [i \in Slots |-> i]
  OBVIOUS
<1> PICK shard : shard = [entries |-> e, bytes |-> 0, hand |-> 0, age |-> a]
  OBVIOUS
<1>1. shards = [s \in 0 .. SHARDS - 1 |-> shard]
  BY DEF CacheInit, Slots
<1>2. \A i \in Slots : e[i] = NoEntry /\ Weight(e)[i] = 0 /\ e[i].bytes \in Nat
  BY DEF Weight, NoEntry
<1>3. Total(Weight(e), Slots) = 0
  BY <1>2, SlotsAreFinite, EmptyAddsNothing
<1>4. 0 \in Slots
  BY DEF Slots, CacheShape
<1>5. shard.entries = e /\ shard.bytes = 0 /\ shard.hand = 0 /\ shard.age = a
  OBVIOUS
<1>6. Counted(shard)
  BY <1>2, <1>3, <1>4, <1>5 DEF Counted
<1>7. \A s \in 0 .. SHARDS - 1 : Exact(file, s, shard)
  BY <1>2, <1>5, <1>6 DEF Exact, CacheShape
<1>8. file \in Seq(Page) /\ Len(file) = 0
  BY DEF CacheInit
<1> PICK q : q = [count |-> 1, stage |-> "idle", tree |-> "none", id |-> 0, ok |-> FALSE]
  OBVIOUS
<1>9. Asks(file, q)
  BY <1>8 DEF Asks
<1>10. reader = [r \in Readers |-> q]
  BY DEF CacheInit
<1> QED
  BY <1>1, <1>7, <1>8, <1>9, <1>10 DEF CacheInv

(* The invariant, from what it says of the next state.                     *)
LEMMA CacheAfter ==
  ASSUME file' \in Seq(Page), shards' = [s \in 0 .. SHARDS - 1 |-> shards'[s]],
         \A s \in 0 .. SHARDS - 1 : Exact(file', s, shards'[s]),
         reader' = [r \in Readers |-> reader'[r]], \A r \in Readers : Asks(file', reader'[r])
  PROVE  CacheInv'
BY DEF CacheInv, Page, Exact, Counted, Holds, Asks, Slots, Weight, NoEntry, ShardOf, Ways, ValidRef,
       Total, IsSum, Partial, Pick, TreeKinds

(* A page is appended, or not.                                             *)
LEMMA AppendCache ==
  ASSUME CacheShape, CacheInv, NEW node \in Nodes, AppendPage(node)
  PROVE  CacheInv'
<1>1. shards' = shards /\ reader' = reader /\ (file' = Append(file, node) \/ file' = file)
  BY DEF AppendPage
<1>2. node \in Page
  BY DEF CacheShape
<1>3. /\ file \in Seq(Page) /\ shards = [s \in 0 .. SHARDS - 1 |-> shards[s]]
      /\ \A s \in 0 .. SHARDS - 1 : Exact(file, s, shards[s])
      /\ reader = [r \in Readers |-> reader[r]] /\ \A r \in Readers : Asks(file, reader[r])
  BY DEF CacheInv
<1>4. CASE file' = file
  BY ONLY <1>1, <1>3, <1>4, CacheAfter
<1>5. CASE file' = Append(file, node)
  <2> PICK f \in Seq(Page) : f = file
    BY <1>3
  <2>0. Append(f, node) \in Seq(Page)
    BY <1>2
  <2> PICK g \in Seq(Page) : g = Append(f, node)
    BY ONLY <2>0
  <2>1. /\ \A s, shard : Exact(f, s, shard) => Exact(g, s, shard)
        /\ \A q : Asks(f, q) => Asks(g, q)
    BY <1>2, GrowthIsHarmless
  <2>2. /\ file' = g /\ \A s \in 0 .. SHARDS - 1 : Exact(g, s, shards[s])
        /\ \A r \in Readers : Asks(g, reader[r])
    BY <1>3, <1>5, <2>1
  <2> QED
    BY ONLY <1>1, <1>3, <2>2, g \in Seq(Page), CacheAfter
<1> QED
  BY <1>1, <1>4, <1>5

(* A reader changes, and perhaps a shard.                                  *)
LEMMA ReaderCache ==
  ASSUME CacheShape, CacheInv, file' = file, NEW r \in Readers, NEW q, Asks(file, q),
         reader' = [reader EXCEPT ![r] = q],
         NEW s \in 0 .. SHARDS - 1, NEW shard, Exact(file, s, shard),
         shards' = shards \/ shards' = [shards EXCEPT ![s] = shard]
  PROVE  CacheInv'
<1>1. /\ file \in Seq(Page) /\ shards = [t \in 0 .. SHARDS - 1 |-> shards[t]]
      /\ \A t \in 0 .. SHARDS - 1 : Exact(file, t, shards[t])
      /\ reader = [p \in Readers |-> reader[p]] /\ \A p \in Readers : Asks(file, reader[p])
  BY DEF CacheInv
<1>2. reader' = [p \in Readers |-> reader'[p]] /\ \A p \in Readers : Asks(file, reader'[p])
  <2>1. \A p \in Readers : reader'[p] = IF p = r THEN q ELSE reader[p]
    BY <1>1
  <2>2. reader' = [p \in Readers |-> reader'[p]]
    BY <1>1
  <2> QED
    BY <1>1, <2>1, <2>2
<1>3. /\ shards' = [t \in 0 .. SHARDS - 1 |-> shards'[t]]
      /\ \A t \in 0 .. SHARDS - 1 : Exact(file, t, shards'[t])
  <2>1. CASE shards' = shards
    BY ONLY <1>1, <2>1
  <2>2. CASE shards' = [shards EXCEPT ![s] = shard]
    <3>1. \A t \in 0 .. SHARDS - 1 : shards'[t] = IF t = s THEN shard ELSE shards[t]
      BY <1>1, <2>2
    <3>2. shards' = [t \in 0 .. SHARDS - 1 |-> shards'[t]]
      BY <1>1, <2>2
    <3> QED
      BY <1>1, <3>1, <3>2
  <2> QED
    BY <2>1, <2>2
<1>4. /\ file' \in Seq(Page) /\ \A t \in 0 .. SHARDS - 1 : Exact(file', t, shards'[t])
      /\ \A p \in Readers : Asks(file', reader'[p])
  BY <1>1, <1>2, <1>3
<1> QED
  BY ONLY <1>2, <1>3, <1>4, CacheAfter

(* Some shard is exact: a step that leaves them all alone needs no other.  *)
LEMMA SomeShard ==
  ASSUME CacheShape, CacheInv
  PROVE  0 \in 0 .. SHARDS - 1 /\ Exact(file, 0, shards[0])
<1>1. 0 \in 0 .. SHARDS - 1
  BY DEF CacheShape
<1> QED
  BY <1>1 DEF CacheInv

(* The fields of a reader.                                                 *)
Request(c, g, t, i, o) == [count |-> c, stage |-> g, tree |-> t, id |-> i, ok |-> o]

(* A reader is pinned again.                                               *)
LEMMA PinCache ==
  ASSUME CacheShape, CacheInv, NEW r \in Readers, Pin(r)
  PROVE  CacheInv'
<1> PICK q : q = reader[r]
  OBVIOUS
<1> PICK n : n = Len(file) + 1
  OBVIOUS
<1> PICK p : p = [q EXCEPT !.count = n, !.stage = "idle"]
  OBVIOUS
<1>1. Asks(file, q) /\ file \in Seq(Page) /\ q = Request(q.count, q.stage, q.tree, q.id, q.ok)
  BY DEF CacheInv, Asks, Request
<1>2. PICK c, g, t, i, o : q = Request(c, g, t, i, o)
  BY <1>1
<1>3. file' = file /\ shards' = shards /\ reader' = [reader EXCEPT ![r] = p]
  BY DEF Pin, PageCount
<1>4. p.count = n /\ p.stage = "idle" /\ p = Request(p.count, p.stage, p.tree, p.id, p.ok)
  <2>1. p = Request(n, "idle", t, i, o)
    BY ONLY <1>2, p = [q EXCEPT !.count = n, !.stage = "idle"] DEF Request
  <2> QED
    BY ONLY <2>1 DEF Request
<1>5. n \in 1 .. Len(file) + 1
  BY <1>1
<1>6. Asks(file, p)
  BY <1>4, <1>5 DEF Asks, Request
<1> QED
  BY <1>3, <1>6, SomeShard, ReaderCache

(* An answer is right.                                                     *)
LEMMA AnswerAsks ==
  ASSUME NEW f, NEW p, p = Request(p.count, "answered", p.tree, p.id, p.ok),
         p.count \in 1 .. Len(f) + 1, p.id \in Nat,
         p.ok = (ValidRef(p.id, p.count) /\ f[p.id].tree = p.tree /\ f[p.id].maxRef < p.count)
  PROVE  Asks(f, p)
<1>1. p.stage = "answered"
  BY DEF Request
<1> QED
  BY <1>1 DEF Asks, Request

(* The page is read.                                                       *)
LEMMA ReadCache ==
  ASSUME CacheShape, CacheInv, NEW r \in Readers, ReadPage(r)
  PROVE  CacheInv'
<1> PICK q : q = reader[r]
  OBVIOUS
<1>1. /\ Asks(file, q) /\ file \in Seq(Page) /\ q = Request(q.count, q.stage, q.tree, q.id, q.ok)
      /\ q.stage = "read"
  BY DEF CacheInv, Asks, Request, ReadPage
<1>2. q.count \in 1 .. Len(file) + 1 /\ ValidRef(q.id, q.count) /\ q.id \in Nat
  BY <1>1 DEF Asks
<1> PICK c, g, t, i, o : q = Request(c, g, t, i, o)
  BY ONLY <1>1
<1>5. q.count = c /\ q.stage = g /\ q.tree = t /\ q.id = i /\ q.ok = o
  BY ONLY q = Request(c, g, t, i, o) DEF Request
<1>3. CASE Reads(q.tree, q.id, q.count)
  <2> PICK p : p = [q EXCEPT !.stage = "insert"]
    OBVIOUS
  <2>1. p = Request(c, "insert", t, i, o)
    BY ONLY q = Request(c, g, t, i, o), p = [q EXCEPT !.stage = "insert"] DEF Request
  <2>2. file' = file /\ shards' = shards /\ reader' = [reader EXCEPT ![r] = p]
    <3>1. reader' = [reader EXCEPT ![r].stage = "insert"]
      BY <1>3 DEF ReadPage
    <3>2. reader = [x \in Readers |-> reader[x]]
      BY DEF CacheInv
    <3>3. reader' = [reader EXCEPT ![r] = [reader[r] EXCEPT !.stage = "insert"]]
      BY ONLY <3>1, <3>2, r \in Readers
    <3> QED
      BY <3>3 DEF ReadPage
  <2>3. /\ p.count = q.count /\ p.stage = "insert" /\ p.tree = q.tree /\ p.id = q.id
        /\ p = Request(p.count, p.stage, p.tree, p.id, p.ok)
    BY ONLY <1>5, <2>1 DEF Request
  <2>4. Asks(file, p)
    BY <1>2, <1>3, <2>3 DEF Asks, Request, Reads
  <2> QED
    BY <2>2, <2>4, SomeShard, ReaderCache
<1>4. CASE ~Reads(q.tree, q.id, q.count)
  <2> PICK p : p = [q EXCEPT !.stage = "answered", !.ok = FALSE]
    OBVIOUS
  <2>1. p = Request(c, "answered", t, i, FALSE)
    BY ONLY q = Request(c, g, t, i, o), p = [q EXCEPT !.stage = "answered", !.ok = FALSE] DEF Request
  <2>2. file' = file /\ shards' = shards /\ reader' = [reader EXCEPT ![r] = p]
    BY <1>4 DEF ReadPage, Answer
  <2>3. FALSE = (ValidRef(q.id, q.count) /\ file[q.id].tree = q.tree /\ file[q.id].maxRef < q.count)
    BY <1>4 DEF Reads
  <2>4. /\ p = Request(p.count, "answered", p.tree, p.id, p.ok)
        /\ p.count = q.count /\ p.tree = q.tree /\ p.id = q.id /\ p.ok = FALSE
    BY ONLY <1>5, <2>1 DEF Request
  <2>5. p.ok = (ValidRef(p.id, p.count) /\ file[p.id].tree = p.tree /\ file[p.id].maxRef < p.count)
    BY ONLY <2>3, <2>4
  <2>6. Asks(file, p)
    BY ONLY <1>2, <2>4, <2>5, AnswerAsks
  <2> QED
    BY <2>2, <2>6, SomeShard, ReaderCache
<1> QED
  BY <1>3, <1>4

(* The node that was read is inserted, unless another reader was faster.   *)
LEMMA InsertCache ==
  ASSUME CacheShape, CacheInv, NEW r \in Readers, InsertNode(r)
  PROVE  CacheInv'
<1> PICK q : q = reader[r]
  OBVIOUS
<1>1. /\ Asks(file, q) /\ file \in Seq(Page) /\ q = Request(q.count, q.stage, q.tree, q.id, q.ok)
      /\ q.stage = "insert" /\ shards = [t \in 0 .. SHARDS - 1 |-> shards[t]]
  BY DEF CacheInv, Asks, Request, InsertNode
<1>2. /\ q.count \in 1 .. Len(file) + 1 /\ ValidRef(q.id, q.count) /\ q.id \in Nat
      /\ file[q.id].tree = q.tree /\ file[q.id].maxRef < q.count
  BY <1>1 DEF Asks
<1>3. q.id \in 1 .. Len(file)
  BY <1>1, <1>2 DEF ValidRef
<1> PICK s : s = ShardOf(q.id)
  OBVIOUS
<1>4. s \in 0 .. SHARDS - 1
  BY <1>2, WaysAreSlots
<1> PICK shard : shard = Insertion(shards[s], q.tree, q.id)
  OBVIOUS
<1>5. Exact(file, s, shards[s])
  BY <1>4 DEF CacheInv
<1>6. Exact(file, s, shard)
  BY <1>1, <1>2, <1>3, <1>5, InsertionIsExact
<1> PICK p : p = [q EXCEPT !.stage = "answered", !.ok = TRUE]
  OBVIOUS
<1>7. p = Request(q.count, "answered", q.tree, q.id, TRUE)
  <2> PICK c, g, t, i, o : q = Request(c, g, t, i, o)
    BY ONLY <1>1
  <2>1. p = Request(c, "answered", t, i, TRUE)
    BY ONLY q = Request(c, g, t, i, o), p = [q EXCEPT !.stage = "answered", !.ok = TRUE] DEF Request
  <2>2. q.count = c /\ q.tree = t /\ q.id = i
    BY ONLY q = Request(c, g, t, i, o) DEF Request
  <2> QED
    BY ONLY <2>1, <2>2
<1>8. /\ file' = file /\ shards' = [shards EXCEPT ![s] = shard]
      /\ reader' = [reader EXCEPT ![r] = p]
  BY DEF InsertNode, Answer
<1>9. TRUE = (ValidRef(q.id, q.count) /\ file[q.id].tree = q.tree /\ file[q.id].maxRef < q.count)
  BY <1>2
<1>10. Asks(file, p)
  <2>1. /\ p = Request(p.count, "answered", p.tree, p.id, p.ok)
        /\ p.count = q.count /\ p.tree = q.tree /\ p.id = q.id /\ p.ok = TRUE
    BY ONLY <1>7 DEF Request
  <2>2. p.ok = (ValidRef(p.id, p.count) /\ file[p.id].tree = p.tree /\ file[p.id].maxRef < p.count)
    BY ONLY <1>9, <2>1
  <2> QED
    BY ONLY <1>2, <2>1, <2>2, AnswerAsks
<1> QED
  BY <1>4, <1>6, <1>8, <1>10, ReaderCache

(* A hit decides as the page would: the entry is the page.                 *)
LEMMA LookupCache ==
  ASSUME CacheShape, CacheInv, NEW r \in Readers, NEW tree \in TreeKinds, NEW id \in Nat,
         Lookup(r, tree, id)
  PROVE  CacheInv'
<1> PICK q : q = reader[r]
  OBVIOUS
<1> PICK c : c = q.count
  OBVIOUS
<1> PICK s : s = ShardOf(id)
  OBVIOUS
<1> PICK shard : shard = shards[s]
  OBVIOUS
<1> PICK asked : asked = [q EXCEPT !.tree = tree, !.id = id]
  OBVIOUS
<1>1. /\ Asks(file, q) /\ file \in Seq(Page) /\ q = Request(q.count, q.stage, q.tree, q.id, q.ok)
      /\ shards = [t \in 0 .. SHARDS - 1 |-> shards[t]]
  BY DEF CacheInv, Asks, Request
<1>2. c \in 1 .. Len(file) + 1 /\ s \in 0 .. SHARDS - 1 /\ Ways(id) \subseteq Slots
  BY <1>1, WaysAreSlots DEF Asks
<1>3. Exact(file, s, shard)
  BY <1>2 DEF CacheInv
<1> PICK g, o : asked = Request(c, g, tree, id, o)
  <2> PICK d, g, t, i, o : q = Request(d, g, t, i, o)
    BY ONLY <1>1
  <2>1. asked = Request(d, g, tree, id, o)
    BY ONLY q = Request(d, g, t, i, o), asked = [q EXCEPT !.tree = tree, !.id = id] DEF Request
  <2>2. c = d
    BY ONLY q = Request(d, g, t, i, o), c = q.count DEF Request
  <2> QED
    BY <2>1, <2>2
<1>5. /\ file' = file
      /\ \/ /\ ~ValidRef(id, c)
            /\ reader' = [reader EXCEPT ![r] = [asked EXCEPT !.stage = "answered", !.ok = FALSE]]
            /\ shards' = shards
         \/ /\ ValidRef(id, c)
            /\ reader' = [reader EXCEPT ![r] = [asked EXCEPT !.stage = "read"]]
            /\ shards' = shards
         \/ /\ ValidRef(id, c)
            /\ \E i \in Cached(shard, id) :
                 /\ reader' = [reader EXCEPT ![r] = [asked EXCEPT !.stage = "answered",
                                  !.ok = HitIsValid(shard.entries[i], tree, id, c)]]
                 /\ shards' = IF HitIsValid(shard.entries[i], tree, id, c)
                                THEN [shards EXCEPT ![s].age = Used(@, i)] ELSE shards
  BY DEF Lookup
<1>6. CASE /\ ~ValidRef(id, c)
           /\ reader' = [reader EXCEPT ![r] = [asked EXCEPT !.stage = "answered", !.ok = FALSE]]
           /\ shards' = shards
  <2> PICK p : p = [asked EXCEPT !.stage = "answered", !.ok = FALSE]
    OBVIOUS
  <2>1. p = Request(c, "answered", tree, id, FALSE)
    BY ONLY asked = Request(c, g, tree, id, o),
            p = [asked EXCEPT !.stage = "answered", !.ok = FALSE] DEF Request
  <2>2. FALSE = (ValidRef(id, c) /\ file[id].tree = tree /\ file[id].maxRef < c)
    BY <1>6
  <2>3. Asks(file, p)
    <3>1. /\ p = Request(p.count, "answered", p.tree, p.id, p.ok)
          /\ p.count = c /\ p.tree = tree /\ p.id = id /\ p.ok = FALSE
      BY ONLY <2>1 DEF Request
    <3>2. p.ok = (ValidRef(p.id, p.count) /\ file[p.id].tree = p.tree /\ file[p.id].maxRef < p.count)
      BY ONLY <2>2, <3>1
    <3> QED
      BY ONLY <1>2, <3>1, <3>2, id \in Nat, AnswerAsks
  <2> QED
    BY <1>2, <1>3, <1>5, <1>6, <2>3, ReaderCache
<1>7. CASE /\ ValidRef(id, c)
           /\ reader' = [reader EXCEPT ![r] = [asked EXCEPT !.stage = "read"]]
           /\ shards' = shards
  <2> PICK p : p = [asked EXCEPT !.stage = "read"]
    OBVIOUS
  <2>1. p = Request(c, "read", tree, id, o)
    BY ONLY asked = Request(c, g, tree, id, o), p = [asked EXCEPT !.stage = "read"] DEF Request
  <2>2. /\ p.count = c /\ p.stage = "read" /\ p.tree = tree /\ p.id = id
        /\ p = Request(p.count, p.stage, p.tree, p.id, p.ok)
    BY ONLY <2>1 DEF Request
  <2>3. Asks(file, p)
    BY <1>2, <1>7, <2>2 DEF Asks, Request
  <2> QED
    BY <1>2, <1>3, <1>5, <1>7, <2>3, ReaderCache
<1>8. ASSUME ValidRef(id, c), NEW i \in Cached(shard, id),
             reader' = [reader EXCEPT ![r] = [asked EXCEPT !.stage = "answered",
                          !.ok = HitIsValid(shard.entries[i], tree, id, c)]],
             shards' = IF HitIsValid(shard.entries[i], tree, id, c)
                         THEN [shards EXCEPT ![s].age = Used(@, i)] ELSE shards
      PROVE  CacheInv'
  <2> PICK e : e = shard.entries[i]
    OBVIOUS
  <2> PICK v : v = HitIsValid(e, tree, id, c)
    OBVIOUS
  <2> PICK p : p = [asked EXCEPT !.stage = "answered", !.ok = v]
    OBVIOUS
  <2>1. i \in Slots /\ e.id = id /\ id # 0 /\ id < c
    BY <1>2, <1>8 DEF Cached, ValidRef
  <2>2. e # NoEntry
    BY <2>1 DEF NoEntry
  <2>3. Holds(file, s, i, e)
    BY <1>3, <2>1, <2>2 DEF Exact
  <2>4. e.tree = file[id].tree /\ e.maxRef = file[id].maxRef
    BY <2>1, <2>3 DEF Holds
  <2>5. v = (ValidRef(id, c) /\ file[id].tree = tree /\ file[id].maxRef < c)
    BY <1>8, <2>1, <2>4 DEF HitIsValid
  <2>6. p = Request(c, "answered", tree, id, v)
    BY ONLY asked = Request(c, g, tree, id, o),
            p = [asked EXCEPT !.stage = "answered", !.ok = v] DEF Request
  <2>7. Asks(file, p)
    <3>1. /\ p = Request(p.count, "answered", p.tree, p.id, p.ok)
          /\ p.count = c /\ p.tree = tree /\ p.id = id /\ p.ok = v
      BY ONLY <2>6 DEF Request
    <3>2. p.ok = (ValidRef(p.id, p.count) /\ file[p.id].tree = p.tree /\ file[p.id].maxRef < p.count)
      BY ONLY <2>5, <3>1
    <3> QED
      BY ONLY <1>2, <3>1, <3>2, id \in Nat, AnswerAsks
  <2> PICK used : used = [shard EXCEPT !.age = Used(@, i)]
    OBVIOUS
  <2>8. Exact(file, s, used)
    BY <1>3, <2>1, UseIsExact
  <2>9. shards' = shards \/ shards' = [shards EXCEPT ![s] = used]
    <3>1. CASE ~HitIsValid(shard.entries[i], tree, id, c)
      BY <1>8, <3>1
    <3>2. CASE HitIsValid(shard.entries[i], tree, id, c)
      <4>1. shards' = [shards EXCEPT ![s].age = Used(@, i)]
        BY <1>8, <3>2
      <4>2. shards' = [shards EXCEPT ![s] = [shards[s] EXCEPT !.age = Used(shards[s].age, i)]]
        BY <1>1, <1>2, <4>1
      <4> QED
        BY <4>2
    <3> QED
      BY <3>1, <3>2
  <2>10. reader' = [reader EXCEPT ![r] = p]
    BY <1>8
  <2> QED
    BY <1>2, <1>5, <2>7, <2>8, <2>9, <2>10, ReaderCache
<1> QED
  BY <1>5, <1>6, <1>7, <1>8

-----------------------------------------------------------------------------
(* CacheInv is inductive.                                                  *)
LEMMA CacheStep ==
  ASSUME CacheShape, CacheInv, [CacheNext]_cacheVars
  PROVE  CacheInv'
<1>1. CASE UNCHANGED cacheVars
  <2>1. file' = file /\ shards' = shards /\ reader' = reader
    BY <1>1 DEF cacheVars
  <2> QED
    BY <2>1, CacheAfter DEF CacheInv
<1>2. ASSUME NEW node \in Nodes, AppendPage(node)
      PROVE  CacheInv'
  BY <1>2, AppendCache
<1>3. ASSUME NEW r \in Readers, Pin(r) \/ ReadPage(r) \/ InsertNode(r)
      PROVE  CacheInv'
  BY <1>3, PinCache, ReadCache, InsertCache
<1>4. ASSUME NEW r \in Readers, NEW tree \in TreeKinds, NEW id \in 0 .. MaxPages - 1,
             Lookup(r, tree, id)
      PROVE  CacheInv'
  <2>1. id \in Nat
    BY DEF CacheShape
  <2> QED
    BY <1>4, <2>1, LookupCache
<1> QED
  BY <1>1, <1>2, <1>3, <1>4 DEF CacheNext

(* The invariant says that the cache is exact and not observed.            *)
LEMMA InvIsTransparent ==
  ASSUME CacheShape, CacheInv
  PROVE  CacheIsTransparent
<1>1. ASSUME NEW r \in Readers, reader[r].stage = "answered"
      PROVE  reader[r].ok = Reads(reader[r].tree, reader[r].id, reader[r].count)
  BY <1>1 DEF CacheInv, Asks, Reads
<1>2. ASSUME NEW s \in 0 .. SHARDS - 1
      PROVE  LET shard == shards[s]
                 full == {i \in 0 .. SLOTS - 1 : shard.entries[i] # NoEntry}
             IN  /\ shard.bytes = MapThenSumSet(LAMBDA i : shard.entries[i].bytes, full)
                 /\ shard.bytes <= Limit
                 /\ \A i \in full :
                      LET e == shard.entries[i]
                      IN  /\ ShardOf(e.id) = s /\ i \in Ways(e.id)
                          /\ [tree |-> e.tree, maxRef |-> e.maxRef, bytes |-> e.bytes] = file[e.id]
                          /\ \A j \in full : shard.entries[j].id = e.id => i = j
  <2> PICK shard : shard = shards[s]
    OBVIOUS
  <2> PICK e : e = shard.entries
    OBVIOUS
  <2> PICK full : full = {i \in 0 .. SLOTS - 1 : e[i] # NoEntry}
    OBVIOUS
  <2>1. Exact(file, s, shard) /\ file \in Seq(Page)
    BY DEF CacheInv
  <2>2. full \in SUBSET Slots /\ IsFiniteSet(full) /\ IsFiniteSet(Slots) /\ IsFiniteSet(Slots \ full)
    BY SlotsAreFinite, FS_Subset DEF Slots
  <2>3. MapThenSumSet(LAMBDA i : e[i].bytes, full) = Total(Weight(e), full)
    <3>1. MapThenSumSet(LAMBDA i : e[i].bytes, full) = Folded(e, full)
      BY DEF MapThenSumSet, MapThenFoldSet, Folded
    <3>2. Folded(e, full) = Total(Weight(e), full)
      BY <2>2, FoldedIsTotal
    <3> QED
      BY <3>1, <3>2
  <2>4. Total(Weight(e), Slots) = Total(Weight(e), full)
    <3> PICK g : g = Weight(e)
      OBVIOUS
    <3>1. \A i \in Slots : g[i] \in Nat
      BY <2>1 DEF Exact, Counted, Weight
    <3>2. \A i \in Slots \ full : g[i] = 0
      BY DEF Slots, Weight, NoEntry
    <3>3. Total(g, Slots) = Total(g, full) + Total(g, Slots \ full)
      BY ONLY <2>2, <3>1, TotalSplit
    <3>4. Total(g, Slots \ full) = 0
      BY ONLY <2>2, <3>2, EmptyAddsNothing
    <3>5. Total(g, full) \in Nat
      <4>1. \A i \in full : g[i] \in Nat
        BY <2>2, <3>1
      <4> QED
        BY ONLY <2>2, <4>1, TotalNat
    <3> QED
      BY <3>3, <3>4, <3>5
  <2>5. shard.bytes = MapThenSumSet(LAMBDA i : e[i].bytes, full) /\ shard.bytes <= Limit
    BY <2>1, <2>3, <2>4 DEF Exact, Counted
  <2>6. ASSUME NEW i \in full
        PROVE  /\ ShardOf(e[i].id) = s /\ i \in Ways(e[i].id)
               /\ [tree |-> e[i].tree, maxRef |-> e[i].maxRef, bytes |-> e[i].bytes] = file[e[i].id]
               /\ \A j \in full : e[j].id = e[i].id => i = j
    <3>1. i \in Slots /\ e[i] # NoEntry
      BY DEF Slots
    <3>2. Holds(file, s, i, e[i])
      BY <2>1, <3>1 DEF Exact
    <3> PICK id \in 1 .. Len(file) : id = e[i].id
      BY <3>2 DEF Holds
    <3> PICK page \in Page : page = file[id]
      BY <2>1
    <3>3. e[i].tree = page.tree /\ e[i].maxRef = page.maxRef /\ e[i].bytes = page.bytes
      BY <3>2 DEF Holds
    <3>4. page = [tree |-> page.tree, maxRef |-> page.maxRef, bytes |-> page.bytes]
      BY DEF Page
    <3>5. \A j \in full : e[j].id = e[i].id => i = j
      BY <2>1, <2>2, <3>1 DEF Exact
    <3> QED
      BY <3>2, <3>3, <3>4, <3>5 DEF Holds
  <2> QED
    BY <2>5, <2>6
<1>3. ShardsAreExact
  BY <1>2 DEF ShardsAreExact
<1> QED
  BY <1>1, <1>3 DEF CacheIsTransparent

(* For any number of readers, shards, slots and ways, any limit and any    *)
(* nodes: shared_node (src/src/storage/page.rs) answers as a read of the   *)
(* page in the reader's own prefix would, whatever other readers did       *)
(* between its lookup, its read and its insertion, and the shards of       *)
(* cache.rs count their bytes exactly and stay within their limit.         *)
THEOREM CacheTransparency ==
  ASSUME CacheShape
  PROVE  CacheSpec => []CacheIsTransparent
<1>1. CacheInit => CacheInv
  BY InitCache
<1>2. CacheInv /\ [CacheNext]_cacheVars => CacheInv'
  BY CacheStep
<1>3. CacheInv => CacheIsTransparent
  BY InvIsTransparent
<1> QED
  BY <1>1, <1>2, <1>3, PTL DEF CacheSpec
=============================================================================
