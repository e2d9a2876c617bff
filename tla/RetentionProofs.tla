-------------------------- MODULE RetentionProofs --------------------------
(***************************************************************************)
(* What is claimed is kept, and derived data is the source's, for every    *)
(* number of consumers, registrations, keys, records and batch limits.     *)
(*                                                                         *)
(* The invariant says of the store, and of the image a restored database   *)
(* starts from, that the records after the floor are all there, that only  *)
(* versions hidden by a newer one were collected below it, and that every  *)
(* registration lies between the floor and the visible end; of a consumer, *)
(* that its open snapshot shows the log, how far its scan is, that what it *)
(* committed is the log up to its watermark, that a batch in its memory is *)
(* a piece of the log, and that its token reaches its own registration.    *)
(***************************************************************************)
EXTENDS Retention, TLAPS, SequenceTheorems, WellFoundedInduction

-----------------------------------------------------------------------------
(* The invariant.                                                          *)

TypeOK ==
  /\ log \in Seq(Keys) /\ rotate \in BOOLEAN
  /\ starts \in SUBSET Nat /\ versions \in SUBSET Nat /\ outcomes \in SUBSET Nat
  /\ frontier \in Nat /\ checkpoint \in Nat /\ floor \in Nat
  /\ nextId \in Nat /\ nextId > 0 /\ namespace \in Nat /\ namespace > 0

(* Every record from the floor to an end is there, and of the records up   *)
(* to the floor only versions that a newer one hides are gone.             *)
Kept(vs, os, low, end) ==
  /\ \A s \in vs : 1 <= s /\ s <= Durable
  /\ \A s \in os : low < s /\ s <= Durable /\ s \in vs
  /\ \A s \in 1 .. end : low < s => s \in os
  /\ \A s \in 1 .. end : s \in vs \/ \E t \in vs : s < t /\ t <= low /\ log[t] = log[s]

(* The retained segments hold every record after a baseline.               *)
LogFrom(firsts, end, baseline) ==
  baseline < end => \E s \in firsts : s <= baseline + 1

Registrations == [kind : Kinds, baseline : Nat, label : Consumers]

(* The registrations of a tree claim what is kept.                         *)
Registered(tree, next, low, end, firsts, durable) ==
  \A id \in DOMAIN tree :
    /\ id \in Nat /\ 0 < id /\ id < next /\ tree[id] \in Registrations
    /\ tree[id].baseline \in Nat /\ low <= tree[id].baseline /\ tree[id].baseline <= end
    /\ tree[id].kind # Resolved => LogFrom(firsts, durable, tree[id].baseline)

StoreInv ==
  /\ floor <= checkpoint /\ checkpoint <= frontier /\ frontier <= Durable
  /\ \A s \in starts : 1 <= s /\ s <= Durable
  /\ Kept(versions, outcomes, floor, frontier)
  /\ Registered(cursors, nextId, floor, frontier, starts, Durable)

ImageInv ==
  image # NoImage =>
    /\ image.durable \in Nat /\ image.checkpoint \in Nat /\ image.floor \in Nat
    /\ image.floor <= image.checkpoint /\ image.checkpoint <= image.durable
    /\ image.durable <= Durable /\ image.nextId \in Nat /\ image.nextId > 0
    /\ image.starts \in SUBSET Nat /\ \A s \in image.starts : 1 <= s /\ s <= image.durable
    /\ image.versions \in SUBSET Nat /\ image.outcomes \in SUBSET Nat
    /\ \A s \in image.versions : s <= image.checkpoint
    /\ Kept(image.versions, image.outcomes, image.floor, image.checkpoint)
    /\ Registered(image.cursors, image.nextId, image.floor, image.durable,
                  image.starts, image.durable)

Newest(key, end) == ReadValue(1 .. end, key, end)

Tokens == [namespace : Nat, id : Nat, kind : Kinds \cup {0}]
Claims == [held : BOOLEAN, open : BOOLEAN, sequence : Nat, view : SUBSET Nat]
Batches == [start : Nat, end : Int, records : Seq(Keys)]

Memory ==
  [saved : BOOLEAN, token : Tokens, mark : Nat, rows : [Keys -> Nat], claim : Claims,
   at : Nat, batch : Batches]

(* An open snapshot shows the log up to its sequence, and a scan has       *)
(* copied its rows up to the last key.                                     *)
Scanning(m) ==
  /\ floor <= m.claim.sequence /\ m.claim.sequence <= frontier /\ m.claim.held
  /\ \A k \in Keys :
       /\ ReadValue(m.claim.view, k, m.claim.sequence) = Newest(k, m.claim.sequence)
       /\ m.rows[k] = IF k <= m.at THEN Newest(k, m.claim.sequence) ELSE 0

(* Committed rows are those of the log up to the watermark.                *)
Derived(m) ==
  /\ m.claim = NoClaim /\ m.mark <= Durable
  /\ \A k \in Keys : m.rows[k] = Newest(k, m.mark)

Fetched(b) ==
  /\ b.start <= b.end /\ b.end <= Durable /\ Len(b.records) = b.end - b.start
  /\ \A i \in 1 .. Len(b.records) : b.records[i] = log[b.start + i]

(* A token reaches at most its owner's registration, which claims all that *)
(* the owner has still to read.                                            *)
Owns(c, m) ==
  /\ m.token.namespace <= namespace
  /\ m.token.namespace = namespace => m.token.id < nextId
  /\ m.token.namespace = namespace /\ m.token.id \in DOMAIN cursors =>
       /\ cursors[m.token.id].label = c
       /\ cursors[m.token.id].baseline <= IF m.saved THEN m.mark ELSE m.claim.sequence

Sound(m) ==
  /\ m \in Memory
  /\ m.claim.open => Scanning(m)
  /\ m.saved => Derived(m)
  /\ ~m.saved => m.mark = 0 /\ m.batch = NoBatch /\ (m.claim.held \/ m = Fresh)
  /\ m.batch # NoBatch => Fetched(m.batch)

ConsumerInv(c, m) == Sound(m) /\ Owns(c, m)

RetentionInv ==
  /\ TypeOK
  /\ StoreInv
  /\ ImageInv
  /\ DOMAIN consumer = Consumers
  /\ \A c \in Consumers : \A m \in {consumer[c]} : ConsumerInv(c, m)

-----------------------------------------------------------------------------
(* Least and greatest members.                                             *)

(* Min picks the least member of a non-empty set of naturals.              *)
LEMMA MinIsLeast ==
  ASSUME NEW T \in SUBSET Nat, T # {}
  PROVE  Min(T) \in T /\ \A y \in T : Min(T) <= y
<1>1. PICK x \in T : \A y \in T : ~(<<y, x>> \in OpToRel(<, Nat))
  BY WFMin, NatLessThanWellFounded
<1>2. \A y \in T : ~(y < x)
  BY <1>1 DEF OpToRel
<1>3. \A y \in T : x <= y
  BY <1>2
<1> QED
  BY <1>3 DEF Min

(* Max picks the greatest member of a non-empty set of naturals up to n.   *)
LEMMA MaxIsGreatest ==
  ASSUME NEW n \in Nat, NEW T \in SUBSET Nat, T # {}, \A y \in T : y <= n
  PROVE  Max(T) \in T /\ \A y \in T : y <= Max(T)
<1> DEFINE D == {n - y : y \in T}
<1>1. D \in SUBSET Nat /\ D # {}
  <2>1. \A y \in T : n - y \in Nat
    OBVIOUS
  <2>2. PICK y \in T : TRUE
    OBVIOUS
  <2>3. n - y \in D
    BY <2>2
  <2> QED
    BY <2>1, <2>3
<1>2. Min(D) \in D /\ \A d \in D : Min(D) <= d
  BY <1>1, MinIsLeast
<1>3. PICK x \in T : Min(D) = n - x
  BY <1>2
<1>4. \A y \in T : y <= x
  <2> TAKE y \in T
  <2>1. n - y \in D
    OBVIOUS
  <2>2. n - x <= n - y
    BY <1>2, <1>3, <2>1
  <2> QED
    BY <2>2
<1>5. \E z \in T : \A y \in T : z >= y
  BY <1>4
<1>6. Max(T) \in T /\ \A y \in T : Max(T) >= y
  BY <1>5 DEF Max
<1> QED
  BY <1>6

(* A greatest member is the one Max picks.                                 *)
LEMMA MaxIsUnique ==
  ASSUME NEW T \in SUBSET Nat, NEW x \in T, \A y \in T : y <= x
  PROVE  Max(T) = x
<1>1. Max(T) \in T /\ \A y \in T : Max(T) >= y
  BY DEF Max
<1>2. Max(T) \in Nat /\ x \in Nat /\ Max(T) <= x /\ Max(T) >= x
  BY <1>1
<1> QED
  BY <1>2

-----------------------------------------------------------------------------
(* Reading versions.                                                       *)

(* A read finds the newest version of its key up to the sequence.          *)
LEMMA ReadValueIs ==
  ASSUME NEW view \in SUBSET Nat, NEW key, NEW q \in Nat
  PROVE  LET v == ReadValue(view, key, q)
         IN /\ v \in Nat /\ v <= q
            /\ v = 0 \/ (v \in view /\ log[v] = key)
            /\ \A s \in view : s <= q /\ log[s] = key => s <= v
<1> DEFINE T == {0} \cup {s \in view : s <= q /\ log[s] = key}
<1>1. T \in SUBSET Nat /\ T # {} /\ \A y \in T : y <= q
  <2>1. 0 \in T /\ \A y \in T : y = 0 \/ (y \in view /\ y <= q)
    OBVIOUS
  <2>2. \A y \in T : y \in Nat /\ y <= q
    BY <2>1
  <2> QED
    BY <2>1, <2>2
<1>2. Max(T) \in T /\ \A y \in T : y <= Max(T)
  BY <1>1, MaxIsGreatest
<1>3. ReadValue(view, key, q) = Max(T)
  BY DEF ReadValue
<1> QED
  BY <1>1, <1>2, <1>3

(* What is the newest version is what a read finds.                        *)
LEMMA ReadValueUnique ==
  ASSUME NEW view \in SUBSET Nat, NEW key, NEW q \in Nat, NEW x \in Nat,
         x = 0 \/ (x \in view /\ x <= q /\ log[x] = key),
         \A s \in view : s <= q /\ log[s] = key => s <= x
  PROVE  ReadValue(view, key, q) = x
<1> DEFINE T == {0} \cup {s \in view : s <= q /\ log[s] = key}
<1>1. T \in SUBSET Nat /\ x \in T /\ \A y \in T : y <= x
  <2>1. \A y : y \in T <=> y = 0 \/ (y \in view /\ y <= q /\ log[y] = key)
    OBVIOUS
  <2>2. x \in T
    BY <2>1
  <2>3. \A y \in T : y \in Nat /\ y <= x
    BY <2>1
  <2> QED
    BY <2>2, <2>3
<1>2. Max(T) = x
  BY <1>1, MaxIsUnique
<1> QED
  BY <1>2 DEF ReadValue

(* A read up to q looks at no record after q.                              *)
LEMMA ReadValueKept ==
  ASSUME NEW view \in SUBSET Nat, NEW key, NEW q \in Nat,
         \A i \in 1 .. q : log'[i] = log[i]
  PROVE  ReadValue(view, key, q)' = ReadValue(view, key, q)
<1> DEFINE T == {0} \cup {s \in view : s <= q /\ log[s] = key}
           U == {0} \cup {s \in view : s <= q /\ log'[s] = key}
<1>1. \A y : y \in T <=> y = 0 \/ (y \in view /\ y <= q /\ log[y] = key)
  OBVIOUS
<1>2. \A y : y \in U <=> y = 0 \/ (y \in view /\ y <= q /\ log'[y] = key)
  OBVIOUS
<1>3. \A y \in view : y <= q /\ y # 0 => log'[y] = log[y]
  <2> TAKE y \in view
  <2>1. y \in Nat
    OBVIOUS
  <2> QED
    BY <2>1
<1>4. \A y : y \in T <=> y \in U
  <2> HIDE DEF T, U
  <2> TAKE y
  <2>1. CASE y = 0
    BY <1>1, <1>2, <2>1
  <2>2. CASE y # 0 /\ y \in view /\ y <= q
    <3>1. log'[y] = log[y]
      BY <1>3, <2>2
    <3> QED
      BY <1>1, <1>2, <2>2, <3>1
  <2>3. CASE y # 0 /\ ~(y \in view /\ y <= q)
    BY <1>1, <1>2, <2>3
  <2> QED
    BY <2>1, <2>2, <2>3
<1>5. T = U
  <2> HIDE DEF T, U
  <2> QED
    BY <1>4
<1> QED
  BY <1>5 DEF ReadValue

(* The rows at a sequence do not change when the log grows behind it.      *)
LEMMA NewestKept ==
  ASSUME NEW key, NEW q \in Nat, \A i \in 1 .. q : log'[i] = log[i]
  PROVE  Newest(key, q)' = Newest(key, q)
BY ReadValueKept DEF Newest

(* Looking at the whole log up to q is looking at its first q records.     *)
LEMMA NewestOfLog ==
  ASSUME NEW key, NEW q \in Nat, Durable \in Nat, q <= Durable
  PROVE  ReadValue(1 .. Durable, key, q) = Newest(key, q)
<1>1. {s \in 1 .. Durable : s <= q /\ log[s] = key} = {s \in 1 .. q : s <= q /\ log[s] = key}
  OBVIOUS
<1> QED
  BY <1>1 DEF Newest, ReadValue

(* The versions that are kept show every row of the visible prefix.        *)
LEMMA KeptShowsNewest ==
  ASSUME NEW vs \in SUBSET Nat, NEW os \in SUBSET Nat, NEW low \in Nat, NEW end \in Nat,
         Durable \in Nat, low <= end, end <= Durable, Kept(vs, os, low, end), NEW key
  PROVE  ReadValue(vs, key, end) = Newest(key, end)
<1> DEFINE v == Newest(key, end)
<1>1. /\ v \in Nat /\ v <= end
      /\ v = 0 \/ (v \in 1 .. end /\ log[v] = key)
      /\ \A s \in 1 .. end : s <= end /\ log[s] = key => s <= v
  <2>1. 1 .. end \in SUBSET Nat
    OBVIOUS
  <2> QED
    BY <2>1, ReadValueIs DEF Newest
<1> HIDE DEF v
<1>2. \A s \in vs : s <= end /\ log[s] = key => s <= v
  BY <1>1 DEF Kept
<1>3. v = 0 \/ (v \in vs /\ v <= end /\ log[v] = key)
  <2> SUFFICES ASSUME v # 0, v \notin vs
               PROVE  FALSE
    BY <1>1
  <2>1. v \in 1 .. end /\ log[v] = key
    BY <1>1
  <2>2. PICK t \in vs : v < t /\ t <= low /\ log[t] = log[v]
    BY <2>1 DEF Kept
  <2>3. t \in Nat /\ t <= end
    BY <2>2
  <2> QED
    BY <1>1, <1>2, <2>1, <2>2, <2>3
<1> QED
  BY <1>1, <1>2, <1>3, ReadValueUnique DEF v

-----------------------------------------------------------------------------
(* Log segments.                                                           *)

(* The length of the log is a number.                                      *)
LEMMA DurableIsNat == TypeOK => Durable \in Nat
BY LenProperties DEF TypeOK, Durable

(* The segment that holds the record after a baseline.                     *)
LEMMA SegmentHolds ==
  ASSUME TypeOK, \A s \in starts : 1 <= s /\ s <= Durable,
         NEW b \in Nat, b < Durable, LogFrom(starts, Durable, b)
  PROVE  \E s \in starts : s <= b + 1 /\ SegmentEnd(s) \in Int /\ SegmentEnd(s) > b
<1>1. Durable \in Nat /\ starts \in SUBSET Nat
  BY DurableIsNat DEF TypeOK
<1> DEFINE T == {s \in starts : s <= b + 1}
<1>2. T \in SUBSET Nat /\ T # {} /\ \A y \in T : y <= b + 1
  BY <1>1 DEF LogFrom
<1>8. b + 1 \in Nat
  OBVIOUS
<1>9. Max(T) \in T /\ \A y \in T : y <= Max(T)
  <2> HIDE DEF T
  <2> QED
    BY <1>2, <1>8, MaxIsGreatest
<1>3. PICK s \in T : \A y \in T : y <= s
  BY <1>9
<1>4. s \in starts /\ s \in Nat /\ s <= b + 1
  BY <1>1, <1>3
<1> DEFINE later == {x \in starts : x > s}
<1>5. \A x \in later : x \in Nat /\ x > b + 1
  BY <1>1, <1>3, <1>4
<1>6. CASE later = {}
  BY <1>1, <1>4, <1>6 DEF SegmentEnd
<1>7. CASE later # {}
  <2>1. later \in SUBSET Nat
    BY <1>5
  <2>2. Min(later) \in later
    BY <1>7, <2>1, MinIsLeast
  <2>3. Min(later) \in Nat /\ Min(later) > b + 1
    BY <1>5, <2>2
  <2>4. SegmentEnd(s) = Min(later) - 1
    BY <1>7 DEF SegmentEnd
  <2> QED
    BY <1>4, <2>3, <2>4
<1> QED
  BY <1>6, <1>7

(* The floor of the log, by what it means for a baseline.                  *)
LEMMA LogFloorIs ==
  ASSUME TypeOK, \A s \in starts : 1 <= s /\ s <= Durable
  PROVE  /\ LogFloor \in Nat /\ LogFloor <= Durable + 1
         /\ \A b \in Nat : LogFrom(starts, Durable, b) /\ b <= Durable => LogFloor <= b + 1
         /\ \A b \in Nat : LogFloor <= b + 1 => LogFrom(starts, Durable, b)
<1>1. Durable \in Nat /\ starts \in SUBSET Nat
  BY DurableIsNat DEF TypeOK
<1>2. CASE starts = {}
  BY <1>1, <1>2 DEF LogFloor, LogFrom
<1>3. CASE starts # {}
  <2>1. LogFloor = Min(starts) /\ Min(starts) \in starts /\ \A y \in starts : Min(starts) <= y
    BY <1>1, <1>3, MinIsLeast DEF LogFloor
  <2>2. Min(starts) \in Nat /\ Min(starts) <= Durable
    BY <1>1, <2>1
  <2>3. ASSUME NEW b \in Nat, LogFrom(starts, Durable, b), b <= Durable
        PROVE  LogFloor <= b + 1
    <3>1. CASE b < Durable
      BY <1>1, <2>1, <2>2, <2>3, <3>1 DEF LogFrom
    <3>2. CASE ~(b < Durable)
      BY <1>1, <2>1, <2>2, <2>3, <3>2
    <3> QED
      BY <3>1, <3>2
  <2>4. \A b \in Nat : LogFloor <= b + 1 => LogFrom(starts, Durable, b)
    BY <2>1 DEF LogFrom
  <2> QED
    BY <1>1, <2>1, <2>2, <2>3, <2>4
<1> QED
  BY <1>2, <1>3

(* A registered logical cursor finds its log.                              *)
LEMMA LogIsAvailable ==
  ASSUME TypeOK, \A s \in starts : 1 <= s /\ s <= Durable,
         NEW b \in Nat, b <= Durable, LogFrom(starts, Durable, b)
  PROVE  LogAvailable(b)
<1>1. LogFloor <= b + 1
  BY LogFloorIs
<1>2. b < Durable => \E s \in starts : s <= b + 1 /\ SegmentEnd(s) > b
  BY SegmentHolds
<1> QED
  BY <1>1, <1>2 DEF LogAvailable

-----------------------------------------------------------------------------
(* What the invariant implies.                                             *)

(* A number that no member of a set of numbers is below.                   *)
LEMMA MinIsBounded ==
  ASSUME NEW T \in SUBSET Nat, T # {}, NEW x \in Nat, \A y \in T : x <= y
  PROVE  Min(T) \in Nat /\ x <= Min(T) /\ Min(T) \in T
BY MinIsLeast

(* The floors that maintenance derives are not below the present ones.     *)
LEMMA FloorsRise ==
  ASSUME RetentionInv
  PROVE  LET f == RetentionFloors(frontier)
         IN /\ f.history \in Nat /\ floor <= f.history /\ f.history <= frontier
            /\ \A id \in DOMAIN cursors : f.history <= cursors[id].baseline
            /\ \A c \in Consumers : consumer[c].claim.open =>
                 f.history <= consumer[c].claim.sequence
            /\ f.log \in Nat
            /\ \A id \in DOMAIN cursors : cursors[id].kind # Resolved =>
                 f.log <= cursors[id].baseline + 1
            /\ frontier = Durable => LogFloor <= f.log
<1>1. /\ Durable \in Nat /\ frontier \in Nat /\ floor \in Nat /\ floor <= frontier
      /\ frontier <= Durable /\ checkpoint \in Nat
      /\ \A s \in starts : 1 <= s /\ s <= Durable
  BY DurableIsNat DEF RetentionInv, TypeOK, StoreInv
<1>2. \A c \in Consumers : /\ consumer[c].claim.sequence \in Nat
                           /\ consumer[c].claim.open => floor <= consumer[c].claim.sequence
  BY DEF RetentionInv, ConsumerInv, Sound, Memory, Tokens, Claims, Batches, Scanning
<1>3. \A id \in DOMAIN cursors :
        /\ cursors[id].baseline \in Nat /\ floor <= cursors[id].baseline
        /\ cursors[id].baseline <= Durable
        /\ cursors[id].kind # Resolved => LogFrom(starts, Durable, cursors[id].baseline)
  BY <1>1 DEF RetentionInv, StoreInv, Registered
<1> DEFINE A == {claim.sequence : claim \in OpenClaims}
<1>4. \A c \in Consumers : consumer[c].claim.open => consumer[c].claim.sequence \in A
  BY DEF OpenClaims
<1>5. \A a \in A : a \in Nat /\ floor <= a
  BY <1>2 DEF OpenClaims
<1> HIDE DEF A
<1>6. /\ {frontier} \cup A \in SUBSET Nat /\ {frontier} \cup A # {}
      /\ \A y \in {frontier} \cup A : floor <= y
  BY <1>1, <1>5
<1>7. SnapshotFloor = Min({frontier} \cup A)
  BY DEF SnapshotFloor, A
<1>8. /\ SnapshotFloor \in Nat /\ floor <= SnapshotFloor
      /\ \A y \in {frontier} \cup A : SnapshotFloor <= y
  BY <1>1, <1>6, <1>7, MinIsBounded, MinIsLeast
<1> DEFINE H == {SnapshotFloor} \cup HistoryClaims
           h == RetentionFloors(frontier).history
<1>9. \A id \in DOMAIN cursors : cursors[id].baseline \in HistoryClaims
  BY DEF HistoryClaims
<1>10. \A b \in HistoryClaims : b \in Nat /\ floor <= b
  BY <1>3 DEF HistoryClaims
<1>11. H \in SUBSET Nat /\ H # {} /\ \A y \in H : floor <= y
  BY <1>8, <1>10
<1>12. h = Min(H)
  BY DEF RetentionFloors
<1>13. h \in Nat /\ floor <= h /\ \A y \in H : h <= y
  BY <1>1, <1>11, <1>12, MinIsBounded, MinIsLeast
<1>14. /\ h <= frontier /\ \A id \in DOMAIN cursors : h <= cursors[id].baseline
       /\ \A c \in Consumers : consumer[c].claim.open => h <= consumer[c].claim.sequence
  <2> HIDE DEF h
  <2>1. h <= SnapshotFloor /\ \A b \in HistoryClaims : h <= b
    BY <1>13
  <2>2. SnapshotFloor <= frontier /\ \A a \in A : SnapshotFloor <= a
    BY <1>8
  <2> QED
    BY <1>1, <1>2, <1>4, <1>8, <1>9, <1>13, <2>1, <2>2
<1> DEFINE L == {frontier + 1} \cup LogClaims
           g == RetentionFloors(frontier).log
<1>15. \A id \in DOMAIN cursors : cursors[id].kind # Resolved =>
         cursors[id].baseline + 1 \in LogClaims
  BY DEF LogClaims
<1>16. \A x \in LogClaims : \E id \in DOMAIN cursors :
         cursors[id].kind # Resolved /\ x = cursors[id].baseline + 1
  BY DEF LogClaims
<1>17. L \in SUBSET Nat /\ L # {}
  <2>1. \A x \in LogClaims : x \in Nat
    BY <1>3, <1>16
  <2> QED
    BY <1>1, <2>1
<1>18. g = Min(L)
  BY DEF RetentionFloors
<1>19. g \in L /\ \A y \in L : g <= y
  BY <1>17, <1>18, MinIsLeast
<1>20. frontier = Durable => LogFloor <= g
  <2> HIDE DEF g
  <2> SUFFICES ASSUME frontier = Durable
               PROVE  LogFloor <= g
    OBVIOUS
  <2>1. CASE g = frontier + 1
    BY <1>1, <2>1, LogFloorIs DEF RetentionInv
  <2>2. CASE g \in LogClaims
    <3>1. PICK id \in DOMAIN cursors :
            cursors[id].kind # Resolved /\ g = cursors[id].baseline + 1
      BY <1>16, <2>2
    <3> QED
      BY <1>1, <1>3, <3>1, LogFloorIs DEF RetentionInv
  <2> QED
    BY <1>19, <2>1, <2>2
<1>21. g \in Nat
  BY <1>17, <1>19
<1>22. \A id \in DOMAIN cursors : cursors[id].kind # Resolved => g <= cursors[id].baseline + 1
  BY <1>15, <1>19
<1> QED
  BY <1>13, <1>14, <1>20, <1>21, <1>22

(* Everything that is claimed can be read.                                 *)
LEMMA InvKeepsClaims == RetentionInv => ClaimsAreKept
<1> SUFFICES ASSUME RetentionInv
             PROVE  ClaimsAreKept
  OBVIOUS
<1>1. /\ Durable \in Nat /\ frontier \in Nat /\ floor \in Nat /\ floor <= frontier
      /\ frontier <= Durable /\ TypeOK
      /\ \A s \in starts : 1 <= s /\ s <= Durable
      /\ Kept(versions, outcomes, floor, frontier)
  BY DurableIsNat DEF RetentionInv, TypeOK, StoreInv
<1>2. ASSUME NEW id \in DOMAIN cursors
      PROVE  Decodes(id) /\ Available(cursors[id].baseline, cursors[id].kind)
  <2> DEFINE b == cursors[id].baseline
  <2>1. /\ 0 < id /\ id < nextId /\ b \in Nat /\ floor <= b /\ b <= frontier
        /\ cursors[id].kind # Resolved => LogFrom(starts, Durable, b)
    BY DEF RetentionInv, StoreInv, Registered
  <2> HIDE DEF b
  <2>2. b <= Durable
    BY <1>1, <2>1
  <2>3. cursors[id].kind # Resolved => LogFloor <= b + 1 /\ LogAvailable(b)
    BY <1>1, <2>1, <2>2, LogFloorIs, LogIsAvailable
  <2>4. \A s \in b + 1 .. frontier : ReadRecord(s)
    <3> TAKE s \in b + 1 .. frontier
    <3>1. s \in 1 .. frontier /\ floor < s
      BY <1>1, <2>1
    <3> QED
      BY <1>1, <3>1 DEF Kept, ReadRecord
  <2> QED
    BY <2>1, <2>2, <2>3, <2>4 DEF Decodes, Available, b
<1>3. \A claim \in OpenClaims : floor <= claim.sequence /\ claim.sequence <= frontier
  BY DEF OpenClaims, RetentionInv, ConsumerInv, Sound, Scanning
<1> QED
  BY <1>2, <1>3, FloorsRise DEF ClaimsAreKept

(* Everything that is committed is the source's.                           *)
LEMMA InvDerives == RetentionInv => DerivedIsSource
<1> SUFFICES ASSUME RetentionInv, NEW c \in Consumers, consumer[c].saved
             PROVE  /\ consumer[c].mark <= Durable
                    /\ consumer[c].rows
                         = [k \in Keys |-> ReadValue(1 .. Durable, k, consumer[c].mark)]
                    /\ Lookup(consumer[c].token) =>
                         /\ cursors[consumer[c].token.id].label = c
                         /\ cursors[consumer[c].token.id].baseline <= consumer[c].mark
  BY DEF DerivedIsSource
<1> PICK m : m = consumer[c]
  OBVIOUS
<1>1. m \in Memory /\ Owns(c, m) /\ Derived(m) /\ m.saved
  BY DEF RetentionInv, ConsumerInv, Sound
<1>2. m.mark \in Nat /\ m.mark <= Durable /\ Durable \in Nat /\ m.rows \in [Keys -> Nat]
  BY <1>1, DurableIsNat DEF RetentionInv, Memory, Tokens, Claims, Batches, Derived
<1>3. \A k \in Keys : m.rows[k] = ReadValue(1 .. Durable, k, m.mark)
  BY <1>1, <1>2, NewestOfLog DEF Derived
<1>4. m.rows = [k \in Keys |-> ReadValue(1 .. Durable, k, m.mark)]
  BY <1>2, <1>3
<1> QED
  BY <1>1, <1>2, <1>4 DEF Owns, Lookup

-----------------------------------------------------------------------------
(* What a step leaves alone.                                               *)

(* The log only grows.                                                     *)
LogGrows ==
  /\ Durable \in Nat /\ Durable' \in Nat /\ Durable <= Durable'
  /\ \A i \in 1 .. Durable : log'[i] = log[i]

(* The log stays as it is.                                                 *)
LEMMA SameLogGrows == TypeOK /\ log' = log => LogGrows /\ Durable' = Durable
BY DurableIsNat DEF LogGrows, Durable

(* Tokens go on naming their registrations when others are added, removed  *)
(* or moved.                                                               *)
LEMMA OwnsKept ==
  ASSUME NEW c, NEW m, Owns(c, m), namespace' = namespace,
         nextId \in Nat, nextId' \in Nat, nextId <= nextId', m.token.id \in Nat,
         m.token.namespace = namespace /\ m.token.id < nextId /\ m.token.id \in DOMAIN cursors' =>
           m.token.id \in DOMAIN cursors /\ cursors'[m.token.id] = cursors[m.token.id]
  PROVE  Owns(c, m)'
<1>1. m.token.namespace = namespace => m.token.id < nextId /\ m.token.id < nextId'
  BY DEF Owns
<1> QED
  BY <1>1 DEF Owns

(* What a consumer holds stays right while the log and the frontier grow   *)
(* and the floor stays below its snapshot.                                 *)
LEMMA MemoryKept ==
  ASSUME NEW m, Sound(m), LogGrows,
         frontier \in Nat, frontier' \in Nat, frontier <= frontier', frontier <= Durable,
         m.claim.open => floor' <= m.claim.sequence
  PROVE  Sound(m)'
<1>1. m \in Memory
  BY DEF Sound
<1>2. \A q \in Nat : q <= Durable => \A i \in 1 .. q : log'[i] = log[i]
  BY DEF LogGrows
<1>3. \A q \in Nat : q <= Durable => \A k : Newest(k, q)' = Newest(k, q)
  <2> TAKE q \in Nat
  <2> HAVE q <= Durable
  <2> TAKE k
  <2>1. \A i \in 1 .. q : log'[i] = log[i]
    BY <1>2
  <2> QED
    BY <2>1, NewestKept
<1>4. ASSUME m.claim.open PROVE Scanning(m)'
  <2> DEFINE q == m.claim.sequence
             v == m.claim.view
  <2>1. Scanning(m) /\ q \in Nat /\ v \in SUBSET Nat
    BY <1>1, <1>4 DEF Sound, Memory, Tokens, Claims, Batches
  <2> HIDE DEF q, v
  <2>2. q <= Durable /\ q <= frontier'
    BY <2>1 DEF Scanning, LogGrows, q
  <2>3. \A i \in 1 .. q : log'[i] = log[i]
    BY <1>2, <2>1, <2>2
  <2>4. \A k \in Keys : ReadValue(v, k, q)' = ReadValue(v, k, q)
    BY <2>1, <2>3, ReadValueKept
  <2>5. \A k \in Keys : Newest(k, q)' = Newest(k, q)
    BY <1>3, <2>1, <2>2
  <2>6. floor' <= q /\ m.claim.held
    BY <1>4, <2>1 DEF Scanning, q
  <2>7. \A k \in Keys :
          /\ ReadValue(v, k, q)' = Newest(k, q)'
          /\ m.rows[k] = IF k <= m.at THEN Newest(k, q)' ELSE 0
    BY <2>1, <2>4, <2>5 DEF Scanning, q, v
  <2> QED
    BY <2>2, <2>6, <2>7 DEF Scanning, q, v
<1>5. ASSUME m.saved PROVE Derived(m)'
  <2>1. Derived(m) /\ m.mark \in Nat /\ m.mark <= Durable
    BY <1>1, <1>5 DEF Sound, Memory, Tokens, Claims, Batches, Derived
  <2>2. \A k \in Keys : Newest(k, m.mark)' = Newest(k, m.mark)
    BY <1>3, <2>1
  <2> QED
    BY <2>1, <2>2 DEF Derived, LogGrows
<1>6. ASSUME m.batch # NoBatch PROVE Fetched(m.batch)'
  <2>0. PICK b : b = m.batch
    OBVIOUS
  <2>1. Fetched(b) /\ b.start \in Nat /\ b.end \in Int /\ b.records \in Seq(Keys)
    BY <1>1, <1>6, <2>0 DEF Sound, Memory, Tokens, Claims, Batches
  <2>2. \A i \in 1 .. Len(b.records) : b.start + i \in 1 .. Durable
    BY <2>1 DEF Fetched, LogGrows
  <2>3. \A i \in 1 .. Len(b.records) : b.records[i] = log'[b.start + i]
    <3> TAKE i \in 1 .. Len(b.records)
    <3>1. log'[b.start + i] = log[b.start + i]
      BY <2>2 DEF LogGrows
    <3> QED
      BY <2>1, <3>1 DEF Fetched
  <2>4. b.end <= Durable'
    BY <2>1 DEF Fetched, LogGrows
  <2>5. Fetched(b)'
    BY <2>1, <2>3, <2>4 DEF Fetched
  <2> QED
    BY <2>0, <2>5
<1> QED
  BY <1>1, <1>4, <1>5, <1>6 DEF Sound

(* The kept records stay kept while the log grows.                         *)
LEMMA KeptKept ==
  ASSUME NEW vs \in SUBSET Nat, NEW os, NEW low \in Nat, NEW end \in Nat,
         low <= end, end <= Durable, LogGrows, Kept(vs, os, low, end)
  PROVE  Kept(vs, os, low, end)'
<1>1. \A s \in vs : s \in Nat /\ 1 <= s /\ s <= Durable /\ s <= Durable'
  BY DEF Kept, LogGrows
<1>2. \A s \in os : low < s /\ s <= Durable' /\ s \in vs
  BY <1>1 DEF Kept
<1>3. ASSUME NEW s \in 1 .. end, s \notin vs
      PROVE  \E t \in vs : s < t /\ t <= low /\ log'[t] = log'[s]
  <2>1. PICK t \in vs : s < t /\ t <= low /\ log[t] = log[s]
    BY <1>3 DEF Kept
  <2>2. s \in 1 .. Durable /\ t \in 1 .. Durable
    BY <1>1, <2>1 DEF LogGrows
  <2>3. log'[t] = log[t] /\ log'[s] = log[s]
    BY <2>2 DEF LogGrows
  <2> QED
    BY <2>1, <2>3
<1> QED
  BY <1>1, <1>2, <1>3 DEF Kept

(* An image stays restorable while the log grows.                          *)
LEMMA ImageKept ==
  ASSUME ImageInv, image' = image, LogGrows
  PROVE  ImageInv'
<1> SUFFICES ASSUME image # NoImage
             PROVE  ImageInv'
  BY DEF ImageInv
<1> PICK i : i = image
  OBVIOUS
<1>1. /\ i.durable \in Nat /\ i.checkpoint \in Nat /\ i.floor \in Nat
      /\ i.floor <= i.checkpoint /\ i.checkpoint <= i.durable
      /\ i.durable <= Durable /\ i.nextId \in Nat /\ i.nextId > 0
      /\ i.starts \in SUBSET Nat /\ \A s \in i.starts : 1 <= s /\ s <= i.durable
      /\ i.versions \in SUBSET Nat /\ i.outcomes \in SUBSET Nat
      /\ \A s \in i.versions : s <= i.checkpoint
      /\ Kept(i.versions, i.outcomes, i.floor, i.checkpoint)
      /\ Registered(i.cursors, i.nextId, i.floor, i.durable, i.starts, i.durable)
  BY DEF ImageInv
<1>2. i.checkpoint <= Durable /\ i.durable <= Durable'
  BY <1>1 DEF LogGrows
<1>3. Kept(i.versions, i.outcomes, i.floor, i.checkpoint)'
  BY <1>1, <1>2, KeptKept
<1> QED
  BY <1>1, <1>2, <1>3 DEF ImageInv, Registered, LogFrom

(* A step that changes nothing but what one consumer holds.                *)
LEMMA ConsumerStep ==
  ASSUME RetentionInv, UNCHANGED <<disk, cursors, nextId, namespace, image>>,
         NEW c \in Consumers, NEW n, ConsumerInv(c, n),
         consumer' = [consumer EXCEPT ![c] = n]
  PROVE  RetentionInv'
<1>1. /\ UNCHANGED <<log, starts, rotate, versions, outcomes, frontier, checkpoint, floor>>
      /\ UNCHANGED <<cursors, nextId, namespace, image>>
  BY DEF disk
<1>2. /\ TypeOK /\ StoreInv /\ ImageInv /\ DOMAIN consumer = Consumers
      /\ frontier \in Nat /\ frontier <= Durable /\ nextId \in Nat
  BY DEF RetentionInv, TypeOK, StoreInv
<1>3. LogGrows /\ Durable' = Durable
  BY <1>1, <1>2, SameLogGrows
<1>4. TypeOK'
  BY <1>1, <1>2 DEF TypeOK
<1>5. StoreInv'
  BY <1>1, <1>2, <1>3 DEF StoreInv, Kept, Registered, LogFrom
<1>6. ImageInv'
  BY <1>1, <1>2, <1>3, ImageKept
<1>7. \A d, m : ConsumerInv(d, m) => ConsumerInv(d, m)'
  <2> TAKE d, m
  <2> HAVE ConsumerInv(d, m)
  <2>1. m \in Memory /\ Owns(d, m) /\ (m.claim.open => Scanning(m))
    BY DEF ConsumerInv, Sound
  <2>2. Owns(d, m)'
    BY <1>1, <2>1 DEF Owns
  <2>3. m.claim.open => floor' <= m.claim.sequence
    BY <1>1, <2>1 DEF Scanning
  <2>4. frontier' = frontier /\ frontier' \in Nat /\ frontier <= frontier'
    BY <1>1, <1>2
  <2>5. Sound(m)'
    BY <1>2, <1>3, <2>3, <2>4, MemoryKept DEF ConsumerInv
  <2> QED
    BY <2>2, <2>5 DEF ConsumerInv
<1>8. \A d \in Consumers : \A m \in {consumer'[d]} : ConsumerInv(d, m)
  BY <1>2 DEF RetentionInv
<1> QED
  BY <1>2, <1>4, <1>5, <1>6, <1>7, <1>8 DEF RetentionInv

-----------------------------------------------------------------------------
(* Snapshots and scans.                                                    *)

(* What a consumer holds, with one or two of its parts replaced.           *)
LEMMA FreshIsRight ==
  ASSUME RetentionInv, NEW c
  PROVE  ConsumerInv(c, Fresh)
<1>1. namespace \in Nat /\ namespace > 0
  BY DEF RetentionInv, TypeOK
<1>2. <<>> \in Seq(Keys) /\ NoRows \in [Keys -> Nat]
  BY DEF NoRows
<1>3. Fresh \in Memory
  BY <1>2 DEF Fresh, Memory, Tokens, Claims, Batches, NoToken, NoClaim, NoBatch
<1>4. Owns(c, Fresh)
  BY <1>1 DEF Owns, Fresh, NoToken
<1> QED
  BY <1>3, <1>4 DEF ConsumerInv, Sound, Fresh, NoClaim

(* The facts about the store that consumers rely on.                       *)
LEMMA StoreFacts ==
  ASSUME RetentionInv
  PROVE  /\ TypeOK /\ Durable \in Nat /\ frontier \in Nat /\ floor \in Nat
         /\ floor <= frontier /\ frontier <= Durable
         /\ nextId \in Nat /\ nextId > 0 /\ namespace \in Nat /\ namespace > 0
         /\ versions \in SUBSET Nat
         /\ \A c \in Consumers : ConsumerInv(c, consumer[c]) /\ consumer[c] \in Memory
BY DurableIsNat DEF RetentionInv, TypeOK, StoreInv, ConsumerInv, Sound

(* What a consumer holds after a capture.                                  *)
Captured(claim, token) ==
  [saved |-> FALSE, token |-> token, mark |-> 0, rows |-> NoRows, claim |-> claim,
   at |-> 0, batch |-> NoBatch]

(* A capture leaves the fresh state with the snapshot and perhaps a token. *)
LEMMA CapturedIs ==
  ASSUME NEW claim, NEW token
  PROVE  /\ [Fresh EXCEPT !.claim = claim, !.token = token] = Captured(claim, token)
         /\ [Fresh EXCEPT !.claim = claim] = Captured(claim, NoToken)
<1>1. PICK f : f = Fresh
  OBVIOUS
<1>2. PICK g, h : g = [f EXCEPT !.claim = claim, !.token = token] /\ h = [f EXCEPT !.claim = claim]
  OBVIOUS
<1>3. f \in [saved : {FALSE}, token : {NoToken}, mark : {0}, rows : {NoRows},
             claim : {NoClaim}, at : {0}, batch : {NoBatch}]
  BY <1>1 DEF Fresh
<1>4. g \in [saved : {FALSE}, token : {token}, mark : {0}, rows : {NoRows},
             claim : {claim}, at : {0}, batch : {NoBatch}]
  BY <1>2, <1>3
<1>5. h \in [saved : {FALSE}, token : {NoToken}, mark : {0}, rows : {NoRows},
             claim : {claim}, at : {0}, batch : {NoBatch}]
  BY <1>2, <1>3
<1>6. g = Captured(claim, token)
  BY <1>4 DEF Captured
<1>7. h = Captured(claim, NoToken)
  BY <1>5 DEF Captured
<1> QED
  BY Zenon, <1>1, <1>2, <1>6, <1>7

(* A snapshot of the present shows the log up to the frontier.             *)
LEMMA CaptureIsRight ==
  ASSUME RetentionInv, NEW t \in Tokens, NEW n, n = Captured(Capture, t)
  PROVE  Sound(n)
<1>1. /\ n.saved = FALSE /\ n.token = t /\ n.mark = 0 /\ n.rows = NoRows
      /\ n.claim = Claim(frontier, versions) /\ n.at = 0 /\ n.batch = NoBatch
  BY DEF Captured, Capture
<1>2. /\ n.claim.open = TRUE /\ n.claim.held = TRUE
      /\ n.claim.sequence = frontier /\ n.claim.view = versions
  BY <1>1 DEF Claim
<1>3. <<>> \in Seq(Keys) /\ NoRows \in [Keys -> Nat]
  BY DEF NoRows
<1>4. n \in Memory
  <2>1. Claim(frontier, versions) \in Claims
    BY StoreFacts DEF Claim, Claims
  <2>2. NoBatch \in Batches
    BY <1>3 DEF NoBatch, Batches
  <2>3. n = [saved |-> FALSE, token |-> t, mark |-> 0, rows |-> NoRows,
             claim |-> Claim(frontier, versions), at |-> 0, batch |-> NoBatch]
    BY DEF Captured, Capture
  <2> QED
    BY <1>3, <2>1, <2>2, <2>3 DEF Memory
<1>5. \A k \in Keys : ReadValue(versions, k, frontier) = Newest(k, frontier)
  <2>1. outcomes \in SUBSET Nat /\ Kept(versions, outcomes, floor, frontier)
    BY DEF RetentionInv, TypeOK, StoreInv
  <2> QED
    BY <2>1, StoreFacts, KeptShowsNewest
<1>6. \A k \in Keys : n.rows[k] = 0 /\ ~(k <= n.at)
  BY <1>1, RetentionAssumption DEF NoRows
<1>7. Scanning(n)
  BY <1>2, <1>5, <1>6, StoreFacts DEF Scanning
<1> QED
  BY <1>1, <1>2, <1>4, <1>7 DEF Sound

(* Snapshots are taken, revoked and dropped.                               *)
LEMMA SnapshotStep ==
  ASSUME RetentionInv, NEW c \in Consumers,
         Snapshot(c) \/ Revoke(c) \/ ScanRevoked(c) \/ StartOver(c)
  PROVE  RetentionInv'
<1>1. CASE Snapshot(c)
  <2>1. PICK n : n = Captured(Capture, NoToken)
    OBVIOUS
  <2>2. consumer' = [consumer EXCEPT ![c] = n]
    BY <1>1, <2>1, CapturedIs DEF Snapshot
  <2>3. Owns(c, n)
    <3>1. n.token = NoToken
      BY <2>1 DEF Captured
    <3> QED
      BY <3>1, StoreFacts DEF Owns, NoToken
  <2>4. ConsumerInv(c, n)
    BY <2>1, <2>3, CaptureIsRight DEF NoToken, Tokens, ConsumerInv
  <2> QED
    BY <1>1, <2>2, <2>4, ConsumerStep DEF Snapshot
<1>2. CASE Revoke(c)
  <2>1. PICK m : m = consumer[c]
    OBVIOUS
  <2>2. PICK n : n = [m EXCEPT !.claim = Revoked(m.claim)]
    OBVIOUS
  <2>3. m.claim.open /\ m \in Memory /\ ConsumerInv(c, m)
    BY <1>2, <2>1, StoreFacts DEF Revoke
  <2>4. /\ n \in Memory /\ ~n.claim.open /\ n.claim.held = m.claim.held
        /\ n.claim.sequence = m.claim.sequence
        /\ n.saved = m.saved /\ n.mark = m.mark /\ n.batch = m.batch /\ n.token = m.token
    BY <2>2, <2>3 DEF Memory, Tokens, Claims, Batches, Revoked
  <2>5. ~m.saved /\ m.claim.held
    BY <2>3 DEF ConsumerInv, Sound, Derived, NoClaim, Scanning
  <2>6. ConsumerInv(c, n)
    BY <2>3, <2>4, <2>5 DEF ConsumerInv, Sound, Owns
  <2>7. consumer' = [consumer EXCEPT ![c] = n]
    BY <1>2, <2>1, <2>2 DEF Revoke, RetentionInv
  <2> QED
    BY <1>2, <2>6, <2>7, ConsumerStep DEF Revoke
<1>3. CASE ScanRevoked(c) \/ StartOver(c)
  BY <1>3, FreshIsRight, ConsumerStep DEF ScanRevoked, StartOver
<1> QED
  BY <1>1, <1>2, <1>3

(* A scan copies one row after the other and passes over none.             *)
LEMMA ScanStep ==
  ASSUME RetentionInv, NEW c \in Consumers, ScanNext(c)
  PROVE  RetentionInv'
<1>1. PICK m : m = consumer[c]
  OBVIOUS
<1> DEFINE q == m.claim.sequence
           row(k) == ReadValue(m.claim.view, k, q)
           rest == {k \in Keys : k > m.at /\ row(k) # 0}
<1>2. /\ m.claim.open /\ rest # {}
      /\ consumer' = [consumer EXCEPT ![c] =
           [m EXCEPT !.at = Min(rest), !.rows[Min(rest)] = row(Min(rest))]]
      /\ UNCHANGED <<disk, cursors, nextId, namespace, image>>
  BY <1>1 DEF ScanNext
<1>3. m \in Memory /\ ConsumerInv(c, m) /\ Scanning(m)
  BY <1>1, <1>2, StoreFacts DEF ConsumerInv, Sound
<1>4. /\ m.at \in Nat /\ m.rows \in [Keys -> Nat] /\ q \in Nat
      /\ m.claim.view \in SUBSET Nat
  BY <1>3 DEF Memory, Tokens, Claims, Batches
<1>5. rest \in SUBSET Nat
  BY RetentionAssumption
<1>6. Min(rest) \in rest /\ \A k \in rest : Min(rest) <= k
  <2> HIDE DEF rest
  <2> QED
    BY <1>2, <1>5, MinIsLeast
<1>7. PICK l : l = Min(rest)
  OBVIOUS
<1>8. l \in Keys /\ l \in Nat /\ l > m.at /\ \A k \in Keys : k > m.at /\ row(k) # 0 => l <= k
  BY <1>5, <1>6, <1>7
<1>9. PICK n : n = [m EXCEPT !.at = l, !.rows[l] = row(l)]
  OBVIOUS
<1>10. \A k \in Keys : row(k) \in Nat /\ row(k) = Newest(k, q)
  <2> TAKE k \in Keys
  <2>1. row(k) \in Nat
    BY <1>4, ReadValueIs
  <2> QED
    BY <1>3, <2>1 DEF Scanning
<1> HIDE DEF row, q, rest
<1>11. /\ n.at = l /\ n.rows = [m.rows EXCEPT ![l] = row(l)]
       /\ n.saved = m.saved /\ n.mark = m.mark /\ n.claim = m.claim
       /\ n.batch = m.batch /\ n.token = m.token
  BY <1>3, <1>9 DEF Memory, Tokens, Claims, Batches
<1>12. n \in Memory
  BY <1>3, <1>8, <1>9, <1>10 DEF Memory, Tokens, Claims, Batches
<1>13. \A k \in Keys : n.rows[k] = IF k <= n.at THEN Newest(k, q) ELSE 0
  <2> TAKE k \in Keys
  <2>1. k \in Nat /\ m.rows[k] = IF k <= m.at THEN Newest(k, q) ELSE 0
    BY <1>3, RetentionAssumption DEF Scanning, q
  <2>2. CASE k = l
    BY <1>4, <1>8, <1>10, <1>11, <2>2
  <2>3. CASE k # l
    <3>1. n.rows[k] = m.rows[k]
      BY <1>4, <1>11, <2>3
    <3>2. CASE k <= m.at
      BY <1>4, <1>8, <1>11, <2>1, <3>1, <3>2
    <3>3. CASE k > m.at /\ k < l
      <4>1. row(k) = 0
        BY <1>8, <2>1, <3>3
      <4> QED
        BY <1>4, <1>10, <1>11, <2>1, <3>1, <3>3, <4>1
    <3>4. CASE k > l
      BY <1>4, <1>8, <1>11, <2>1, <3>1, <3>4
    <3> QED
      BY <1>4, <1>8, <2>1, <2>3, <3>2, <3>3, <3>4
  <2> QED
    BY <2>2, <2>3
<1>14. Scanning(n)
  BY <1>3, <1>11, <1>13 DEF Scanning, q
<1>15. ConsumerInv(c, n)
  <2>1. m.claim.open /\ ~m.saved /\ m.claim.held
    BY <1>2, <1>3 DEF ConsumerInv, Sound, Derived, NoClaim, Scanning
  <2> QED
    BY <1>3, <1>11, <1>12, <1>14, <2>1 DEF ConsumerInv, Sound, Owns
<1>16. consumer' = [consumer EXCEPT ![c] = n]
  BY <1>2, <1>7, <1>9 DEF row, q, rest
<1> QED
  BY <1>2, <1>15, <1>16, ConsumerStep

(* A scan that has passed the last key holds every row of its snapshot.    *)
LEMMA ScanDoneStep ==
  ASSUME RetentionInv, NEW c \in Consumers, ScanDone(c)
  PROVE  RetentionInv'
<1>1. PICK m : m = consumer[c]
  OBVIOUS
<1>2. PICK n : n = [m EXCEPT !.saved = TRUE, !.mark = m.claim.sequence,
                             !.claim = NoClaim, !.at = 0]
  OBVIOUS
<1>3. /\ m.claim.open
      /\ \A k \in Keys : k > m.at => ReadValue(m.claim.view, k, m.claim.sequence) = 0
      /\ consumer' = [consumer EXCEPT ![c] = n]
      /\ UNCHANGED <<disk, cursors, nextId, namespace, image>>
  BY <1>1, <1>2 DEF ScanDone
<1>4. m \in Memory /\ ConsumerInv(c, m) /\ Scanning(m)
  BY <1>1, <1>3, StoreFacts DEF ConsumerInv, Sound
<1>5. ~m.saved /\ m.batch = NoBatch /\ m.at \in Nat /\ m.claim.sequence \in Nat
  BY <1>3, <1>4 DEF ConsumerInv, Sound, Derived, NoClaim, Memory, Tokens, Claims, Batches
<1>6. /\ n.saved = TRUE /\ n.mark = m.claim.sequence /\ n.claim = NoClaim
      /\ n.rows = m.rows /\ n.batch = NoBatch /\ n.token = m.token
  BY <1>2, <1>4, <1>5 DEF Memory, Tokens, Claims, Batches
<1>7. n \in Memory
  BY <1>2, <1>4 DEF Memory, Tokens, Claims, Batches, NoClaim
<1>8. \A k \in Keys : n.rows[k] = Newest(k, n.mark)
  <2> TAKE k \in Keys
  <2>1. k \in Nat
    BY RetentionAssumption
  <2> QED
    BY <1>3, <1>4, <1>5, <1>6, <2>1 DEF Scanning
<1>9. n.mark <= Durable
  BY <1>4, <1>5, <1>6, StoreFacts DEF Scanning
<1>10. Owns(c, n)
  BY <1>4, <1>5, <1>6 DEF ConsumerInv, Sound, Owns
<1>11. ConsumerInv(c, n)
  BY <1>6, <1>7, <1>8, <1>9, <1>10 DEF ConsumerInv, Sound, Derived, NoClaim
<1> QED
  BY <1>3, <1>11, ConsumerStep

-----------------------------------------------------------------------------
(* Feeds.                                                                  *)

(* After an attach a consumer picks a registration that covers it.         *)
LEMMA RebindStep ==
  ASSUME RetentionInv, NEW c \in Consumers, NEW id \in DOMAIN cursors, Rebind(c, id)
  PROVE  RetentionInv'
<1>1. PICK m : m = consumer[c]
  OBVIOUS
<1>2. PICK t : t = Token(id, cursors[id].kind)
  OBVIOUS
<1>3. PICK n : n = [m EXCEPT !.token = t, !.batch = NoBatch]
  OBVIOUS
<1>4. /\ m.saved /\ id < nextId /\ cursors[id].label = c /\ cursors[id].baseline <= m.mark
      /\ UNCHANGED <<disk, cursors, nextId, namespace, image>>
      /\ consumer' = [consumer EXCEPT ![c].token = t, ![c].batch = NoBatch]
  BY <1>1, <1>2 DEF Rebind
<1>5. m \in Memory /\ ConsumerInv(c, m) /\ Derived(m)
  BY <1>1, <1>4, StoreFacts DEF ConsumerInv, Sound
<1>6. consumer' = [consumer EXCEPT ![c] = n]
  BY <1>1, <1>3, <1>4 DEF RetentionInv
<1>7. t.namespace = namespace /\ t.id = id /\ t \in Tokens
  <2>1. id \in Nat /\ cursors[id].kind \in Kinds
    BY DEF RetentionInv, StoreInv, Registered, Registrations
  <2> QED
    BY <1>2, <2>1, StoreFacts DEF Token, Tokens
<1>8. /\ n.saved = m.saved /\ n.mark = m.mark /\ n.rows = m.rows /\ n.claim = m.claim
      /\ n.token = t /\ n.batch = NoBatch
  BY <1>3, <1>5 DEF Memory
<1>9. n \in Memory
  <2>1. NoBatch \in Batches
    BY DEF NoBatch, Batches
  <2> QED
    BY <1>3, <1>5, <1>7, <2>1 DEF Memory
<1>10. Owns(c, n)
  BY <1>4, <1>7, <1>8, StoreFacts DEF Owns
<1>11. ConsumerInv(c, n)
  BY <1>4, <1>5, <1>8, <1>9, <1>10 DEF ConsumerInv, Sound, Derived, NoClaim
<1> QED
  BY <1>4, <1>6, <1>11, ConsumerStep

(* A batch ends between its start and the visible end.                     *)
LEMMA BatchEnds ==
  ASSUME NEW after \in Nat, NEW limits, frontier \in Nat, after < frontier
  PROVE  /\ BatchEnd(after, limits) \in Nat
         /\ after <= BatchEnd(after, limits) /\ BatchEnd(after, limits) <= frontier
<1> DEFINE T == {end \in after .. frontier : Fits(after, end, limits)}
<1>1. after \in T
  BY DEF Fits
<1>2. \A y \in T : y \in Nat /\ after <= y /\ y <= frontier
  OBVIOUS
<1>3. BatchEnd(after, limits) \in {after + 1, Max(T)}
  BY DEF BatchEnd
<1> HIDE DEF T
<1>4. T \in SUBSET Nat /\ T # {}
  BY <1>1, <1>2
<1>5. Max(T) \in T
  BY <1>2, <1>4, MaxIsGreatest
<1> QED
  BY <1>2, <1>3, <1>5

(* What a feed returns is the log after the watermark.                     *)
LEMMA ReadFeedStep ==
  ASSUME RetentionInv, NEW c \in Consumers, NEW limits, ReadFeed(c, limits)
  PROVE  RetentionInv'
<1>1. PICK m : m = consumer[c]
  OBVIOUS
<1>2. PICK e : e = BatchEnd(m.mark, limits)
  OBVIOUS
<1>3. PICK b : b = [start |-> m.mark, end |-> e, records |-> SubSeq(log, m.mark + 1, e)]
  OBVIOUS
<1>4. PICK n : n = [m EXCEPT !.batch = b]
  OBVIOUS
<1>5. /\ m.saved /\ m.mark < frontier
      /\ UNCHANGED <<disk, cursors, nextId, namespace, image>>
      /\ consumer' = [consumer EXCEPT ![c].batch = b]
  BY <1>1, <1>2, <1>3 DEF ReadFeed
<1>6. m \in Memory /\ ConsumerInv(c, m) /\ m.mark \in Nat
  BY <1>1, StoreFacts DEF Memory
<1>7. e \in Nat /\ m.mark <= e /\ e <= Durable
  BY <1>2, <1>5, <1>6, BatchEnds, StoreFacts
<1>8. PICK r : r = SubSeq(log, m.mark + 1, e)
  OBVIOUS
<1>9. /\ r \in Seq(Keys) /\ Len(r) = e - m.mark
      /\ \A i \in 1 .. Len(r) : r[i] = log[m.mark + i]
  <2>1. log \in Seq(Keys) /\ Durable = Len(log)
    BY StoreFacts DEF TypeOK, Durable
  <2>3. \A i \in m.mark + 1 .. e : log[i] \in Keys
    BY <1>6, <1>7, <2>1, ElementOfSeq
  <2>4. /\ r \in Seq(Keys)
        /\ Len(r) = IF m.mark + 1 <= e THEN e - (m.mark + 1) + 1 ELSE 0
        /\ \A i \in 1 .. e - (m.mark + 1) + 1 : r[i] = log[(m.mark + 1) + i - 1]
    <3>1. m.mark + 1 \in Int /\ e \in Int
      BY <1>6, <1>7
    <3> QED
      BY <1>8, <2>3, <3>1, SubSeqProperties, SMTT(30)
  <2>5. Len(r) = e - m.mark /\ e - (m.mark + 1) + 1 = e - m.mark
    BY <1>6, <1>7, <2>4
  <2>6. \A i \in 1 .. Len(r) : (m.mark + 1) + i - 1 = m.mark + i
    BY <1>6, <1>7, <2>5
  <2> QED
    BY <2>4, <2>5, <2>6
<1>10. b.start = m.mark /\ b.end = e /\ b.records = r
  BY <1>3, <1>8
<1>11. b \in Batches /\ Fetched(b)
  <2>1. b \in Batches
    BY <1>3, <1>6, <1>7, <1>8, <1>9 DEF Batches
  <2> QED
    BY <1>7, <1>9, <1>10, <2>1 DEF Fetched
<1>12. /\ n.saved = m.saved /\ n.mark = m.mark /\ n.rows = m.rows /\ n.claim = m.claim
       /\ n.token = m.token /\ n.batch = b
  BY <1>4, <1>6 DEF Memory
<1>13. n \in Memory
  BY <1>4, <1>6, <1>11 DEF Memory
<1>14. ConsumerInv(c, n)
  BY <1>5, <1>6, <1>11, <1>12, <1>13 DEF ConsumerInv, Sound, Owns, Derived, NoClaim
<1>15. consumer' = [consumer EXCEPT ![c] = n]
  BY <1>1, <1>4, <1>5 DEF RetentionInv
<1> QED
  BY <1>5, <1>14, <1>15, ConsumerStep

(* The rows at a later sequence, from those at an earlier one and the      *)
(* records between.                                                        *)
LEMMA NewestExtends ==
  ASSUME NEW k \in Keys, NEW q \in Nat, NEW e \in Nat, q <= e,
         NEW r \in Seq(Keys), Len(r) = e - q,
         \A i \in 1 .. Len(r) : r[i] = log[q + i]
  PROVE  Max({Newest(k, q)} \cup {q + i : i \in {i \in DOMAIN r : r[i] = k}}) = Newest(k, e)
<1>1. PICK x : x = Newest(k, q)
  OBVIOUS
<1>2. PICK v : v = Newest(k, e)
  OBVIOUS
<1>3. /\ x \in Nat /\ x <= q
      /\ x = 0 \/ (x \in 1 .. q /\ log[x] = k)
      /\ \A s \in 1 .. q : s <= q /\ log[s] = k => s <= x
  <2>1. 1 .. q \in SUBSET Nat
    OBVIOUS
  <2> QED
    BY <1>1, <2>1, ReadValueIs DEF Newest
<1>4. /\ v \in Nat /\ v <= e
      /\ v = 0 \/ (v \in 1 .. e /\ log[v] = k)
      /\ \A s \in 1 .. e : s <= e /\ log[s] = k => s <= v
  <2>1. 1 .. e \in SUBSET Nat
    OBVIOUS
  <2> QED
    BY <1>2, <2>1, ReadValueIs DEF Newest
<1>5. DOMAIN r = 1 .. e - q
  BY LenProperties
<1> DEFINE T == {x} \cup {q + i : i \in {i \in DOMAIN r : r[i] = k}}
<1>6. \A y : y \in T <=> y = x \/ \E i \in 1 .. e - q : r[i] = k /\ y = q + i
  BY <1>5
<1> HIDE DEF T
<1>7. \A i \in 1 .. e - q : r[i] = log[q + i] /\ q + i \in 1 .. e
  OBVIOUS
<1>8. \A y \in T : y \in Nat /\ y <= v
  <2> TAKE y \in T
  <2>1. CASE y = x
    BY <1>3, <1>4, <2>1
  <2>2. CASE y # x
    <3>1. PICK i \in 1 .. e - q : r[i] = k /\ y = q + i
      BY <1>6, <2>2
    <3> QED
      BY <1>4, <1>7, <3>1
  <2> QED
    BY <2>1, <2>2
<1>9. v \in T
  <2>1. CASE v <= q
    <3>1. v = x
      BY <1>3, <1>4, <2>1
    <3> QED
      BY <1>6, <3>1
  <2>2. CASE v > q
    <3>1. v - q \in 1 .. e - q /\ v = q + (v - q) /\ log[v] = k
      BY <1>4, <2>2
    <3>2. r[v - q] = k
      BY <1>7, <3>1
    <3> QED
      BY <1>6, <3>1, <3>2
  <2> QED
    BY <1>4, <2>1, <2>2
<1>10. Max(T) = v
  <2>1. T \in SUBSET Nat
    BY <1>8
  <2> QED
    BY <1>8, <1>9, <2>1, MaxIsUnique
<1> QED
  BY <1>1, <1>2, <1>10 DEF T

(* A batch brings the rows from its start to its end; one that is tried    *)
(* again after it was committed, or read before the consumer moved, is     *)
(* dropped.                                                                *)
LEMMA StageStep ==
  ASSUME RetentionInv, NEW c \in Consumers, NEW again \in BOOLEAN, Stage(c, again)
  PROVE  RetentionInv'
<1>1. PICK m : m = consumer[c]
  OBVIOUS
<1>2. PICK b : b = m.batch
  OBVIOUS
<1>3. PICK rows : rows = [k \in Keys |-> Max({m.rows[k]} \cup
                 {m.mark + i : i \in {i \in DOMAIN b.records : b.records[i] = k}})]
  OBVIOUS
<1>4. /\ b # NoBatch
      /\ consumer' = [consumer EXCEPT ![c] =
           IF b.start # m.mark THEN [m EXCEPT !.batch = NoBatch]
           ELSE [m EXCEPT !.batch = IF again THEN b ELSE NoBatch, !.mark = b.end, !.rows = rows]]
      /\ UNCHANGED <<disk, cursors, nextId, namespace, image>>
  BY <1>1, <1>2, <1>3 DEF Stage
<1>5. m \in Memory /\ ConsumerInv(c, m)
  BY <1>1, StoreFacts
<1>6. m.saved /\ Derived(m) /\ Fetched(b) /\ Owns(c, m)
  BY <1>2, <1>4, <1>5 DEF ConsumerInv, Sound
<1>7. /\ m.mark \in Nat /\ b \in Batches /\ b.start \in Nat /\ b.end \in Int
      /\ b.records \in Seq(Keys) /\ NoBatch \in Batches
  BY <1>2, <1>5 DEF Memory, Batches, NoBatch
<1>8. CASE b.start # m.mark
  <2>1. PICK n : n = [m EXCEPT !.batch = NoBatch]
    OBVIOUS
  <2>2. /\ n.saved = m.saved /\ n.mark = m.mark /\ n.rows = m.rows /\ n.claim = m.claim
        /\ n.token = m.token /\ n.batch = NoBatch
    BY <1>5, <2>1 DEF Memory
  <2>3. n \in Memory
    BY <1>5, <1>7, <2>1 DEF Memory
  <2>4. ConsumerInv(c, n)
    BY <1>5, <1>6, <2>2, <2>3 DEF ConsumerInv, Sound, Owns, Derived, NoClaim
  <2>5. consumer' = [consumer EXCEPT ![c] = n]
    BY <1>4, <1>8, <2>1
  <2> QED
    BY <1>4, <2>4, <2>5, ConsumerStep
<1>9. CASE b.start = m.mark
  <2>1. PICK d : d = IF again THEN b ELSE NoBatch
    OBVIOUS
  <2>2. PICK n : n = [m EXCEPT !.batch = d, !.mark = b.end, !.rows = rows]
    OBVIOUS
  <2>3. /\ b.end \in Nat /\ m.mark <= b.end /\ b.end <= Durable
        /\ Len(b.records) = b.end - m.mark
        /\ \A i \in 1 .. Len(b.records) : b.records[i] = log[m.mark + i]
    BY <1>6, <1>7, <1>9 DEF Fetched
  <2>4. \A k \in Keys : m.rows[k] = Newest(k, m.mark)
    BY <1>6 DEF Derived
  <2>5. \A k \in Keys : rows[k] = Newest(k, b.end)
    <3> TAKE k \in Keys
    <3>1. PICK r, q, e : r = b.records /\ q = m.mark /\ e = b.end
      OBVIOUS
    <3>2. /\ r \in Seq(Keys) /\ q \in Nat /\ e \in Nat /\ q <= e /\ Len(r) = e - q
          /\ \A i \in 1 .. Len(r) : r[i] = log[q + i]
      BY <1>7, <2>3, <3>1
    <3>3. Max({Newest(k, q)} \cup {q + i : i \in {i \in DOMAIN r : r[i] = k}}) = Newest(k, e)
      BY ONLY k \in Keys, <3>2, NewestExtends
    <3>4. rows[k] = Max({m.rows[k]} \cup {q + i : i \in {i \in DOMAIN r : r[i] = k}})
      BY Zenon, <1>3, <3>1
    <3> QED
      BY Zenon, <2>4, <3>1, <3>3, <3>4
  <2>6. rows \in [Keys -> Nat]
    <3>1. \A k \in Keys : Newest(k, b.end) \in Nat
      <4>1. 1 .. b.end \in SUBSET Nat
        BY <2>3
      <4> QED
        BY <2>3, <4>1, ReadValueIs DEF Newest
    <3> QED
      BY <1>3, <2>5, <3>1
  <2>7. d \in Batches /\ (d # NoBatch => d = b)
    BY <1>7, <2>1
  <2>8. /\ n.saved = m.saved /\ n.mark = b.end /\ n.rows = rows /\ n.claim = m.claim
        /\ n.token = m.token /\ n.batch = d
    BY <1>5, <2>2 DEF Memory
  <2>9. n \in Memory
    BY <1>5, <2>2, <2>3, <2>6, <2>7 DEF Memory
  <2>10. Owns(c, n)
    <3>1. \A id \in DOMAIN cursors : cursors[id].baseline \in Nat
      BY DEF RetentionInv, StoreInv, Registered
    <3> QED
      BY <1>6, <1>7, <2>3, <2>8, <3>1 DEF Owns
  <2>11. Derived(n)
    BY <1>6, <2>3, <2>5, <2>8 DEF Derived
  <2>12. ConsumerInv(c, n)
    <3>1. n.saved /\ ~n.claim.open
      BY <1>6, <2>8 DEF Derived, NoClaim
    <3>2. n.batch # NoBatch => Fetched(n.batch)
      BY <1>6, <2>7, <2>8
    <3> QED
      BY <2>9, <2>10, <2>11, <3>1, <3>2 DEF ConsumerInv, Sound
  <2>13. consumer' = [consumer EXCEPT ![c] = n]
    <3>1. consumer' = [consumer EXCEPT ![c] = [m EXCEPT !.batch = d, !.mark = b.end, !.rows = rows]]
      BY Zenon, <1>4, <1>9, <2>1
    <3> QED
      BY Zenon, <2>2, <3>1
  <2> QED
    BY <1>4, <2>12, <2>13, ConsumerStep
<1> QED
  BY <1>8, <1>9

-----------------------------------------------------------------------------
(* The store.                                                              *)

(* A step after which the store and the image are right, and every         *)
(* consumer holds what was right before under the floor of the new state.  *)
LEMMA WholeStep ==
  ASSUME RetentionInv, TypeOK', StoreInv', ImageInv', LogGrows, frontier <= frontier',
         DOMAIN consumer' = Consumers,
         \A c \in Consumers : \A m \in {consumer'[c]} :
           Sound(m) /\ Owns(c, m)' /\ (m.claim.open => floor' <= m.claim.sequence)
  PROVE  RetentionInv'
<1>1. frontier \in Nat /\ frontier <= Durable /\ frontier' \in Nat
  BY StoreFacts DEF TypeOK
<1>2. \A c \in Consumers : \A m \in {consumer'[c]} : ConsumerInv(c, m)'
  <2> TAKE c \in Consumers
  <2> TAKE m \in {consumer'[c]}
  <2>1. Sound(m) /\ Owns(c, m)' /\ (m.claim.open => floor' <= m.claim.sequence)
    OBVIOUS
  <2>2. Sound(m)'
    BY <1>1, <2>1, MemoryKept
  <2> QED
    BY <2>1, <2>2 DEF ConsumerInv
<1> QED
  BY <1>2 DEF RetentionInv

(* The same when consumers and registrations stay as they are.             *)
LEMMA StoreStep ==
  ASSUME RetentionInv, UNCHANGED <<cursors, nextId, namespace, image, consumer>>,
         TypeOK', StoreInv', LogGrows, frontier <= frontier',
         \A c \in Consumers : consumer[c].claim.open => floor' <= consumer[c].claim.sequence
  PROVE  RetentionInv'
<1>1. ImageInv'
  BY ImageKept DEF RetentionInv
<1>2. DOMAIN consumer' = Consumers
  BY DEF RetentionInv
<1>3. \A c \in Consumers : \A m \in {consumer'[c]} :
        Sound(m) /\ Owns(c, m)' /\ (m.claim.open => floor' <= m.claim.sequence)
  <2> TAKE c \in Consumers
  <2> TAKE m \in {consumer'[c]}
  <2>1. m = consumer[c] /\ ConsumerInv(c, m)
    BY StoreFacts
  <2>2. Owns(c, m)'
    BY <2>1 DEF ConsumerInv, Owns
  <2> QED
    BY <2>1, <2>2 DEF ConsumerInv
<1> QED
  BY <1>1, <1>2, <1>3, WholeStep

(* A record is appended, to a new segment when one is due.                 *)
LEMMA CommitStep ==
  ASSUME RetentionInv, NEW key \in Keys, Commit(key)
  PROVE  RetentionInv'
<1>1. /\ log' = Append(log, key) /\ rotate' = FALSE
      /\ starts' = IF starts = {} \/ rotate THEN starts \cup {Durable + 1} ELSE starts
      /\ UNCHANGED <<versions, outcomes, frontier, checkpoint, floor>>
      /\ UNCHANGED <<cursors, nextId, namespace, image, consumer>>
  BY DEF Commit
<1>2. TypeOK /\ StoreInv /\ Durable \in Nat /\ log \in Seq(Keys) /\ starts \in SUBSET Nat
  BY StoreFacts DEF RetentionInv, TypeOK
<1>3. /\ log' \in Seq(Keys) /\ Durable' = Durable + 1
      /\ \A i \in 1 .. Durable : log'[i] = log[i]
  BY <1>1, <1>2, AppendProperties DEF Durable
<1>4. LogGrows
  BY <1>2, <1>3 DEF LogGrows
<1>5. TypeOK'
  <2>1. starts' \in SUBSET Nat
    BY <1>1, <1>2
  <2> QED
    BY <1>1, <1>2, <1>3, <2>1 DEF TypeOK
<1>6. StoreInv'
  <2>1. Kept(versions, outcomes, floor, frontier)'
    <3>1. PICK vs, os, low, end :
            vs = versions /\ os = outcomes /\ low = floor /\ end = frontier
      OBVIOUS
    <3>2. Kept(vs, os, low, end)'
      BY <1>2, <1>4, <3>1, StoreFacts, KeptKept DEF StoreInv
    <3> QED
      BY <1>1, <3>1, <3>2
  <2>2. \A s \in starts' : 1 <= s /\ s <= Durable'
    BY <1>1, <1>2, <1>3 DEF StoreInv
  <2>3. \A id \in DOMAIN cursors : cursors[id].kind # Resolved =>
          LogFrom(starts', Durable', cursors[id].baseline)
    <3> SUFFICES ASSUME NEW id \in DOMAIN cursors, cursors[id].kind # Resolved
                 PROVE  \E s \in starts' : s <= cursors[id].baseline + 1
      BY DEF LogFrom
    <3>1. PICK b : b = cursors[id].baseline
      OBVIOUS
    <3>2. b \in Nat /\ b <= Durable /\ LogFrom(starts, Durable, b)
      BY <1>2, <3>1, StoreFacts DEF StoreInv, Registered
    <3>3. CASE b < Durable
      BY <1>1, <3>1, <3>2, <3>3 DEF LogFrom
    <3>4. CASE b = Durable /\ starts = {}
      BY <1>1, <3>1, <3>2, <3>4
    <3>5. CASE b = Durable /\ starts # {}
      <4>1. PICK s \in starts : s <= Durable
        BY <1>2, <3>5 DEF StoreInv
      <4>2. s \in Nat /\ s \in starts' /\ s <= b + 1
        BY <1>1, <1>2, <3>5, <4>1
      <4> QED
        BY <3>1, <4>2
    <3> QED
      BY <1>2, <3>2, <3>3, <3>4, <3>5
  <2>4. Registered(cursors, nextId, floor, frontier, starts, Durable)'
    BY <1>1, <1>2, <2>3 DEF StoreInv, Registered
  <2>5. floor' <= checkpoint' /\ checkpoint' <= frontier' /\ frontier' <= Durable'
    BY <1>1, <1>2, <1>3, StoreFacts DEF StoreInv
  <2> QED
    BY <2>1, <2>2, <2>4, <2>5 DEF StoreInv
<1>7. \A c \in Consumers : consumer[c].claim.open => floor' <= consumer[c].claim.sequence
  BY <1>1, StoreFacts DEF ConsumerInv, Sound, Scanning
<1>8. frontier <= frontier'
  BY <1>1, StoreFacts
<1> QED
  BY <1>1, <1>4, <1>5, <1>6, <1>7, <1>8, StoreStep

(* A record is installed, in any order, and the frontier follows.          *)
LEMMA ResolveStep ==
  ASSUME RetentionInv, NEW r \in 1 .. Durable, Resolve(r)
  PROVE  RetentionInv'
<1>1. /\ r > frontier
      /\ outcomes' = outcomes \cup {r} /\ versions' = versions \cup {r}
      /\ frontier' = Max({e \in frontier .. Durable : \A x \in frontier + 1 .. e : x \in outcomes'})
      /\ checkpoint' \in {frontier', checkpoint}
      /\ UNCHANGED <<log, starts, rotate, floor, cursors, nextId, namespace, image, consumer>>
  BY DEF Resolve
<1>2. /\ TypeOK /\ StoreInv /\ Durable \in Nat /\ frontier \in Nat /\ frontier <= Durable
      /\ floor \in Nat /\ floor <= frontier
      /\ checkpoint \in Nat /\ checkpoint <= frontier /\ floor <= checkpoint
      /\ Kept(versions, outcomes, floor, frontier)
      /\ versions \in SUBSET Nat /\ outcomes \in SUBSET Nat
  BY StoreFacts DEF RetentionInv, TypeOK, StoreInv
<1>3. LogGrows /\ Durable' = Durable
  BY <1>1, <1>2, SameLogGrows
<1>4. /\ frontier' \in frontier .. Durable
      /\ \A x \in frontier + 1 .. frontier' : x \in outcomes'
  <2>1. PICK os : os = outcomes'
    OBVIOUS
  <2> DEFINE T == {e \in frontier .. Durable : \A x \in frontier + 1 .. e : x \in os}
  <2>2. frontier \in T
    BY <1>2
  <2>3. \A e \in T : e \in frontier .. Durable /\ \A x \in frontier + 1 .. e : x \in os
    OBVIOUS
  <2>4. frontier' = Max(T)
    BY <1>1, <2>1
  <2> HIDE DEF T
  <2>5. T \in SUBSET Nat /\ \A e \in T : e <= Durable
    BY <1>2, <2>3
  <2>6. Max(T) \in T
    BY <1>2, <2>2, <2>5, MaxIsGreatest
  <2> QED
    BY <2>1, <2>3, <2>4, <2>6
<1>5. frontier' \in Nat /\ frontier <= frontier' /\ frontier' <= Durable
  BY <1>2, <1>4
<1>6. TypeOK'
  BY <1>1, <1>2, <1>5 DEF TypeOK
<1>7. Kept(versions, outcomes, floor, frontier)'
  <2>1. \A s \in versions' : 1 <= s /\ s <= Durable
    BY <1>1, <1>2 DEF Kept
  <2>2. \A s \in outcomes' : floor < s /\ s <= Durable /\ s \in versions'
    BY <1>1, <1>2 DEF Kept
  <2>3. \A s \in 1 .. frontier' : floor < s => s \in outcomes'
    <3> TAKE s \in 1 .. frontier'
    <3> HAVE floor < s
    <3>1. CASE s <= frontier
      BY <1>1, <1>2, <3>1 DEF Kept
    <3>2. CASE s > frontier
      BY <1>2, <1>4, <1>5, <3>2
    <3> QED
      BY <1>2, <3>1, <3>2
  <2>4. \A s \in 1 .. frontier' :
          s \in versions' \/ \E t \in versions' : s < t /\ t <= floor /\ log[t] = log[s]
    <3> TAKE s \in 1 .. frontier'
    <3>1. CASE s <= frontier
      <4>1. s \in 1 .. frontier
        BY <1>2, <1>5, <3>1
      <4> QED
        BY <1>1, <1>2, <4>1 DEF Kept
    <3>2. CASE s > frontier
      BY <1>2, <1>5, <2>2, <2>3, <3>2
    <3> QED
      BY <1>2, <3>1, <3>2
  <2> QED
    BY <1>1, <1>3, <2>1, <2>2, <2>3, <2>4 DEF Kept
<1>8. Registered(cursors, nextId, floor, frontier, starts, Durable)'
  BY <1>1, <1>2, <1>3, <1>5 DEF StoreInv, Registered
<1>9. StoreInv'
  BY <1>1, <1>2, <1>3, <1>5, <1>7, <1>8 DEF StoreInv
<1>10. \A c \in Consumers : consumer[c].claim.open => floor' <= consumer[c].claim.sequence
  BY <1>1, StoreFacts DEF ConsumerInv, Sound, Scanning
<1> QED
  BY <1>1, <1>3, <1>5, <1>6, <1>9, <1>10, StoreStep

(* Collecting up to a higher floor keeps what the floor promises: of the   *)
(* versions it drops, the newest one at the floor is still there.          *)
LEMMA CollectKeeps ==
  ASSUME NEW low \in Nat, floor \in Nat, frontier \in Nat, Durable \in Nat,
         versions \in SUBSET Nat, outcomes \in SUBSET Nat,
         floor <= low, low <= frontier, frontier <= Durable,
         Kept(versions, outcomes, floor, frontier),
         NEW vs, vs = {s \in versions : KeepVersion(s, low)},
         NEW os, os = {s \in outcomes : s > low}
  PROVE  Kept(vs, os, low, frontier)
<1>1. \A s \in vs : s \in versions /\ 1 <= s /\ s <= Durable
  BY DEF Kept
<1>2. \A s \in os : low < s /\ s <= Durable /\ s \in vs
  BY DEF Kept, KeepVersion
<1>3. \A s \in 1 .. frontier : low < s => s \in os
  BY DEF Kept
<1>4. ASSUME NEW s \in 1 .. frontier, s \notin vs
      PROVE  \E t \in vs : s < t /\ t <= low /\ log[t] = log[s]
  <2> DEFINE T == {t \in versions : log[t] = log[s] /\ s < t /\ t <= low}
  <2>1. T # {}
    <3>1. CASE s \in versions
      BY <1>4, <3>1 DEF KeepVersion
    <3>2. CASE s \notin versions
      <4>1. PICK t \in versions : s < t /\ t <= floor /\ log[t] = log[s]
        BY <3>2 DEF Kept
      <4>2. t \in T
        BY <4>1
      <4> QED
        BY <4>2
    <3> QED
      BY <3>1, <3>2
  <2>2. \A t : t \in T <=> t \in versions /\ log[t] = log[s] /\ s < t /\ t <= low
    OBVIOUS
  <2> HIDE DEF T
  <2>3. T \in SUBSET Nat /\ \A t \in T : t <= low
    BY <2>2
  <2>4. PICK t \in T : \A u \in T : u <= t
    BY <2>1, <2>3, MaxIsGreatest
  <2>5. t \in versions /\ log[t] = log[s] /\ s < t /\ t <= low
    BY <2>2, <2>4
  <2>6. ASSUME NEW u \in versions, log[u] = log[t], t < u, u <= low
        PROVE  FALSE
    <3>1. u \in T
      BY <2>2, <2>5, <2>6
    <3> QED
      BY <2>4, <2>5, <2>6, <3>1
  <2>7. KeepVersion(t, low)
    BY <2>6 DEF KeepVersion
  <2> QED
    BY <2>5, <2>7
<1> QED
  BY <1>1, <1>2, <1>3, <1>4 DEF Kept

(* Retiring segments below every claim leaves each logical registration    *)
(* the segment it reads next.                                              *)
LEMMA RetireKeeps ==
  ASSUME RetentionInv, frontier = Durable,
         NEW firsts, firsts = {s \in starts : SegmentEnd(s) >= RetentionFloors(frontier).log},
         NEW id \in DOMAIN cursors, cursors[id].kind # Resolved
  PROVE  LogFrom(firsts, Durable, cursors[id].baseline)
<1>1. PICK b : b = cursors[id].baseline
  OBVIOUS
<1>2. PICK f : f = RetentionFloors(frontier).log
  OBVIOUS
<1>3. b \in Nat /\ LogFrom(starts, Durable, b)
  BY <1>1 DEF RetentionInv, StoreInv, Registered
<1>4. f \in Nat /\ f <= b + 1
  BY <1>1, <1>2, FloorsRise
<1> SUFFICES ASSUME b < Durable
             PROVE  \E s \in firsts : s <= b + 1
  BY <1>1 DEF LogFrom
<1>5. PICK s \in starts : s <= b + 1 /\ SegmentEnd(s) \in Int /\ SegmentEnd(s) > b
  BY <1>3, SegmentHolds DEF RetentionInv, StoreInv
<1>6. SegmentEnd(s) >= f
  BY <1>3, <1>4, <1>5
<1> QED
  BY <1>2, <1>5, <1>6

(* A checkpoint is published, or history is collected, or a rotation is    *)
(* asked for.                                                              *)
LEMMA MaintainStep ==
  ASSUME RetentionInv, Publish \/ Maintain(TRUE, FALSE) \/ Maintain(FALSE, TRUE)
  PROVE  RetentionInv'
<1>1. /\ frontier = Durable /\ checkpoint' = frontier
      /\ UNCHANGED <<log, frontier, cursors, nextId, namespace, image, consumer>>
  BY DEF Publish, Maintain
<1>2. /\ TypeOK /\ StoreInv /\ Durable \in Nat /\ frontier \in Nat /\ frontier <= Durable
      /\ floor \in Nat /\ floor <= frontier
      /\ versions \in SUBSET Nat /\ outcomes \in SUBSET Nat /\ starts \in SUBSET Nat
      /\ rotate \in BOOLEAN
      /\ Kept(versions, outcomes, floor, frontier)
  BY StoreFacts DEF RetentionInv, TypeOK, StoreInv
<1>3. LogGrows /\ Durable' = Durable /\ frontier <= frontier'
  BY <1>1, <1>2, SameLogGrows
<1>4. rotate' \in BOOLEAN
  BY <1>2 DEF Publish, Maintain
<1>5. CASE Publish \/ Maintain(FALSE, TRUE)
  <2>1. UNCHANGED <<floor, versions, outcomes, starts>>
    BY <1>5 DEF Publish, Maintain
  <2>2. TypeOK'
    BY <1>1, <1>2, <1>4, <2>1 DEF TypeOK
  <2>3. Kept(versions, outcomes, floor, frontier)'
    BY <1>1, <1>2, <1>3, <2>1 DEF Kept
  <2>4. Registered(cursors, nextId, floor, frontier, starts, Durable)'
    BY <1>1, <1>2, <1>3, <2>1 DEF StoreInv, Registered, LogFrom
  <2>5. StoreInv'
    BY <1>1, <1>2, <1>3, <2>1, <2>3, <2>4 DEF StoreInv
  <2>6. \A c \in Consumers : consumer[c].claim.open => floor' <= consumer[c].claim.sequence
    BY <2>1, StoreFacts DEF ConsumerInv, Sound, Scanning
  <2> QED
    BY <1>1, <1>3, <2>2, <2>5, <2>6, StoreStep
<1>6. CASE Maintain(TRUE, FALSE)
  <2>1. PICK low : low = RetentionFloors(frontier).history
    OBVIOUS
  <2>2. PICK vs : vs = {s \in versions : KeepVersion(s, low)}
    OBVIOUS
  <2>3. PICK os : os = {s \in outcomes : s > low}
    OBVIOUS
  <2>4. PICK firsts : firsts = {s \in starts : SegmentEnd(s) >= RetentionFloors(frontier).log}
    OBVIOUS
  <2>5. floor' = low /\ versions' = vs /\ outcomes' = os /\ starts' = firsts
    BY <1>6, <2>1, <2>2, <2>3, <2>4 DEF Maintain, Collect
  <2>6. /\ low \in Nat /\ floor <= low /\ low <= frontier
        /\ \A id \in DOMAIN cursors : low <= cursors[id].baseline
        /\ \A c \in Consumers : consumer[c].claim.open => low <= consumer[c].claim.sequence
    BY <2>1, FloorsRise
  <2>7. TypeOK'
    <3>1. vs \in SUBSET Nat /\ os \in SUBSET Nat /\ firsts \in SUBSET Nat
      BY <1>2, <2>2, <2>3, <2>4
    <3> QED
      BY <1>1, <1>2, <1>4, <2>5, <2>6, <3>1 DEF TypeOK
  <2>8. Kept(vs, os, low, frontier)
    BY <1>2, <2>2, <2>3, <2>6, CollectKeeps
  <2>9. Kept(versions, outcomes, floor, frontier)'
    BY <1>1, <1>3, <2>5, <2>8 DEF Kept
  <2>10. \A id \in DOMAIN cursors : cursors[id].kind # Resolved =>
           LogFrom(firsts, Durable, cursors[id].baseline)
    BY <1>1, <2>4, RetireKeeps
  <2>11. Registered(cursors, nextId, floor, frontier, starts, Durable)'
    BY <1>1, <1>2, <1>3, <2>5, <2>6, <2>10 DEF StoreInv, Registered
  <2>12. \A s \in starts' : 1 <= s /\ s <= Durable'
    BY <1>2, <1>3, <2>4, <2>5 DEF StoreInv
  <2>13. StoreInv'
    BY <1>1, <1>2, <1>3, <2>5, <2>6, <2>9, <2>11, <2>12 DEF StoreInv
  <2> QED
    BY <1>1, <1>3, <2>5, <2>6, <2>7, <2>13, StoreStep
<1> QED
  BY <1>5, <1>6

-----------------------------------------------------------------------------
(* Restarts, backups and restored images.                                  *)

(* The fresh state is right in every state of the database.                *)
LEMMA FreshIsSound == Sound(Fresh) /\ Sound(Fresh)'
<1>1. <<>> \in Seq(Keys) /\ NoRows \in [Keys -> Nat]
  BY DEF NoRows
<1>2. Fresh \in Memory
  BY <1>1 DEF Fresh, Memory, Tokens, Claims, Batches, NoToken, NoClaim, NoBatch
<1>3. ~Fresh.claim.open /\ ~Fresh.saved /\ Fresh.mark = 0 /\ Fresh.batch = NoBatch
  BY DEF Fresh, NoClaim
<1> QED
  BY <1>2, <1>3 DEF Sound

(* What a crash leaves of a saved consumer.                                *)
LEMMA CrashLeaves ==
  ASSUME NEW m \in Memory, m.saved, NEW n, n = AfterCrash(m)
  PROVE  /\ n \in Memory /\ n.saved /\ n.token = m.token /\ n.mark = m.mark
         /\ n.rows = m.rows /\ n.claim = NoClaim /\ n.batch = NoBatch
<1>1. n = [m EXCEPT !.claim = NoClaim, !.at = 0, !.batch = NoBatch]
  BY DEF AfterCrash
<1>2. NoClaim \in Claims /\ NoBatch \in Batches
  BY DEF NoClaim, Claims, NoBatch, Batches
<1>3. n \in Memory
  <2>1. PICK e : e = [m EXCEPT !.claim = NoClaim, !.batch = NoBatch]
    OBVIOUS
  <2>2. e \in Memory
    BY <1>2, <2>1 DEF Memory
  <2>3. n = [e EXCEPT !.at = 0]
    BY <1>1, <2>1 DEF Memory
  <2> QED
    BY <2>2, <2>3 DEF Memory
<1>4. /\ n.saved = m.saved /\ n.token = m.token /\ n.mark = m.mark /\ n.rows = m.rows
      /\ n.claim = NoClaim /\ n.batch = NoBatch
  BY <1>1 DEF Memory
<1> QED
  BY <1>3, <1>4

(* A consumer that restarts, or sees the database close, is still right.   *)
LEMMA RestartIsSound ==
  ASSUME NEW c, NEW m, ConsumerInv(c, m), namespace \in Nat, namespace > 0,
         NEW n, n = AfterCrash(m) \/ n = AfterClose(m)
  PROVE  Sound(n) /\ Owns(c, n) /\ ~n.claim.open
<1>1. m \in Memory /\ Sound(m) /\ Owns(c, m)
  BY DEF ConsumerInv, Sound
<1>2. CASE n = AfterCrash(m) /\ m.saved
  <2>1. /\ n \in Memory /\ n.saved /\ n.token = m.token /\ n.mark = m.mark
        /\ n.rows = m.rows /\ n.claim = NoClaim /\ n.batch = NoBatch /\ ~n.claim.open
    BY <1>1, <1>2, CrashLeaves DEF NoClaim
  <2>2. Derived(n)
    BY <1>1, <1>2, <2>1 DEF Sound, Derived
  <2> QED
    BY <1>1, <1>2, <2>1, <2>2 DEF Sound, Owns
<1>3. CASE n = Fresh
  <2>1. ~n.claim.open /\ n.token = NoToken
    BY <1>3 DEF Fresh, NoClaim
  <2>2. Owns(c, n)
    BY <2>1 DEF Owns, NoToken
  <2> QED
    BY <1>3, <2>1, <2>2, FreshIsSound
<1>4. CASE n = AfterClose(m) /\ m.claim.held
  <2>1. n = [m EXCEPT !.claim = Revoked(m.claim)]
    BY <1>4 DEF AfterClose
  <2>2. /\ n \in Memory /\ ~n.claim.open /\ n.claim.held
        /\ n.claim.sequence = m.claim.sequence
        /\ n.saved = m.saved /\ n.mark = m.mark /\ n.batch = m.batch /\ n.token = m.token
    <3>1. m \in Memory /\ m.claim \in Claims /\ m.claim.held
      BY <1>1, <1>4 DEF Memory
    <3>2. PICK v : v = Revoked(m.claim)
      OBVIOUS
    <3>3. v \in Claims /\ ~v.open /\ v.held /\ v.sequence = m.claim.sequence
      BY <3>1, <3>2 DEF Claims, Revoked
    <3>4. n = [m EXCEPT !.claim = v]
      BY <2>1, <3>2
    <3>5. n.claim = v /\ n.saved = m.saved /\ n.mark = m.mark /\ n.batch = m.batch
          /\ n.token = m.token
      BY <3>1, <3>4 DEF Memory
    <3>6. n \in Memory
      BY <3>1, <3>3, <3>4 DEF Memory
    <3> QED
      BY <3>3, <3>5, <3>6
  <2>3. ~m.saved
    BY <1>1, <1>4 DEF Sound, Derived, NoClaim
  <2> QED
    BY <1>1, <2>2, <2>3 DEF Sound, Owns
<1>5. CASE n = m /\ ~m.claim.held
  <2>1. ~m.claim.open
    BY <1>1, <1>5 DEF Sound, Scanning
  <2> QED
    BY <1>1, <1>5, <2>1
<1> QED
  BY <1>2, <1>3, <1>4, <1>5 DEF AfterCrash, AfterClose

(* Replaying the records after the checkpoint gives every record from the  *)
(* floor to the durable end.                                               *)
LEMMA ReplayKeeps ==
  ASSUME NEW vs \in SUBSET Nat, NEW os \in SUBSET Nat, NEW low \in Nat,
         NEW from \in Nat, NEW end \in Nat, NEW visible \in Nat,
         Durable \in Nat, Durable = end, low <= from, from <= visible, visible <= end,
         Kept(vs, os, low, visible)
  PROVE  Kept(vs \cup (from + 1 .. end), os \cup (from + 1 .. end), low, end)
<1>1. PICK v, o : v = vs \cup (from + 1 .. end) /\ o = os \cup (from + 1 .. end)
  OBVIOUS
<1>2. \A s \in v : 1 <= s /\ s <= Durable
  BY <1>1 DEF Kept
<1>3. \A s \in o : low < s /\ s <= Durable /\ s \in v
  BY <1>1 DEF Kept
<1>4. \A s \in 1 .. end : low < s => s \in o
  <2> TAKE s \in 1 .. end
  <2> HAVE low < s
  <2>1. CASE s <= visible
    BY <1>1, <2>1 DEF Kept
  <2>2. CASE s > visible
    BY <1>1, <2>2
  <2> QED
    BY <2>1, <2>2
<1>5. \A s \in 1 .. end : s \in v \/ \E t \in v : s < t /\ t <= low /\ log[t] = log[s]
  <2> TAKE s \in 1 .. end
  <2>1. CASE s <= visible
    <3>1. s \in 1 .. visible
      BY <2>1
    <3> QED
      BY <1>1, <3>1 DEF Kept
  <2>2. CASE s > visible
    BY <1>1, <2>2
  <2> QED
    BY <2>1, <2>2
<1> QED
  BY <1>1, <1>2, <1>3, <1>4, <1>5 DEF Kept

(* The database ends and is opened again.                                  *)
LEMMA ReopenStep ==
  ASSUME RetentionInv, NEW crash \in BOOLEAN, Reopen(crash)
  PROVE  RetentionInv'
<1>1. /\ consumer' = [c \in Consumers |->
                        IF crash THEN AfterCrash(consumer[c]) ELSE AfterClose(consumer[c])]
      /\ versions' = versions \cup (checkpoint + 1 .. Durable)
      /\ outcomes' = outcomes \cup (checkpoint + 1 .. Durable)
      /\ rotate' = TRUE
      /\ UNCHANGED <<log, starts, floor, cursors, nextId, namespace, image>>
      /\ frontier' = Durable' /\ checkpoint' = Durable'
  BY DEF Reopen, Recovered, Durable
<1>2. /\ TypeOK /\ StoreInv /\ Durable \in Nat /\ frontier \in Nat /\ frontier <= Durable
      /\ floor \in Nat /\ floor <= checkpoint /\ checkpoint <= frontier /\ checkpoint \in Nat
      /\ versions \in SUBSET Nat /\ outcomes \in SUBSET Nat
      /\ Kept(versions, outcomes, floor, frontier)
  BY StoreFacts DEF RetentionInv, TypeOK, StoreInv
<1>3. LogGrows /\ Durable' = Durable
  BY <1>1, <1>2, SameLogGrows
<1>4. PICK vs, os : vs = versions \cup (checkpoint + 1 .. Durable)
                    /\ os = outcomes \cup (checkpoint + 1 .. Durable)
  OBVIOUS
<1>5. Kept(vs, os, floor, Durable)
  BY <1>2, <1>4, ReplayKeeps
<1>6. vs \in SUBSET Nat /\ os \in SUBSET Nat
  BY <1>2, <1>4
<1>7. TypeOK'
  BY <1>1, <1>2, <1>3, <1>4, <1>6 DEF TypeOK
<1>8. Kept(versions, outcomes, floor, frontier)'
  BY <1>1, <1>3, <1>4, <1>5 DEF Kept
<1>9. Registered(cursors, nextId, floor, frontier, starts, Durable)'
  BY <1>1, <1>2, <1>3 DEF StoreInv, Registered, LogFrom
<1>10. StoreInv'
  BY <1>1, <1>2, <1>3, <1>8, <1>9 DEF StoreInv
<1>11. ImageInv'
  BY <1>1, <1>3, ImageKept DEF RetentionInv
<1>12. \A c \in Consumers : \A m \in {consumer'[c]} :
         Sound(m) /\ Owns(c, m)' /\ (m.claim.open => floor' <= m.claim.sequence)
  <2> TAKE c \in Consumers
  <2> TAKE m \in {consumer'[c]}
  <2>1. m = AfterCrash(consumer[c]) \/ m = AfterClose(consumer[c])
    BY <1>1
  <2>2. Sound(m) /\ Owns(c, m) /\ ~m.claim.open
    BY <2>1, StoreFacts, RestartIsSound
  <2>3. Owns(c, m)'
    BY <1>1, <2>2 DEF Owns
  <2> QED
    BY <2>2, <2>3
<1>13. DOMAIN consumer' = Consumers
  BY <1>1
<1>14. frontier <= frontier'
  BY <1>1, <1>2, <1>3
<1> QED
  BY <1>3, <1>7, <1>10, <1>11, <1>12, <1>13, <1>14, WholeStep

(* An image of the durable prefix and the selected checkpoint can be       *)
(* restored.                                                               *)
LEMMA BackupStep ==
  ASSUME RetentionInv, Backup
  PROVE  RetentionInv'
<1>1. /\ UNCHANGED <<log, starts, rotate, versions, outcomes, frontier, checkpoint, floor>>
      /\ UNCHANGED <<cursors, nextId, namespace, consumer>>
  BY DEF Backup, disk
<1>2. /\ TypeOK /\ StoreInv /\ Durable \in Nat /\ frontier \in Nat /\ frontier <= Durable
      /\ floor \in Nat /\ floor <= checkpoint /\ checkpoint <= frontier /\ checkpoint \in Nat
      /\ versions \in SUBSET Nat /\ outcomes \in SUBSET Nat /\ starts \in SUBSET Nat
      /\ nextId \in Nat /\ nextId > 0
      /\ Kept(versions, outcomes, floor, frontier)
  BY StoreFacts DEF RetentionInv, TypeOK, StoreInv
<1>3. LogGrows /\ Durable' = Durable
  BY <1>1, <1>2, SameLogGrows
<1>4. PICK vs, os : /\ vs = {s \in versions : s <= checkpoint}
                    /\ os = {s \in outcomes : s <= checkpoint}
  OBVIOUS
<1>5. Kept(vs, os, floor, checkpoint)
  <2>1. \A s \in vs : 1 <= s /\ s <= Durable
    BY <1>2, <1>4 DEF Kept
  <2>2. \A s \in os : floor < s /\ s <= Durable /\ s \in vs
    BY <1>2, <1>4 DEF Kept
  <2>3. \A s \in 1 .. checkpoint : floor < s => s \in os
    BY <1>2, <1>4 DEF Kept
  <2>4. ASSUME NEW s \in 1 .. checkpoint, s \notin vs
        PROVE  \E t \in vs : s < t /\ t <= floor /\ log[t] = log[s]
    <3>1. s \in 1 .. frontier /\ s \notin versions
      BY <1>2, <1>4, <2>4
    <3>2. PICK t \in versions : s < t /\ t <= floor /\ log[t] = log[s]
      BY <1>2, <3>1 DEF Kept
    <3>3. t \in vs
      BY <1>2, <1>4, <3>2
    <3> QED
      BY <3>2, <3>3
  <2> QED
    BY <2>1, <2>2, <2>3, <2>4 DEF Kept
<1>6. PICK i : i = image'
  OBVIOUS
<1>7. /\ i.durable = Durable /\ i.starts = starts /\ i.checkpoint = checkpoint
      /\ i.floor = floor /\ i.versions = vs /\ i.outcomes = os
      /\ i.cursors = cursors /\ i.nextId = nextId
  BY <1>4, <1>6 DEF Backup
<1>8. Registered(i.cursors, i.nextId, i.floor, i.durable, i.starts, i.durable)
  BY <1>2, <1>7 DEF StoreInv, Registered
<1>9. Kept(i.versions, i.outcomes, i.floor, i.checkpoint)'
  BY <1>1, <1>3, <1>5, <1>7 DEF Kept
<1>10. ImageInv'
  <2>1. /\ i.durable \in Nat /\ i.checkpoint \in Nat /\ i.floor \in Nat /\ i.nextId \in Nat /\ i.nextId > 0
        /\ i.floor <= i.checkpoint /\ i.checkpoint <= i.durable /\ i.durable <= Durable'
    BY <1>2, <1>3, <1>7
  <2>2. /\ i.starts \in SUBSET Nat /\ \A s \in i.starts : 1 <= s /\ s <= i.durable
        /\ i.versions \in SUBSET Nat /\ i.outcomes \in SUBSET Nat
        /\ \A s \in i.versions : s <= i.checkpoint
    BY <1>2, <1>4, <1>7 DEF StoreInv
  <2> QED
    BY <1>6, <1>8, <1>9, <2>1, <2>2 DEF ImageInv, Registered, LogFrom
<1>11. TypeOK'
  BY <1>1, <1>2 DEF TypeOK
<1>12. StoreInv'
  BY <1>1, <1>2, <1>3 DEF StoreInv, Kept, Registered, LogFrom
<1>13. \A c \in Consumers : \A m \in {consumer'[c]} :
         Sound(m) /\ Owns(c, m)' /\ (m.claim.open => floor' <= m.claim.sequence)
  <2> TAKE c \in Consumers
  <2> TAKE m \in {consumer'[c]}
  <2>1. ConsumerInv(c, m)
    BY <1>1, StoreFacts
  <2>2. Owns(c, m)'
    BY <1>1, <2>1 DEF ConsumerInv, Owns
  <2>3. m.claim.open => floor' <= m.claim.sequence
    BY <1>1, <2>1 DEF ConsumerInv, Sound, Scanning
  <2> QED
    BY <2>1, <2>2, <2>3 DEF ConsumerInv
<1>14. DOMAIN consumer' = Consumers /\ frontier <= frontier'
  BY <1>1, <1>2 DEF RetentionInv
<1> QED
  BY <1>3, <1>10, <1>11, <1>12, <1>13, <1>14, WholeStep

(* A restored image keeps what it claims, and a consumer that goes on from *)
(* it holds no more than it covers.                                        *)
LEMMA AttachStep ==
  ASSUME RetentionInv, Attach
  PROVE  RetentionInv'
<1>1. PICK i : i = image
  OBVIOUS
<1>2. /\ i # NoImage /\ namespace' = namespace + 1
      /\ log' = SubSeq(log, 1, i.durable)
      /\ starts' = i.starts /\ rotate' = TRUE /\ floor' = i.floor
      /\ versions' = i.versions \cup (i.checkpoint + 1 .. i.durable)
      /\ outcomes' = i.outcomes \cup (i.checkpoint + 1 .. i.durable)
      /\ frontier' = Durable' /\ checkpoint' = Durable'
      /\ cursors' = i.cursors /\ nextId' = i.nextId
      /\ consumer' = [c \in Consumers |->
           IF consumer[c].mark > i.durable THEN Fresh ELSE AfterCrash(consumer[c])]
      /\ image' = NoImage
  BY <1>1 DEF Attach, Recovered, Durable
<1>3. /\ i.durable \in Nat /\ i.checkpoint \in Nat /\ i.floor \in Nat
      /\ i.floor <= i.checkpoint /\ i.checkpoint <= i.durable
      /\ i.durable <= Durable /\ i.nextId \in Nat /\ i.nextId > 0
      /\ i.starts \in SUBSET Nat /\ \A s \in i.starts : 1 <= s /\ s <= i.durable
      /\ i.versions \in SUBSET Nat /\ i.outcomes \in SUBSET Nat
      /\ \A s \in i.versions : s <= i.checkpoint
      /\ Kept(i.versions, i.outcomes, i.floor, i.checkpoint)
      /\ Registered(i.cursors, i.nextId, i.floor, i.durable, i.starts, i.durable)
  BY <1>1, <1>2 DEF RetentionInv, ImageInv
<1>4. /\ log' \in Seq(Keys) /\ Durable' = i.durable
      /\ \A s \in 1 .. i.durable : log'[s] = log[s]
  <2>1. log \in Seq(Keys) /\ Durable = Len(log) /\ Durable \in Nat
    BY StoreFacts DEF TypeOK, Durable
  <2>2. \A s \in 1 .. i.durable : log[s] \in Keys
    BY <1>3, <2>1, ElementOfSeq
  <2>3. /\ log' \in Seq(Keys)
        /\ Len(log') = IF 1 <= i.durable THEN i.durable - 1 + 1 ELSE 0
        /\ \A s \in 1 .. i.durable - 1 + 1 : log'[s] = log[1 + s - 1]
    <3>1. 1 \in Int /\ i.durable \in Int
      BY <1>3
    <3> QED
      BY <1>2, <2>2, <3>1, SubSeqProperties
  <2>4. Len(log') = i.durable /\ i.durable - 1 + 1 = i.durable
    BY <1>3, <2>3
  <2>5. \A s \in 1 .. i.durable : 1 + s - 1 = s
    BY <1>3
  <2> QED
    BY <2>3, <2>4, <2>5 DEF Durable
<1>5. PICK vs, os : /\ vs = i.versions \cup (i.checkpoint + 1 .. i.durable)
                    /\ os = i.outcomes \cup (i.checkpoint + 1 .. i.durable)
  OBVIOUS
<1>6. Kept(vs, os, i.floor, i.durable)'
  <2>1. \A s \in vs : 1 <= s /\ s <= i.durable
    BY <1>3, <1>5 DEF Kept
  <2>2. \A s \in os : i.floor < s /\ s <= i.durable /\ s \in vs
    BY <1>3, <1>5 DEF Kept
  <2>3. \A s \in 1 .. i.durable : i.floor < s => s \in os
    <3> TAKE s \in 1 .. i.durable
    <3>1. CASE s <= i.checkpoint
      BY <1>3, <1>5, <3>1 DEF Kept
    <3>2. CASE s > i.checkpoint
      BY <1>3, <1>5, <3>2
    <3> QED
      BY <1>3, <3>1, <3>2
  <2>4. ASSUME NEW s \in 1 .. i.durable, s \notin vs
        PROVE  \E t \in vs : s < t /\ t <= i.floor /\ log'[t] = log'[s]
    <3>1. s \in 1 .. i.checkpoint /\ s \notin i.versions
      BY <1>3, <1>5, <2>4
    <3>2. PICK t \in i.versions : s < t /\ t <= i.floor /\ log[t] = log[s]
      BY <1>3, <3>1 DEF Kept
    <3>3. t \in vs /\ t \in 1 .. i.durable
      BY <1>3, <1>5, <2>1, <3>2
    <3> QED
      BY <1>4, <3>2, <3>3
  <2> QED
    BY <1>4, <2>1, <2>2, <2>3, <2>4 DEF Kept
<1>7. TypeOK'
  <2>1. vs \in SUBSET Nat /\ os \in SUBSET Nat
    BY <1>3, <1>5
  <2>2. namespace' \in Nat /\ namespace' > 0
    BY <1>2, StoreFacts
  <2> QED
    BY <1>2, <1>3, <1>4, <1>5, <2>1, <2>2 DEF TypeOK
<1>8. StoreInv'
  <2>1. Registered(cursors, nextId, floor, frontier, starts, Durable)'
    BY <1>2, <1>3, <1>4 DEF Registered
  <2>2. Kept(versions, outcomes, floor, frontier)'
    BY <1>2, <1>4, <1>5, <1>6
  <2>3. floor' <= checkpoint' /\ checkpoint' <= frontier' /\ frontier' <= Durable'
    BY <1>2, <1>3, <1>4
  <2>4. \A s \in starts' : 1 <= s /\ s <= Durable'
    BY <1>2, <1>3, <1>4
  <2> QED
    BY <2>1, <2>2, <2>3, <2>4 DEF StoreInv
<1>9. ImageInv'
  BY <1>2 DEF ImageInv
<1>10. \A c \in Consumers : \A n \in {consumer'[c]} : ConsumerInv(c, n)'
  <2> TAKE c \in Consumers
  <2> TAKE n \in {consumer'[c]}
  <2>1. PICK m : m = consumer[c]
    OBVIOUS
  <2>2. m \in Memory /\ ConsumerInv(c, m) /\ m.mark \in Nat
    BY <2>1, StoreFacts DEF Memory
  <2>3. CASE n = Fresh
    <3>1. n.token = NoToken
      BY <2>3 DEF Fresh
    <3>2. Owns(c, n)'
      BY <1>7, <3>1 DEF Owns, NoToken, TypeOK
    <3> QED
      BY <2>3, <3>2, FreshIsSound DEF ConsumerInv
  <2>4. CASE n = AfterCrash(m) /\ m.saved /\ ~(m.mark > i.durable)
    <3>1. /\ n \in Memory /\ n.saved /\ n.token = m.token /\ n.mark = m.mark
          /\ n.rows = m.rows /\ n.claim = NoClaim /\ n.batch = NoBatch /\ ~n.claim.open
      BY <2>2, <2>4, CrashLeaves DEF NoClaim
    <3>2. PICK q : q = m.mark
      OBVIOUS
    <3>3. q \in Nat /\ q <= i.durable /\ \A s \in 1 .. q : log'[s] = log[s]
      BY <1>3, <1>4, <2>2, <2>4, <3>2
    <3>4. \A k \in Keys : n.rows[k] = Newest(k, q)'
      <4> TAKE k \in Keys
      <4>1. Newest(k, q)' = Newest(k, q)
        BY <3>3, NewestKept
      <4>2. m.rows[k] = Newest(k, q)
        BY <2>2, <2>4, <3>2 DEF ConsumerInv, Sound, Derived
      <4> QED
        BY <3>1, <4>1, <4>2
    <3>5. Derived(n)'
      BY <1>4, <3>1, <3>2, <3>3, <3>4 DEF Derived
    <3>6. Owns(c, n)'
      <4>1. m.token.namespace <= namespace /\ m.token.namespace \in Nat
        BY <2>2 DEF ConsumerInv, Owns, Memory, Tokens
      <4>2. n.token.namespace < namespace' /\ n.token.namespace <= namespace'
        BY <1>2, <3>1, <4>1, StoreFacts
      <4> QED
        BY <4>1, <4>2, <1>2, StoreFacts, <3>1 DEF Owns
    <3> QED
      BY <3>1, <3>5, <3>6 DEF ConsumerInv, Sound
  <2> QED
    BY <1>2, <2>1, <2>3, <2>4 DEF AfterCrash
<1>11. DOMAIN consumer' = Consumers
  BY <1>2
<1> QED
  BY <1>7, <1>8, <1>9, <1>10, <1>11 DEF RetentionInv

-----------------------------------------------------------------------------
(* Registrations.                                                          *)

(* A step that changes the cursor tree and what consumers hold.            *)
LEMMA CursorStep ==
  ASSUME RetentionInv, UNCHANGED <<disk, namespace, image>>,
         nextId' \in Nat, nextId <= nextId',
         Registered(cursors', nextId', floor, frontier, starts, Durable),
         DOMAIN consumer' = Consumers,
         \A c \in Consumers : \A m \in {consumer'[c]} : Sound(m) /\ Owns(c, m)'
  PROVE  RetentionInv'
<1>1. /\ UNCHANGED <<log, starts, rotate, versions, outcomes, frontier, checkpoint, floor>>
      /\ UNCHANGED <<namespace, image>>
  BY DEF disk
<1>2. /\ TypeOK /\ StoreInv /\ ImageInv /\ frontier \in Nat
  BY StoreFacts DEF RetentionInv
<1>3. LogGrows /\ Durable' = Durable
  BY <1>1, <1>2, SameLogGrows
<1>4. TypeOK'
  <2>1. nextId' > 0
    BY <1>2 DEF TypeOK
  <2> QED
    BY <1>1, <1>2, <2>1 DEF TypeOK
<1>5. StoreInv'
  <2>1. Registered(cursors, nextId, floor, frontier, starts, Durable)'
    BY <1>1, <1>3 DEF Registered, LogFrom
  <2> QED
    BY <1>1, <1>2, <1>3, <2>1 DEF StoreInv, Kept
<1>6. ImageInv'
  BY <1>1, <1>2, <1>3, ImageKept
<1>7. \A c \in Consumers : \A m \in {consumer'[c]} :
        Sound(m) /\ Owns(c, m)' /\ (m.claim.open => floor' <= m.claim.sequence)
  BY <1>1 DEF Sound, Scanning
<1>8. frontier <= frontier'
  BY <1>1, <1>2
<1> QED
  BY <1>3, <1>4, <1>5, <1>6, <1>7, <1>8, WholeStep

(* A new registration claims what is there, under a number never used in   *)
(* this directory.                                                         *)
LEMMA RegisterKeeps ==
  ASSUME RetentionInv, NEW c \in Consumers, NEW kind \in Kinds, NEW b \in Nat,
         Register(c, kind, b)
  PROVE  /\ UNCHANGED <<disk, namespace, image>> /\ nextId' = nextId + 1
         /\ b <= frontier /\ nextId \in DOMAIN cursors'
         /\ cursors'[nextId].label = c /\ cursors'[nextId].baseline = b
         /\ Registered(cursors', nextId', floor, frontier, starts, Durable)
         /\ \A d, m : ConsumerInv(d, m) => Owns(d, m)'
<1>1. /\ cursors' = [id \in DOMAIN cursors \cup {nextId} |->
                       IF id = nextId THEN CursorInfo(kind, b, c) ELSE cursors[id]]
      /\ nextId' = nextId + 1
      /\ UNCHANGED <<disk, namespace, image>>
      /\ floor <= b /\ b <= frontier
      /\ kind # Resolved => LogFloor <= b + 1
  BY DEF Register, PublishCursors, Available, LogAvailable
<1>2. /\ TypeOK /\ StoreInv /\ nextId \in Nat
      /\ Registered(cursors, nextId, floor, frontier, starts, Durable)
      /\ \A s \in starts : 1 <= s /\ s <= Durable
  BY StoreFacts DEF RetentionInv, StoreInv
<1>3. \A id \in DOMAIN cursors : id \in Nat /\ id < nextId /\ id # nextId
  BY <1>2 DEF Registered
<1>4. /\ DOMAIN cursors' = DOMAIN cursors \cup {nextId}
      /\ cursors'[nextId] = CursorInfo(kind, b, c)
      /\ \A id \in DOMAIN cursors : cursors'[id] = cursors[id]
  BY <1>1, <1>3
<1>5. PICK r : r = CursorInfo(kind, b, c)
  OBVIOUS
<1>6. r \in Registrations /\ r.kind = kind /\ r.baseline = b /\ r.label = c
  BY <1>5 DEF CursorInfo, Registrations
<1>7. kind # Resolved => LogFrom(starts, Durable, b)
  BY <1>1, <1>2, LogFloorIs
<1>8. 0 < nextId
  BY StoreFacts
<1>9. Registered(cursors', nextId', floor, frontier, starts, Durable)
  <2> SUFFICES ASSUME NEW id \in DOMAIN cursors'
               PROVE  /\ id \in Nat /\ 0 < id /\ id < nextId' /\ cursors'[id] \in Registrations
                      /\ cursors'[id].baseline \in Nat
                      /\ floor <= cursors'[id].baseline /\ cursors'[id].baseline <= frontier
                      /\ cursors'[id].kind # Resolved =>
                           LogFrom(starts, Durable, cursors'[id].baseline)
    BY DEF Registered
  <2>1. CASE id = nextId
    BY <1>1, <1>2, <1>4, <1>5, <1>6, <1>7, <1>8, <2>1
  <2>2. CASE id \in DOMAIN cursors
    BY <1>1, <1>2, <1>3, <1>4, <2>2 DEF Registered
  <2> QED
    BY <1>4, <2>1, <2>2
<1>10. \A d, m : ConsumerInv(d, m) => Owns(d, m)'
  <2> TAKE d, m
  <2> HAVE ConsumerInv(d, m)
  <2>1. Owns(d, m) /\ m.token.id \in Nat
    BY DEF ConsumerInv, Sound, Memory, Tokens
  <2>2. m.token.id < nextId /\ m.token.id \in DOMAIN cursors' =>
          m.token.id \in DOMAIN cursors /\ cursors'[m.token.id] = cursors[m.token.id]
    BY <1>2, <1>4, <2>1
  <2>3. nextId' \in Nat /\ nextId <= nextId' /\ namespace' = namespace
    BY <1>1, <1>2
  <2> QED
    BY <1>2, <2>1, <2>2, <2>3, OwnsKept
<1> QED
  BY <1>1, <1>4, <1>5, <1>6, <1>9, <1>10

(* A consumer that got the number of a new registration owns it.           *)
LEMMA NewOwner ==
  ASSUME RetentionInv, NEW c \in Consumers, NEW kind \in Kinds, NEW b \in Nat,
         Register(c, kind, b), NEW m, m.token = Token(nextId, kind),
         b <= IF m.saved THEN m.mark ELSE m.claim.sequence
  PROVE  Owns(c, m)'
<1>1. /\ namespace' = namespace /\ nextId' = nextId + 1
      /\ cursors'[nextId].label = c /\ cursors'[nextId].baseline = b
  BY RegisterKeeps
<1>2. m.token.namespace = namespace /\ m.token.id = nextId
  BY DEF Token
<1>3. namespace \in Nat /\ nextId \in Nat
  BY StoreFacts
<1> QED
  BY <1>1, <1>2, <1>3 DEF Owns

(* A registration is added, and its owner starts from its snapshot, from   *)
(* the beginning, or never learns of it.                                   *)
LEMMA RegisterStep ==
  ASSUME RetentionInv, NEW c \in Consumers, NEW kind \in Kinds,
         SnapshotTail(c, kind) \/ Checkout(c, kind) \/ LostRegistration(c, kind)
  PROVE  RetentionInv'
<1>1. PICK m : m = consumer[c]
  OBVIOUS
<1>2. m \in Memory /\ Sound(m) /\ m.claim.sequence \in Nat
  BY <1>1, StoreFacts DEF ConsumerInv, Memory, Claims
<1>3. PICK t : t = Token(nextId, kind)
  OBVIOUS
<1>4. t \in Tokens
  BY <1>3, StoreFacts DEF Token, Tokens
<1>5. ASSUME NEW b \in Nat, Register(c, kind, b), DOMAIN consumer' = Consumers,
             \A d \in Consumers : d # c => consumer'[d] = consumer[d],
             \A n \in {consumer'[c]} : Sound(n) /\ Owns(c, n)'
      PROVE  RetentionInv'
  <2>1. /\ UNCHANGED <<disk, namespace, image>> /\ nextId' = nextId + 1
        /\ Registered(cursors', nextId', floor, frontier, starts, Durable)
        /\ \A d, n : ConsumerInv(d, n) => Owns(d, n)'
    BY <1>5, RegisterKeeps
  <2>2. nextId' \in Nat /\ nextId <= nextId'
    BY <2>1, StoreFacts
  <2>3. \A d \in Consumers : \A n \in {consumer'[d]} : Sound(n) /\ Owns(d, n)'
    <3> TAKE d \in Consumers
    <3> TAKE n \in {consumer'[d]}
    <3>1. CASE d = c
      BY <1>5, <3>1
    <3>2. CASE d # c
      <4>1. n = consumer[d] /\ ConsumerInv(d, n)
        BY <1>5, <3>2, StoreFacts
      <4>2. Owns(d, n)'
        BY <2>1, <4>1
      <4> QED
        BY <4>1, <4>2 DEF ConsumerInv
    <3> QED
      BY <3>1, <3>2
  <2> QED
    BY <1>5, <2>1, <2>2, <2>3, CursorStep
<1>6. CASE SnapshotTail(c, kind)
  <2>1. PICK n : n = Captured(Capture, t)
    OBVIOUS
  <2>2. Register(c, kind, frontier)
    BY <1>6 DEF SnapshotTail
  <2>3. consumer' = [consumer EXCEPT ![c] = n]
    BY Zenon, <1>3, <1>6, <2>1, CapturedIs DEF SnapshotTail
  <2>4. Sound(n)
    BY <1>4, <2>1, CaptureIsRight
  <2>5. n.token = Token(nextId, kind) /\ n.saved = FALSE /\ n.claim.sequence = frontier
    BY <1>3, <2>1 DEF Captured, Capture, Claim
  <2>6. frontier \in Nat /\ frontier <= IF n.saved THEN n.mark ELSE n.claim.sequence
    BY <2>5, StoreFacts
  <2>7. Owns(c, n)'
    BY <2>2, <2>5, <2>6, NewOwner
  <2>8. /\ DOMAIN consumer' = Consumers /\ consumer'[c] = n
        /\ \A d \in Consumers : d # c => consumer'[d] = consumer[d]
    BY <2>3 DEF RetentionInv
  <2> QED
    BY <1>5, <2>2, <2>4, <2>6, <2>7, <2>8
<1>7. CASE Checkout(c, kind)
  <2>1. PICK b : b = IF m.claim.held THEN m.claim.sequence ELSE 0
    OBVIOUS
  <2>2. PICK n : n = [m EXCEPT !.token = t, !.saved = ~m.claim.held]
    OBVIOUS
  <2>3. /\ ~m.saved /\ Register(c, kind, b) /\ b \in Nat
        /\ consumer' = [consumer EXCEPT ![c] = n]
    BY <1>1, <1>2, <1>3, <1>7, <2>1, <2>2 DEF Checkout
  <2>4. /\ n.token = Token(nextId, kind) /\ n.saved = ~m.claim.held /\ n.mark = m.mark
        /\ n.rows = m.rows /\ n.claim = m.claim /\ n.at = m.at /\ n.batch = m.batch
    BY <1>2, <1>3, <2>2 DEF Memory
  <2>5. n \in Memory
    BY <1>2, <1>4, <2>2 DEF Memory
  <2>6. m.mark = 0 /\ m.batch = NoBatch
    BY <1>2, <2>3 DEF Sound
  <2>7. CASE m.claim.held
    <3>1. n.claim.open => Scanning(n)
      BY <1>2, <2>4 DEF Sound, Scanning
    <3>2. Sound(n)
      BY <2>4, <2>5, <2>6, <2>7, <3>1 DEF Sound
    <3>3. b <= IF n.saved THEN n.mark ELSE n.claim.sequence
      <4>1. ~n.saved
        BY Zenon, <2>4, <2>7
      <4>2. b = n.claim.sequence /\ b <= n.claim.sequence
        BY <1>2, <2>1, <2>4, <2>7
      <4> QED
        BY <4>1, <4>2
    <3>4. Owns(c, n)'
      BY <2>3, <2>4, <3>3, NewOwner
    <3>5. /\ DOMAIN consumer' = Consumers /\ consumer'[c] = n
          /\ \A d \in Consumers : d # c => consumer'[d] = consumer[d]
      BY <2>3 DEF RetentionInv
    <3> QED
      BY <1>5, <2>3, <3>2, <3>4, <3>5
  <2>8. CASE ~m.claim.held
    <3>1. m = Fresh
      BY <1>2, <2>3, <2>8 DEF Sound
    <3>2. n.claim = NoClaim /\ n.rows = NoRows /\ n.saved /\ ~n.claim.open
      <4>1. n.saved
        BY Zenon, <2>4, <2>8
      <4> QED
        BY <2>4, <3>1, <4>1 DEF Fresh, NoClaim
    <3>3. \A k \in Keys : n.rows[k] = Newest(k, 0)
      <4> TAKE k \in Keys
      <4>1. Newest(k, 0) \in Nat /\ Newest(k, 0) <= 0
        <5>1. 1 .. 0 \in SUBSET Nat
          OBVIOUS
        <5> QED
          BY <5>1, ReadValueIs DEF Newest
      <4>2. n.rows[k] = 0
        BY <3>2 DEF NoRows
      <4> QED
        BY <4>1, <4>2
    <3>4. Derived(n)
      BY <2>4, <2>6, <3>2, <3>3, StoreFacts DEF Derived
    <3>5. Sound(n)
      BY <2>4, <2>5, <2>6, <3>2, <3>4 DEF Sound
    <3>6. b <= IF n.saved THEN n.mark ELSE n.claim.sequence
      BY <2>1, <2>4, <2>6, <2>8, <3>2
    <3>7. Owns(c, n)'
      BY <2>3, <2>4, <3>6, NewOwner
    <3>8. /\ DOMAIN consumer' = Consumers /\ consumer'[c] = n
          /\ \A d \in Consumers : d # c => consumer'[d] = consumer[d]
      BY <2>3 DEF RetentionInv
    <3> QED
      BY <1>5, <2>3, <3>5, <3>7, <3>8
  <2> QED
    BY <2>7, <2>8
<1>8. CASE LostRegistration(c, kind)
  <2> PICK b \in {frontier, m.claim.sequence} : Register(c, kind, b)
    BY <1>1, <1>8 DEF LostRegistration
  <2>1. Register(c, kind, b) /\ b \in Nat /\ consumer' = consumer
    BY <1>2, <1>8, StoreFacts DEF LostRegistration
  <2>2. \A d, n : ConsumerInv(d, n) => Owns(d, n)'
    BY <2>1, StoreFacts, RegisterKeeps
  <2>3. Owns(c, m)'
    BY <1>1, <2>2, StoreFacts
  <2>4. DOMAIN consumer' = Consumers
    BY <2>1 DEF RetentionInv
  <2> QED
    BY <1>1, <1>2, <1>5, <2>1, <2>3, <2>4, StoreFacts
<1> QED
  BY <1>6, <1>7, <1>8

(* An acknowledgement raises one claim, to a watermark its owner committed.*)
LEMMA AcknowledgeStep ==
  ASSUME RetentionInv, NEW c \in Consumers, NEW w \in 1 .. consumer[c].mark, Acknowledge(c, w)
  PROVE  RetentionInv'
<1>1. PICK a : a = consumer[c]
  OBVIOUS
<1>2. PICK id : id = a.token.id
  OBVIOUS
<1>3. /\ a.saved /\ a.token.namespace = namespace /\ id \in DOMAIN cursors
      /\ cursors[id].baseline < w /\ w <= frontier
      /\ cursors' = [cursors EXCEPT ![id].baseline = w]
      /\ nextId' = nextId /\ consumer' = consumer
      /\ UNCHANGED <<disk, namespace, image>>
  BY <1>1, <1>2 DEF Acknowledge, Lookup, PublishCursors
<1>4. /\ a \in Memory /\ ConsumerInv(c, a) /\ a.mark \in Nat /\ w \in Nat /\ w <= a.mark
  <2>1. a \in Memory /\ ConsumerInv(c, a) /\ a.mark \in Nat
    BY <1>1, StoreFacts DEF Memory
  <2> QED
    BY <1>1, <2>1
<1>5. /\ Registered(cursors, nextId, floor, frontier, starts, Durable)
      /\ Durable \in Nat /\ floor \in Nat /\ nextId \in Nat /\ frontier \in Nat
      /\ frontier <= Durable
      /\ starts \in SUBSET Nat
  BY StoreFacts DEF RetentionInv, StoreInv, TypeOK
<1>6. /\ DOMAIN cursors' = DOMAIN cursors
      /\ \A i \in DOMAIN cursors : i # id => cursors'[i] = cursors[i]
  BY <1>3
<1>7. PICK r, q : r = cursors[id] /\ q = cursors'[id]
  OBVIOUS
<1>8. r \in Registrations /\ r.baseline \in Nat /\ floor <= r.baseline
  BY <1>3, <1>5, <1>7 DEF Registered
<1>9. q = [r EXCEPT !.baseline = w]
  BY <1>3, <1>7
<1>10. q \in Registrations /\ q.kind = r.kind /\ q.label = r.label /\ q.baseline = w
  BY <1>4, <1>8, <1>9 DEF Registrations
<1>11. r.kind # Resolved => LogFrom(starts, Durable, w)
  <2> SUFFICES ASSUME r.kind # Resolved, w < Durable
               PROVE  \E s \in starts : s <= w + 1
    BY DEF LogFrom
  <2>1. LogFrom(starts, Durable, r.baseline) /\ r.baseline < Durable /\ r.baseline < w
    BY <1>3, <1>4, <1>5, <1>7, <1>8 DEF Registered
  <2>2. PICK s \in starts : s <= r.baseline + 1
    BY <2>1 DEF LogFrom
  <2>3. s \in Nat /\ s <= w + 1
    BY <1>4, <1>5, <1>8, <2>1, <2>2
  <2> QED
    BY <2>3
<1>12. Registered(cursors', nextId', floor, frontier, starts, Durable)
  <2> SUFFICES ASSUME NEW i \in DOMAIN cursors'
               PROVE  /\ i \in Nat /\ 0 < i /\ i < nextId' /\ cursors'[i] \in Registrations
                      /\ cursors'[i].baseline \in Nat
                      /\ floor <= cursors'[i].baseline /\ cursors'[i].baseline <= frontier
                      /\ cursors'[i].kind # Resolved =>
                           LogFrom(starts, Durable, cursors'[i].baseline)
    BY DEF Registered
  <2>1. i \in Nat /\ 0 < i /\ i < nextId'
    BY <1>3, <1>5, <1>6 DEF Registered
  <2>2. CASE i = id
    <3>1. floor <= w /\ w \in Nat /\ w <= frontier
      BY <1>3, <1>4, <1>5, <1>7, <1>8
    <3> QED
      BY <1>7, <1>10, <1>11, <2>1, <2>2, <3>1
  <2>3. CASE i # id
    <3>1. cursors'[i] = cursors[i] /\ i \in DOMAIN cursors
      BY <1>6, <2>3
    <3> QED
      BY <1>5, <2>1, <3>1 DEF Registered
  <2> QED
    BY <2>2, <2>3
<1>13. \A d \in Consumers : \A m \in {consumer'[d]} : Sound(m) /\ Owns(d, m)'
  <2> TAKE d \in Consumers
  <2> TAKE m \in {consumer'[d]}
  <2>1. m = consumer[d] /\ ConsumerInv(d, m) /\ m.token.id \in Nat /\ Owns(d, m)
    BY <1>3, StoreFacts DEF ConsumerInv, Memory, Tokens
  <2>2. CASE m.token.namespace = namespace /\ m.token.id = id
    <3>1. r.label = d /\ r.label = c
      BY <1>2, <1>3, <1>4, <1>7, <2>1, <2>2 DEF Owns, ConsumerInv
    <3>2. m = a
      BY <1>1, <2>1, <3>1
    <3>3. /\ cursors'[m.token.id].label = d /\ cursors'[m.token.id].baseline <= m.mark
          /\ m.saved /\ m.token.namespace <= namespace' /\ m.token.id < nextId'
      BY <1>3, <1>4, <1>7, <1>10, <2>1, <2>2, <3>1, <3>2 DEF Owns
    <3>4. Owns(d, m)'
      BY <3>3 DEF Owns
    <3> QED
      BY <2>1, <3>4 DEF ConsumerInv
  <2>3. CASE ~(m.token.namespace = namespace /\ m.token.id = id)
    <3>1. m.token.namespace = namespace /\ m.token.id < nextId /\ m.token.id \in DOMAIN cursors' =>
            m.token.id \in DOMAIN cursors /\ cursors'[m.token.id] = cursors[m.token.id]
      BY <1>6, <2>3
    <3>2. Owns(d, m)'
      BY <1>3, <1>5, <2>1, <3>1, OwnsKept
    <3> QED
      BY <2>1, <3>2 DEF ConsumerInv
  <2> QED
    BY <2>2, <2>3
<1>14. DOMAIN consumer' = Consumers
  BY <1>3 DEF RetentionInv
<1> QED
  BY <1>3, <1>5, <1>12, <1>13, <1>14, CursorStep

(* A registration is released by its owner or by an operator.              *)
LEMMA ReleaseStep ==
  ASSUME RetentionInv, NEW id,
         UNCHANGED <<disk, namespace, image>>, nextId' = nextId,
         cursors' = [i \in DOMAIN cursors \ {id} |-> cursors[i]],
         DOMAIN consumer' = Consumers,
         \A d \in Consumers : consumer'[d] = consumer[d] \/ consumer'[d] = Fresh
  PROVE  RetentionInv'
<1>1. nextId \in Nat /\ nextId <= nextId' /\ nextId' \in Nat /\ namespace' = namespace
  BY StoreFacts
<1>2. Registered(cursors', nextId', floor, frontier, starts, Durable)
  BY DEF RetentionInv, StoreInv, Registered
<1>3. \A d \in Consumers : \A m \in {consumer'[d]} : Sound(m) /\ Owns(d, m)'
  <2> TAKE d \in Consumers
  <2> TAKE m \in {consumer'[d]}
  <2>1. ConsumerInv(d, m) /\ m.token.id \in Nat
    BY StoreFacts, FreshIsRight DEF ConsumerInv, Sound, Memory, Tokens
  <2>2. m.token.id \in DOMAIN cursors' =>
          m.token.id \in DOMAIN cursors /\ cursors'[m.token.id] = cursors[m.token.id]
    OBVIOUS
  <2>3. Owns(d, m)'
    BY <1>1, <2>1, <2>2, OwnsKept DEF ConsumerInv
  <2> QED
    BY <2>1, <2>3 DEF ConsumerInv
<1> QED
  BY <1>1, <1>2, <1>3, CursorStep

-----------------------------------------------------------------------------
(* The theorems.                                                           *)

(* A new database keeps what it claims, which is nothing.                  *)
LEMMA InitRetention == Init => RetentionInv
<1> SUFFICES ASSUME Init
             PROVE  RetentionInv
  OBVIOUS
<1>1. /\ log = <<>> /\ starts = {} /\ rotate = FALSE
      /\ versions = {} /\ outcomes = {} /\ frontier = 0 /\ checkpoint = 0 /\ floor = 0
      /\ cursors = <<>> /\ nextId = 1 /\ namespace = 1 /\ image = NoImage
      /\ consumer = [c \in Consumers |-> Fresh]
  BY DEF Init
<1>2. log \in Seq(Keys) /\ Durable = 0
  BY <1>1 DEF Durable
<1>3. TypeOK
  <2>1. /\ rotate \in BOOLEAN /\ starts \in SUBSET Nat /\ versions \in SUBSET Nat
        /\ outcomes \in SUBSET Nat
    BY <1>1
  <2>2. /\ frontier \in Nat /\ checkpoint \in Nat /\ floor \in Nat
        /\ nextId \in Nat /\ nextId > 0 /\ namespace \in Nat /\ namespace > 0
    BY <1>1
  <2> QED
    BY <1>2, <2>1, <2>2 DEF TypeOK
<1>4. StoreInv
  <2>1. Kept(versions, outcomes, floor, frontier)
    BY <1>1 DEF Kept
  <2>2. DOMAIN cursors = {}
    BY <1>1
  <2>3. Registered(cursors, nextId, floor, frontier, starts, Durable)
    BY <2>2 DEF Registered
  <2> QED
    BY <1>1, <1>2, <2>1, <2>3 DEF StoreInv
<1>5. ImageInv
  BY <1>1 DEF ImageInv
<1>6. \A c \in Consumers : ConsumerInv(c, Fresh)
  <2> TAKE c \in Consumers
  <2>1. Fresh.token = NoToken
    BY DEF Fresh
  <2>2. Owns(c, Fresh)
    BY <1>1, <2>1 DEF Owns, NoToken
  <2> QED
    BY <2>2, FreshIsSound DEF ConsumerInv
<1> QED
  BY <1>1, <1>3, <1>4, <1>5, <1>6 DEF RetentionInv

(* Every operation keeps what is claimed.                                  *)
LEMMA StepRetention == RetentionInv /\ [Next]_vars => RetentionInv'
<1> SUFFICES ASSUME RetentionInv, [Next]_vars
             PROVE  RetentionInv'
  OBVIOUS
<1>1. ASSUME NEW key \in Keys, Commit(key) PROVE RetentionInv'
  BY <1>1, CommitStep
<1>2. ASSUME NEW s \in 1 .. Durable, Resolve(s) PROVE RetentionInv'
  BY <1>2, ResolveStep
<1>3. CASE Publish \/ Maintain(TRUE, FALSE) \/ Maintain(FALSE, TRUE)
  BY <1>3, MaintainStep
<1>4. ASSUME NEW crash \in BOOLEAN, Reopen(crash) PROVE RetentionInv'
  BY <1>4, ReopenStep
<1>5. CASE Backup
  BY <1>5, BackupStep
<1>6. CASE Attach
  BY <1>6, AttachStep
<1>7. ASSUME NEW c \in Consumers, Snapshot(c) \/ Revoke(c) \/ ScanRevoked(c) \/ StartOver(c)
      PROVE  RetentionInv'
  BY <1>7, SnapshotStep
<1>8. ASSUME NEW c \in Consumers, ScanNext(c) PROVE RetentionInv'
  BY <1>8, ScanStep
<1>9. ASSUME NEW c \in Consumers, ScanDone(c) PROVE RetentionInv'
  BY <1>9, ScanDoneStep
<1>10. ASSUME NEW c \in Consumers, NEW kind \in Kinds,
              SnapshotTail(c, kind) \/ Checkout(c, kind) \/ LostRegistration(c, kind)
       PROVE  RetentionInv'
  BY <1>10, RegisterStep
<1>11. ASSUME NEW c \in Consumers, NEW told \in BOOLEAN, Release(c, told) PROVE RetentionInv'
  <2>1. PICK id : id = consumer[c].token.id
    OBVIOUS
  <2>2. /\ cursors' = [i \in DOMAIN cursors \ {id} |-> cursors[i]] /\ nextId' = nextId
        /\ UNCHANGED <<disk, namespace, image>>
        /\ consumer' = IF told THEN [consumer EXCEPT ![c] = Fresh] ELSE consumer
    BY <1>11, <2>1 DEF Release, PublishCursors
  <2>3. DOMAIN consumer = Consumers
    BY DEF RetentionInv
  <2>4. /\ DOMAIN consumer' = Consumers
        /\ \A d \in Consumers : consumer'[d] = consumer[d] \/ consumer'[d] = Fresh
    BY <2>2, <2>3
  <2> QED
    BY <2>2, <2>4, ReleaseStep
<1>12. ASSUME NEW c \in Consumers, NEW w \in 1 .. consumer[c].mark, Acknowledge(c, w)
       PROVE  RetentionInv'
  BY <1>12, AcknowledgeStep
<1>13. ASSUME NEW c \in Consumers, NEW id \in DOMAIN cursors, Rebind(c, id) PROVE RetentionInv'
  BY <1>13, RebindStep
<1>14. ASSUME NEW c \in Consumers, NEW limits \in BatchLimits, ReadFeed(c, limits)
       PROVE  RetentionInv'
  BY <1>14, ReadFeedStep
<1>15. ASSUME NEW c \in Consumers, NEW again \in BOOLEAN, Stage(c, again) PROVE RetentionInv'
  BY <1>15, StageStep
<1>16. ASSUME NEW id \in DOMAIN cursors, ReleaseListed(id) PROVE RetentionInv'
  <2>1. /\ cursors' = [i \in DOMAIN cursors \ {id} |-> cursors[i]] /\ nextId' = nextId
        /\ UNCHANGED <<disk, namespace, image>> /\ consumer' = consumer
    BY <1>16 DEF ReleaseListed, PublishCursors
  <2>2. DOMAIN consumer' = Consumers
    BY <2>1 DEF RetentionInv
  <2> QED
    BY <2>1, <2>2, ReleaseStep
<1>17. CASE UNCHANGED vars
  <2>1. UNCHANGED <<disk, cursors, nextId, namespace, image, consumer>>
    BY <1>17 DEF vars
  <2>2. UNCHANGED <<disk, namespace, image>> /\ nextId' = nextId
    BY <2>1
  <2>3. /\ nextId' \in Nat /\ nextId <= nextId' /\ DOMAIN consumer' = Consumers
        /\ Registered(cursors', nextId', floor, frontier, starts, Durable)
    BY <2>1, StoreFacts DEF RetentionInv, StoreInv
  <2>4. \A c \in Consumers : \A m \in {consumer'[c]} : Sound(m) /\ Owns(c, m)'
    BY <2>1, StoreFacts DEF ConsumerInv, Owns
  <2> QED
    BY <2>2, <2>3, <2>4, CursorStep
<1> QED
  BY <1>1, <1>2, <1>3, <1>4, <1>5, <1>6, <1>7, <1>8, <1>9, <1>10, <1>11, <1>12, <1>13,
     <1>14, <1>15, <1>16, <1>17 DEF Next

(* Whatever the consumers, their registrations and the batches they ask    *)
(* for: through every order of commits, out-of-order executions,           *)
(* acknowledgements, releases, collections, segment retirements, restarts  *)
(* and restored backups, every registration can still read every record it *)
(* protects, and no live snapshot lies below what was collected.           *)
THEOREM ClaimsKept == Spec => []ClaimsAreKept
<1>1. Spec => []RetentionInv
  BY InitRetention, StepRetention, PTL DEF Spec
<1> QED
  BY <1>1, InvKeepsClaims, PTL

(* What a consumer committed is exactly the rows of the log up to its      *)
(* watermark, whichever batches it lost, repeated or read stale, and its   *)
(* token reaches no registration but its own.                              *)
THEOREM DerivedData == Spec => []DerivedIsSource
<1>1. Spec => []RetentionInv
  BY InitRetention, StepRetention, PTL DEF Spec
<1> QED
  BY <1>1, InvDerives, PTL
=============================================================================
