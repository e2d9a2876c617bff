--------------------------- MODULE VersionedState ---------------------------
(***************************************************************************)
(* Reads of versioned rows: storage/mvcc.rs over the state tree, and the   *)
(* merge with a transaction's private writes in vm/database.rs and the     *)
(* scan of vm/runtime.rs.  The tree holds encoded keys in byte order; a    *)
(* read seeks by bytes and must answer by tables, keys and sequences.  A   *)
(* row may be damaged: its value frame does not decode.                    *)
(***************************************************************************)
EXTENDS Values

CONSTANTS
  Keys,        \* canonical keys in use, byte strings
  Table,       \* the table that is read; its neighbours hold rows too
  Sequences,   \* sequences of stored versions
  Cases        \* what is read, each a record of
               \*   histories  version histories of one key
               \*   overlays   private writes
               \*   limits     row limits

VARIABLES
  rows,      \* history of every key of the table
  overlay,   \* private writes of the transaction
  query,     \* what is asked
  iter,      \* the merging iterator
  answer,    \* rows given so far
  status     \* "new", "open", "done", "error", "panic"

vars == <<rows, overlay, query, iter, answer, status>>

MAX == Words - 1
StoredValue == {"none", "put2", "put3", "put4", "delete", "bad"}
OverlayValue == {"none", "put", "delete"}

ASSUME VersionShape ==
  /\ \A c \in Cases :
       /\ c.histories \subseteq [Sequences -> StoredValue]
       /\ c.overlays \subseteq [Keys -> OverlayValue]
       /\ c.limits \subseteq Nat
  /\ Table \in 2 .. MAX - 2
  /\ \A s \in Sequences : s > Table /\ s < MAX

-----------------------------------------------------------------------------
(* Encoded addresses.                                                      *)

AddressPrefix(table, key) == BigEndian(table) \o Escape(key)
SeekKey(table, key, seq) == AddressPrefix(table, key) \o BigEndian(MAX - seq)

(* Mutant: the first byte of the terminator is replaced.                   *)
AfterExtensions(table, key) ==
  LET prefix == AddressPrefix(table, key) IN [prefix EXCEPT ![Len(prefix) - 1] = 1]

AfterKey(table, key) ==
  LET prefix == AddressPrefix(table, key) IN [prefix EXCEPT ![Len(prefix)] = 1]

NoKey == [ok |-> FALSE, table |-> 0, key |-> <<>>, seq |-> 0]

(* StateKey::decode, with the checks of StateKey::new.                     *)
DecodeStateKey(bytes) ==
  LET n == Len(bytes)
      table == Base * bytes[1] + bytes[2]
      frame == Unescape(SubSeq(bytes, WORD + 1, n - WORD))
      seq == MAX - (Base * bytes[n - 1] + bytes[n])
  IN  IF n < 2 * WORD + 2 THEN NoKey
      ELSE IF ~frame.ok THEN NoKey
      ELSE IF frame.rest # <<>> \/ table \in {0, MAX} \/ seq = MAX \/ seq <= table THEN NoKey
      ELSE [ok |-> TRUE, table |-> table, key |-> frame.v, seq |-> seq]

-----------------------------------------------------------------------------
(* The tree: every address that the rows and the neighbouring tables use,  *)
(* in byte order.                                                          *)

Addresses ==
  {SeekKey(Table, k, s) : k \in Keys, s \in Sequences}
    \cup {SeekKey(Table - 1, <<HIGH>>, Table + 1), SeekKey(Table + 1, <<>>, Table + 2)}

RECURSIVE ByteOrder(_)
ByteOrder(S) ==
  IF S = {} THEN <<>>
  ELSE LET least == CHOOSE a \in S : \A b \in S \ {a} : LexLess(a, b)
       IN  <<least>> \o ByteOrder(S \ {least})
AllAddresses == ByteOrder(Addresses)

StoredAt(address) ==
  LET k == DecodeStateKey(address)
  IN  IF k.table = Table THEN rows[k.key][k.seq] ELSE "put4"
Tree == SelectSeq(AllAddresses, LAMBDA a : StoredAt(a) # "none")
PhysicalScan(lower, upper) ==
  SelectSeq(Tree, LAMBDA a : ~LexLess(a, lower) /\ LexLess(a, upper))

-----------------------------------------------------------------------------
(* Bounds of a scan.                                                       *)

Unbounded == [b |-> "unbounded", k |-> <<>>]
Included(k) == [b |-> "included", k |-> k]
Excluded(k) == [b |-> "excluded", k |-> k]

Row(k, v) == [ok |-> TRUE, key |-> k, value |-> v]
Failed == [ok |-> FALSE, key |-> <<>>, value |-> "none"]
NoneSelected == <<-1>>

(* StateScan: advance, over what is left of the physical scan, to its end. *)
RECURSIVE Items(_, _, _)
Items(left, seq, selected) ==
  IF left = <<>> THEN <<>>
  ELSE LET k == DecodeStateKey(Head(left))
           v == StoredAt(Head(left))
       IN  IF ~k.ok \/ v = "bad" \/ k.table # Table THEN <<Failed>>
           ELSE IF k.seq > seq \/ k.key = selected THEN Items(Tail(left), seq, selected)
           ELSE (IF v = "delete" THEN <<>> ELSE <<Row(k.key, v)>>)
                  \o Items(Tail(left), seq, k.key)

StateScan(seq, lower, upper) ==
  LET lo == CASE lower.b = "unbounded" -> BigEndian(Table)
              [] lower.b = "included" -> SeekKey(Table, lower.k, seq)
              [] lower.b = "excluded" -> AfterKey(Table, lower.k)
      hi == CASE upper.b = "unbounded" -> BigEndian(Table + 1)
              [] upper.b = "included" -> AfterKey(Table, upper.k)
              [] upper.b = "excluded" -> AddressPrefix(Table, upper.k)
  IN  Items(PhysicalScan(lo, hi), seq, NoneSelected)

(* read_value: the first address at or after the seek key, if it has the   *)
(* same prefix.                                                            *)
Get(key, seq) ==
  LET lower == SeekKey(Table, key, seq)
      found == SelectSeq(Tree, LAMBDA a : ~LexLess(a, lower))
      prefix == Len(lower) - WORD
  IN  IF found = <<>> THEN Row(key, "none")
      ELSE LET a == Head(found)
               stored == MAX - (Base * a[Len(a) - 1] + a[Len(a)])
           IN  IF Len(a) < prefix \/ SubSeq(a, 1, prefix) # SubSeq(lower, 1, prefix)
               THEN Row(key, "none")
               ELSE IF Len(a) # Len(lower) \/ stored <= Table \/ stored > seq
                       \/ StoredAt(a) = "bad"
                    THEN Failed
                    ELSE Row(key, IF StoredAt(a) = "delete" THEN "none" ELSE StoredAt(a))

(* get of vm/database.rs: the private write first.                         *)
OverlayGet(key, seq) ==
  IF overlay[key] # "none"
  THEN Row(key, IF overlay[key] = "delete" THEN "none" ELSE overlay[key])
  ELSE Get(key, seq)

-----------------------------------------------------------------------------
(* scan of vm/runtime.rs and vm/database.rs.                               *)

SortedKeys == ByteOrder(Keys)
InBounds(k, lower, upper) ==
  /\ lower.b = "included" => ~LexLess(k, lower.k)
  /\ lower.b = "excluded" => LexLess(lower.k, k)
  /\ upper.b = "included" => ~LexLess(upper.k, k)
  /\ upper.b = "excluded" => LexLess(k, upper.k)
OverlayRange(lower, upper) ==
  SelectSeq(SortedKeys, LAMBDA k : overlay[k] # "none" /\ InBounds(k, lower, upper))

EmptyRange(q) ==
  \/ q.limit = 0
  \/ /\ q.lower.b # "unbounded" /\ q.upper.b # "unbounded"
     /\ \/ LexLess(q.upper.k, q.lower.k)
        \/ q.lower.k = q.upper.k /\ ~(q.lower.b = "included" /\ q.upper.b = "included")

(* BTreeMap::range panics on such bounds.                                  *)
RangePanics(lower, upper) ==
  /\ lower.b # "unbounded" /\ upper.b # "unbounded"
  /\ \/ LexLess(upper.k, lower.k)
     \/ lower.k = upper.k /\ lower.b = "excluded" /\ upper.b = "excluded"

Iterator(lower, based, base, left, done) ==
  [lower |-> lower, based |-> based, base |-> base, left |-> left, done |-> done]
Closed == Iterator(Unbounded, FALSE, <<>>, <<>>, TRUE)

SegmentEnd(left, upper) == IF left = <<>> THEN upper ELSE Excluded(Head(left))

(* One call of the iterator: the next item and the iterator after it.  The *)
(* base is scanned in segments that end at the next private write.         *)
RECURSIVE Turn(_, _)
Turn(it, q) ==
  LET cut == it.left # <<>>
      next == Head(it.left)
      empty == cut /\ IF it.lower.b = "unbounded" THEN next = <<>>
                      ELSE ~LexLess(it.lower.k, next)
      base == IF it.based \/ empty THEN it.base
              ELSE StateScan(q.seq, it.lower, SegmentEnd(it.left, q.upper))
      after == Iterator(Excluded(next), FALSE, <<>>, Tail(it.left), FALSE)
  IN  IF it.done THEN [some |-> FALSE, item |-> Failed, it |-> it]
      ELSE IF base # <<>>
      THEN [some |-> TRUE, item |-> Head(base),
            it |-> Iterator(it.lower, TRUE, Tail(base), it.left, ~Head(base).ok)]
      ELSE IF ~cut THEN [some |-> FALSE, item |-> Failed, it |-> Closed]
      ELSE IF overlay[next] = "delete" THEN Turn(after, q)
      ELSE [some |-> TRUE, item |-> Row(next, overlay[next]), it |-> after]

-----------------------------------------------------------------------------

Bounds == {Unbounded} \cup {Included(k) : k \in Keys} \cup {Excluded(k) : k \in Keys}

Queries(limits) ==
  [kind : {"scan"}, lower : Bounds, upper : Bounds, seq : {Table} \cup Sequences,
   limit : limits, key : {<<>>}]
    \cup [kind : {"get"}, lower : {Unbounded}, upper : {Unbounded},
          seq : {Table} \cup Sequences, limit : {1}, key : Keys]

Init ==
  /\ \E c \in Cases :
       /\ rows \in [Keys -> c.histories]
       /\ overlay \in c.overlays
       /\ query \in Queries(c.limits)
  /\ iter = Closed /\ answer = <<>> /\ status = "new"

Point ==
  /\ status = "new" /\ query.kind = "get"
  /\ answer' = <<OverlayGet(query.key, query.seq)>>
  /\ status' = "done"
  /\ UNCHANGED <<rows, overlay, query, iter>>

Open ==
  /\ status = "new" /\ query.kind = "scan"
  /\ IF EmptyRange(query) THEN status' = "done" /\ iter' = Closed
     ELSE IF RangePanics(query.lower, query.upper) THEN status' = "panic" /\ iter' = Closed
     ELSE /\ status' = "open"
          /\ iter' = Iterator(query.lower, FALSE, <<>>,
                              OverlayRange(query.lower, query.upper), FALSE)
  /\ UNCHANGED <<rows, overlay, query, answer>>

(* One entry of entries.take(row_limit).                                   *)
Pull ==
  /\ status = "open"
  /\ LET turn == Turn(iter, query)
     IN  IF Len(answer) = query.limit \/ ~turn.some
         THEN status' = "done" /\ UNCHANGED <<iter, answer>>
         ELSE /\ iter' = turn.it
              /\ IF turn.item.ok THEN answer' = Append(answer, turn.item) /\ status' = "open"
                 ELSE status' = "error" /\ UNCHANGED answer
  /\ UNCHANGED <<rows, overlay, query>>

Next == Point \/ Open \/ Pull

Spec == Init /\ [][Next]_vars

-----------------------------------------------------------------------------
(* The promise: what a key holds at a sequence.                            *)

Latest(k, seq) ==
  LET written == {s \in Sequences : s <= seq /\ rows[k][s] # "none"}
  IN  IF written = {} THEN "none"
      ELSE rows[k][CHOOSE s \in written : \A r \in written : r <= s]
Visible(k, seq) ==
  LET v == IF overlay[k] # "none" THEN overlay[k] ELSE Latest(k, seq)
  IN  IF v = "delete" THEN "none" ELSE v
Logical(q) ==
  LET present == SelectSeq(SortedKeys,
        LAMBDA k : InBounds(k, q.lower, q.upper) /\ Visible(k, q.seq) # "none")
  IN  [i \in DOMAIN present |-> Row(present[i], Visible(present[i], q.seq))]
Damaged(k) == overlay[k] = "none" /\ \E s \in Sequences : rows[k][s] = "bad"

(* A scan that ends gives exactly the first rows, up to its limit, of the  *)
(* table as it was at the sequence with the private writes on top: no      *)
(* deleted, later, obsolete or foreign row, none twice, none missing.      *)
ScanIsLogical ==
  (status = "done" /\ query.kind = "scan") =>
    LET all == Logical(query)
        n == IF query.limit < Len(all) THEN query.limit ELSE Len(all)
    IN  answer = SubSeq(all, 1, n)

(* A scan fails only on a damaged row that it had to read: one inside its  *)
(* bounds, under no private write, with every earlier row already given    *)
(* and fewer rows than the limit.                                          *)
DamageIsMet ==
  status = "error" =>
    \E k \in Keys :
      /\ Damaged(k) /\ InBounds(k, query.lower, query.upper)
      /\ Len(answer) < query.limit
      /\ answer \in {SelectSeq(Logical(query), LAMBDA r : LexLess(r.key, k)),
                     SelectSeq(Logical(query), LAMBDA r : ~LexLess(k, r.key))}

(* A point read gives what the key holds at the sequence, and fails only   *)
(* on a damaged row of that key.                                           *)
GetIsLogical ==
  (status = "done" /\ query.kind = "get") =>
    LET v == Visible(query.key, query.seq)
    IN  answer = <<IF v = "bad" THEN Failed ELSE Row(query.key, v)>>

(* Reads through the merging iterator are those of the table as it was,    *)
(* for scans and points, and no range that is asked for panics.            *)
ReadsAreLogical == ScanIsLogical /\ GetIsLogical /\ DamageIsMet /\ status # "panic"

=============================================================================
