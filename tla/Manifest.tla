------------------------------ MODULE Manifest ------------------------------
(***************************************************************************)
(* Access declarations: AccessManifest and overlap of vm/access.rs.        *)
(* Declarations arrive one at a time, in any order, well formed or not.    *)
(* An entry is its encoded fields: the table, the kind (0 a table, 1 a     *)
(* key), the mode bits and the key's bytes.                                *)
(***************************************************************************)
EXTENDS Integers, Sequences, FiniteSets

CONSTANTS
  Tables,           \* table identifiers that fields may hold
  Keys,             \* encoded keys that fields may hold, shortest first
  TABLE_LIMIT,      \* u64::MAX
  MAX_KEY,          \* 1024: longest key of a scope
  MAX_ENTRIES,      \* 16384: most entries of an encoding
  MAX_DECLARED      \* bound on the declarations of the instance

VARIABLE given      \* the declarations, as they came

Fields(table, kind, mode, key) == [table |-> table, kind |-> kind, mode |-> mode, key |-> key]
AllFields == {Fields(t, k, b, key) : t \in Tables, k \in 0 .. 2, b \in 0 .. 3, key \in Keys}

-----------------------------------------------------------------------------
(* mode, and bits as sets of modes.                                        *)
Modes(bits) == (IF bits % 2 = 1 THEN {"r"} ELSE {}) \cup (IF bits \div 2 = 1 THEN {"w"} ELSE {})
Bits(modes) == (IF "r" \in modes THEN 1 ELSE 0) + (IF "w" \in modes THEN 2 ELSE 0)

RECURSIVE BytesLess(_, _)
BytesLess(a, b) ==
  IF b = <<>> THEN FALSE
  ELSE a = <<>> \/ a[1] < b[1] \/ (a[1] = b[1] /\ BytesLess(Tail(a), Tail(b)))

(* order_key *)
Before(d, e) ==
  \/ d.table < e.table
  \/ d.table = e.table /\ (d.kind < e.kind \/ (d.kind = e.kind /\ BytesLess(d.key, e.key)))

(* Scope and AccessMode values that the types can hold.                    *)
IsScope(e) == e.mode # 0 /\ e.kind \in {0, 1} /\ (e.kind = 0 => e.key = <<>>)
ValidTable(e) == e.table \notin {0, TABLE_LIMIT}

WellFormed(e) == IsScope(e) /\ ValidTable(e) /\ Len(e.key) <= MAX_KEY

(* Declarations.  Bound: one of them is malformed.                         *)
Init == given = <<>>
Declare ==
  /\ Len(given) < MAX_DECLARED
  /\ \E e \in AllFields :
       /\ WellFormed(e) \/ \A i \in DOMAIN given : WellFormed(given[i])
       /\ given' = Append(given, e)
Next == Declare
Spec == Init /\ [][Next]_given

SameScope(d, e) == d.table = e.table /\ d.kind = e.kind /\ d.key = e.key

RECURSIVE InOrder(_)
InOrder(S) ==
  IF S = {} THEN <<>>
  ELSE LET least == CHOOSE e \in S : \A d \in S \ {e} : Before(e, d)
       IN  <<least>> \o InOrder(S \ {least})

(* Mutant: the table's modes are not forgotten at the next table.          *)
StickyTable(entries) ==
  LET combined == {[e EXCEPT !.mode = Bits(UNION {Modes(d.mode) : d \in {x \in entries : SameScope(x, e)}})] :
                     e \in entries}
      table(e) == UNION {Modes(d.mode) : d \in {x \in combined : x.kind = 0}}
      left == {[e EXCEPT !.mode = IF e.kind = 0 THEN @ ELSE Bits(Modes(@) \ table(e))] : e \in combined}
  IN  InOrder({e \in left : e.mode # 0})

(* new: modes of one scope joined, then a point keeps the modes that its   *)
(* table's entry lacks; entries in order.                                  *)
New(entries) ==
  LET combined == {[e EXCEPT !.mode = Bits(UNION {Modes(d.mode) : d \in {x \in entries : SameScope(x, e)}})] :
                     e \in entries}
      table(e) == UNION {Modes(d.mode) : d \in {x \in combined : x.table = e.table /\ x.kind = 0}}
      left == {[e EXCEPT !.mode = IF e.kind = 0 THEN @ ELSE Bits(Modes(@) \ table(e))] : e \in combined}
  IN  InOrder({e \in left : e.mode # 0})

Accepted(entries) == \A e \in entries : ValidTable(e) /\ Len(e.key) <= MAX_KEY

(* decode, one entry: its fields, its order after the entry before, and    *)
(* the modes of its table so far.                                          *)
DecodesEntry(s, i, modes) ==
  /\ s[i].mode # 0 /\ ValidTable(s[i]) /\ Len(s[i].key) <= MAX_KEY
  /\ s[i].kind \in {0, 1} /\ (s[i].kind = 0 => s[i].key = <<>>)
  /\ i > 1 => Before(s[i - 1], s[i])
  /\ s[i].kind = 1 => modes \cap Modes(s[i].mode) = {}

RECURSIVE DecodeFrom(_, _, _)
DecodeFrom(s, i, modes) ==
  \/ i > Len(s)
  \/ LET now == IF i > 1 /\ s[i].table = s[i - 1].table THEN modes ELSE {}
     IN  /\ DecodesEntry(s, i, now)
         /\ DecodeFrom(s, i + 1, IF s[i].kind = 0 THEN Modes(s[i].mode) ELSE now)

Decode(s) == Len(s) <= MAX_ENTRIES /\ DecodeFrom(s, 1, {})

(* check_count, then the entries as they are.                              *)
Encodes(manifest) == Len(manifest) <= MAX_ENTRIES

Overlap(d, e) ==
  /\ d.table = e.table
  /\ d.kind = 1 /\ e.kind = 1 => d.key = e.key

-----------------------------------------------------------------------------
Elements(s) == {s[i] : i \in DOMAIN s}
Addresses(e) == {<<e.table, key>> : key \in IF e.kind = 0 THEN Keys ELSE {e.key}}
Covered(entries, mode) == UNION {Addresses(e) : e \in {d \in entries : mode \in Modes(d.mode)}}
Scopes == {e \in Elements(given) : IsScope(e)}

(* Normalization never loses or adds an access: new keeps, mode by mode,   *)
(* exactly the addresses that were declared, in whatever order, and its    *)
(* result, normalized again, is the same.                                  *)
NewKeepsCoverage ==
  Accepted(Scopes) =>
    LET manifest == New(Scopes)
    IN  /\ \A mode \in {"r", "w"} : Covered(Elements(manifest), mode) = Covered(Scopes, mode)
        /\ New(Elements(manifest)) = manifest
        /\ Len(manifest) <= Cardinality(Scopes)

(* Manifests have one encoding: decode accepts exactly the sequences that  *)
(* new and encode can produce, so that two logs of the same accesses are   *)
(* the same bytes and nothing is repaired when a record is read.           *)
DecodeIsCanonical ==
  Decode(given) <=>
    /\ \A i \in DOMAIN given : IsScope(given[i])
    /\ Accepted(Elements(given))
    /\ New(Elements(given)) = given
    /\ Encodes(given)

(* overlap is intersection: the scheduler's dependency test says yes       *)
(* exactly when two scopes share an address.                               *)
OverlapIsIntersection ==
  \A d, e \in Scopes : Overlap(d, e) <=> Addresses(d) \cap Addresses(e) # {}

=============================================================================
