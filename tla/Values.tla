------------------------------- MODULE Values -------------------------------
(***************************************************************************)
(* Types, values and their encodings: vm/value.rs and storage/encoding.rs. *)
(* A byte is a number below Base, and Base - 1 stands for 0xff.  An        *)
(* integer has two bytes and a length one, so that byte order and sign     *)
(* matter as they do with eight.  UTF-8 is kept as far as it can break a   *)
(* string: a lead byte must be followed by a continuation byte, a          *)
(* continuation byte by a lead before it, and 0xff is in no string.        *)
(***************************************************************************)
EXTENDS Integers, Sequences, FiniteSets

CONSTANTS
  MAX_VALUE_BYTES,   \* largest encoded value
  MAX_KEY_BYTES,     \* largest canonical key
  MAX_ROWS,          \* most rows of a Rows type
  MAX_FIELDS,        \* most fields of a tuple
  MAX_DEPTH          \* deepest nesting of a descriptor

ASSUME ValueBounds ==
  {MAX_VALUE_BYTES, MAX_KEY_BYTES, MAX_ROWS, MAX_FIELDS, MAX_DEPTH} \subseteq Nat

Base == 4
Byte == 0 .. Base - 1
HIGH == Base - 1                  \* 0xff
WORD == 2                         \* bytes of an integer
LENGTH == 1                       \* bytes of a length
Words == Base * Base
HALF == Words \div 2              \* the sign bit

-----------------------------------------------------------------------------
(* Types and values.  A Rows type lists its key and its value type; a Rows *)
(* value lists key, value, key, value ...                                  *)

Ty(t, n, f) == [t |-> t, n |-> n, f |-> f]
UnitT == Ty("unit", 0, <<>>)
BoolT == Ty("bool", 0, <<>>)
I64 == Ty("i64", 0, <<>>)
U64 == Ty("u64", 0, <<>>)
BytesT(n) == Ty("bytes", n, <<>>)
StringT(n) == Ty("string", n, <<>>)
TupleT(f) == Ty("tuple", 0, f)
RowsT(n, k, v) == Ty("rows", n, <<k, v>>)

Val(t, n, b, f) == [t |-> t, n |-> n, b |-> b, f |-> f]
UnitV == Val("unit", 0, <<>>, <<>>)
BoolV(p) == Val("bool", IF p THEN 1 ELSE 0, <<>>, <<>>)
Number(t, n) == Val(t, n, <<>>, <<>>)
BytesV(b) == Val("bytes", 0, b, <<>>)
StringV(b) == Val("string", 0, b, <<>>)
TupleV(f) == Val("tuple", 0, <<>>, f)
RowsV(f) == Val("rows", 0, <<>>, f)

IsBlob(ty) == ty.t \in {"bytes", "string"}
IsInteger(ty) == ty.t \in {"i64", "u64"}
IsRows(ty) == ty.t = "rows"
Numbers(t) == IF t = "i64" THEN -HALF .. HALF - 1 ELSE 0 .. Words - 1
CONTINUATION == 1
LEAD == 2
Utf8(b) ==
  \A i \in 1 .. Len(b) :
    /\ b[i] # HIGH
    /\ b[i] = LEAD => i < Len(b) /\ b[i + 1] = CONTINUATION
    /\ b[i] = CONTINUATION => i > 1 /\ b[i - 1] = LEAD

(* The order of byte strings.                                              *)
LexLess(s, t) ==
  \E i \in 0 .. Len(s) :
    /\ i <= Len(t)
    /\ \A j \in 1 .. i : s[j] = t[j]
    /\ \/ i = Len(s) /\ i < Len(t)
       \/ i < Len(s) /\ i < Len(t) /\ s[i + 1] < t[i + 1]

(* The derived order of values of one shape.                               *)
RECURSIVE Less(_, _)
Less(v, w) ==
  \/ v.n < w.n
  \/ LexLess(v.b, w.b)
  \/ \E i \in DOMAIN v.f :
       (\A j \in 1 .. i - 1 : v.f[j] = w.f[j]) /\ Less(v.f[i], w.f[i])

RECURSIVE SameShape(_, _)
SameShape(a, b) ==
  /\ a.t = b.t
  /\ Len(a.f) = Len(b.f)
  /\ \A i \in DOMAIN a.f : SameShape(a.f[i], b.f[i])

RowKeys(v) == [i \in 1 .. Len(v.f) \div 2 |-> v.f[2 * i - 1]]
RowValues(v) == [i \in 1 .. Len(v.f) \div 2 |-> v.f[2 * i]]

RECURSIVE Accepts(_, _)
Accepts(ty, v) ==
  /\ ty.t = v.t
  /\ CASE IsBlob(ty) -> Len(v.b) <= ty.n
       [] ty.t = "tuple" ->
            Len(v.f) = Len(ty.f) /\ \A i \in DOMAIN v.f : Accepts(ty.f[i], v.f[i])
       [] IsRows(ty) ->
            LET keys == RowKeys(v)
            IN  /\ Len(keys) <= ty.n /\ Len(keys) <= MAX_ROWS
                /\ \A i \in DOMAIN v.f : Accepts(ty.f[IF i % 2 = 1 THEN 1 ELSE 2], v.f[i])
                /\ \A i \in 1 .. Len(keys) - 1 : Less(keys[i], keys[i + 1])
       [] OTHER -> TRUE

RECURSIVE Sum(_)
Sum(s) == IF s = <<>> THEN 0 ELSE Head(s) + Sum(Tail(s))

RECURSIVE MaxValueBytes(_)
MaxValueBytes(ty) ==
  CASE ty.t = "unit" -> 0
    [] ty.t = "bool" -> 1
    [] IsInteger(ty) -> WORD
    [] IsBlob(ty) -> LENGTH + ty.n
    [] ty.t = "tuple" -> Sum([i \in DOMAIN ty.f |-> MaxValueBytes(ty.f[i])])
    [] IsRows(ty) -> LENGTH + ty.n * (MaxValueBytes(ty.f[1]) + MaxValueBytes(ty.f[2]))

RECURSIVE MinValueBytes(_)
MinValueBytes(ty) ==
  CASE ty.t = "unit" -> 0
    [] ty.t = "bool" -> 1
    [] IsInteger(ty) -> WORD
    [] IsBlob(ty) \/ IsRows(ty) -> LENGTH
    [] ty.t = "tuple" -> Sum([i \in DOMAIN ty.f |-> MinValueBytes(ty.f[i])])

RECURSIVE EncodedLen(_)
EncodedLen(v) ==
  CASE v.t = "unit" -> 0
    [] v.t = "bool" -> 1
    [] IsInteger(v) -> WORD
    [] IsBlob(v) -> LENGTH + Len(v.b)
    [] v.t = "tuple" -> Sum([i \in DOMAIN v.f |-> EncodedLen(v.f[i])])
    [] v.t = "rows" -> LENGTH + Sum([i \in DOMAIN v.f |-> EncodedLen(v.f[i])])

-----------------------------------------------------------------------------
(* Bytes of an integer: two's complement, in either order of the bytes.    *)

LittleEndian(n) == <<n % Base, n \div Base>>
BigEndian(n) == <<n \div Base, n % Base>>
Pattern(n) == n % Words
Signed(t, n) == IF t = "i64" /\ n >= HALF THEN n - Words ELSE n
FlipSign(n) == (n + HALF) % Words

(* The encoders: encode_value and encode_type.  A descriptor is written in *)
(* tokens, one for a tag and one for a bound or a count.                   *)
RECURSIVE Encode(_)
RECURSIVE EncodeAll(_)
Encode(v) ==
  CASE v.t = "unit" -> <<>>
    [] v.t = "bool" -> <<v.n>>
    [] IsInteger(v) -> LittleEndian(Pattern(v.n))
    [] IsBlob(v) -> <<Len(v.b)>> \o v.b
    [] v.t = "tuple" -> EncodeAll(v.f)
    [] v.t = "rows" -> <<Len(v.f) \div 2>> \o EncodeAll(v.f)
EncodeAll(s) == IF s = <<>> THEN <<>> ELSE Encode(Head(s)) \o EncodeAll(Tail(s))

Tags == <<"unit", "bool", "i64", "u64", "bytes", "string", "tuple", "rows">>
TagOf(ty) == (CHOOSE i \in DOMAIN Tags : Tags[i] = ty.t) - 1

RECURSIVE EncodeType(_)
RECURSIVE EncodeTypes(_)
EncodeType(ty) ==
  <<TagOf(ty)>>
    \o (IF IsBlob(ty) \/ IsRows(ty) THEN <<ty.n>>
        ELSE IF ty.t = "tuple" THEN <<Len(ty.f)>> ELSE <<>>)
    \o EncodeTypes(ty.f)
EncodeTypes(s) == IF s = <<>> THEN <<>> ELSE EncodeType(Head(s)) \o EncodeTypes(Tail(s))

Descriptor(ty) == <<1>> \o EncodeType(ty)

-----------------------------------------------------------------------------
(* Readers take from the front of the input and give what they read, its   *)
(* sizes and the rest; Reject ends every reader.                           *)

Reject == [ok |-> FALSE]
Read(v, rest) == [ok |-> TRUE, v |-> v, rest |-> rest]
Sized(v, size, keys, rest) ==
  [ok |-> TRUE, v |-> v, size |-> size, keys |-> keys, rest |-> rest]
Drop(input, n) == SubSeq(input, n + 1, Len(input))

(* decode_type of vm/value.rs with Rows, decode_node of                    *)
(* storage/encoding.rs without; both also compute the sizes they bound.    *)
RECURSIVE DecodeNode(_, _, _)
RECURSIVE DecodeNodes(_, _, _, _)
DecodeNodes(input, count, depth, rows) ==
  IF count = 0 THEN Sized(<<>>, 0, 0, input)
  ELSE LET first == DecodeNode(input, depth, rows)
           more == DecodeNodes(first.rest, count - 1, depth, rows)
       IN  IF ~first.ok \/ ~more.ok THEN Reject
           ELSE Sized(<<first.v>> \o more.v, first.size + more.size,
                      first.keys + more.keys, more.rest)
DecodeNode(input, depth, rows) ==
  LET tag == Tags[input[1] + 1]
      n == input[2]
      node ==
        CASE tag = "unit" -> Sized(UnitT, 0, 0, Drop(input, 1))
          [] tag = "bool" -> Sized(BoolT, 1, 1, Drop(input, 1))
          [] tag \in {"i64", "u64"} -> Sized(Ty(tag, 0, <<>>), WORD, WORD, Drop(input, 1))
          [] tag \in {"bytes", "string"} ->
               IF Len(input) < 2 THEN Reject
               ELSE Sized(Ty(tag, n, <<>>), LENGTH + n, 2 * n + 2, Drop(input, 2))
          [] tag = "tuple" ->
               IF Len(input) < 2 \/ n > MAX_FIELDS \/ n > Len(input) - 2 THEN Reject
               ELSE LET fields == DecodeNodes(Drop(input, 2), n, depth + 1, rows)
                    IN  IF ~fields.ok THEN Reject
                        ELSE Sized(TupleT(fields.v), fields.size, fields.keys, fields.rest)
          [] tag = "rows" ->
               IF ~rows \/ depth # 1 \/ Len(input) < 2 \/ n > MAX_ROWS THEN Reject
               ELSE LET pair == DecodeNodes(Drop(input, 2), 2, depth + 1, rows)
                    IN  IF ~pair.ok THEN Reject
                        ELSE Sized(RowsT(n, pair.v[1], pair.v[2]),
                                   LENGTH + n * pair.size, 0, pair.rest)
  IN  IF depth > MAX_DEPTH \/ input = <<>> \/ input[1] >= Len(Tags) THEN Reject
      ELSE IF ~node.ok \/ node.size > MAX_VALUE_BYTES THEN Reject ELSE node

DecodeDescriptor(bytes, rows) ==
  IF bytes = <<>> \/ bytes[1] # 1 THEN Reject
  ELSE LET node == DecodeNode(Tail(bytes), 1, rows)
       IN  IF node.ok /\ node.rest = <<>> THEN node ELSE Reject

TypeDecode(bytes) == DecodeDescriptor(bytes, TRUE)
SchemaDecode(bytes) == DecodeDescriptor(bytes, FALSE)

-----------------------------------------------------------------------------
(* decode_value of vm/value.rs.                                            *)

RowsOrdered(keys) == \A i \in 1 .. Len(keys) - 1 : Less(keys[i], keys[i + 1])

RECURSIVE DecodeValueNode(_, _)
RECURSIVE DecodeValues(_, _)
DecodeValues(types, input) ==
  IF types = <<>> THEN Read(<<>>, input)
  ELSE LET first == DecodeValueNode(Head(types), input)
           more == DecodeValues(Tail(types), first.rest)
       IN  IF ~first.ok \/ ~more.ok THEN Reject ELSE Read(<<first.v>> \o more.v, more.rest)
DecodeValueNode(ty, input) ==
  LET n == input[1]
      rows == DecodeValues([i \in 1 .. 2 * n |-> ty.f[IF i % 2 = 1 THEN 1 ELSE 2]], Tail(input))
      fields == DecodeValues(ty.f, input)
  IN  IF MinValueBytes(ty) > Len(input) THEN Reject
      ELSE CASE ty.t = "unit" -> Read(UnitV, input)
             [] ty.t = "bool" -> IF n > 1 THEN Reject ELSE Read(BoolV(n = 1), Tail(input))
             [] IsInteger(ty) ->
                  Read(Number(ty.t, Signed(ty.t, n + Base * input[2])), Drop(input, WORD))
             [] IsBlob(ty) ->
                  LET data == SubSeq(input, 2, n + 1)
                  IN  IF n > ty.n \/ n > Len(input) - 1 THEN Reject
                      ELSE IF ty.t = "string" /\ ~Utf8(data) THEN Reject
                      ELSE Read(Val(ty.t, 0, data, <<>>), Drop(input, n + 1))
             [] ty.t = "tuple" ->
                  IF fields.ok THEN Read(TupleV(fields.v), fields.rest) ELSE Reject
             [] IsRows(ty) ->
                  IF \/ n > ty.n \/ n > MAX_ROWS
                     \/ n * (MinValueBytes(ty.f[1]) + MinValueBytes(ty.f[2])) > Len(input) - 1
                  THEN Reject
                  ELSE IF rows.ok /\ RowsOrdered(RowKeys(RowsV(rows.v)))
                       THEN Read(RowsV(rows.v), rows.rest)
                       ELSE Reject

DecodeValue(ty, bytes) ==
  IF Len(bytes) > MAX_VALUE_BYTES \/ Len(bytes) > MaxValueBytes(ty) THEN Reject
  ELSE LET node == DecodeValueNode(ty, bytes)
       IN  IF node.ok /\ node.rest = <<>> THEN node ELSE Reject

-----------------------------------------------------------------------------
(* Canonical keys: storage/encoding.rs.  Its read_value checks an encoded  *)
(* value and writes the key on the way.                                    *)

(* Mutant: a zero byte is not escaped.                                     *)
EscapePlain(bytes) == bytes \o <<0, 0>>

RECURSIVE Escape(_)
Escape(bytes) ==
  IF bytes = <<>> THEN <<0, 0>>
  ELSE (IF Head(bytes) = 0 THEN <<0, HIGH>> ELSE <<Head(bytes)>>) \o Escape(Tail(bytes))

RECURSIVE Unescape(_)
Unescape(input) ==
  IF input = <<>> THEN Reject
  ELSE IF input[1] = 0 /\ Len(input) < 2 THEN Reject
  ELSE IF input[1] = 0 /\ input[2] = 0 THEN Read(<<>>, Drop(input, 2))
  ELSE IF input[1] = 0 /\ input[2] # HIGH THEN Reject
  ELSE LET more == Unescape(Drop(input, IF input[1] = 0 THEN 2 ELSE 1))
       IN  IF more.ok THEN Read(<<input[1]>> \o more.v, more.rest) ELSE Reject

KeyWord(t, n) == BigEndian(IF t = "i64" THEN FlipSign(n) ELSE n)

RECURSIVE ReadValue(_, _)
RECURSIVE ReadValues(_, _)
ReadValues(nodes, input) ==
  IF nodes = <<>> THEN Read(<<>>, input)
  ELSE LET first == ReadValue(Head(nodes), input)
           more == ReadValues(Tail(nodes), first.rest)
       IN  IF ~first.ok \/ ~more.ok THEN Reject ELSE Read(first.v \o more.v, more.rest)
ReadValue(node, input) ==
  CASE node.t = "unit" -> Read(<<>>, input)
    [] node.t = "bool" ->
         IF input = <<>> \/ input[1] > 1 THEN Reject ELSE Read(<<input[1]>>, Tail(input))
    [] IsInteger(node) ->
         IF Len(input) < WORD THEN Reject
         ELSE Read(KeyWord(node.t, input[1] + Base * input[2]), Drop(input, WORD))
    [] IsBlob(node) ->
         IF input = <<>> \/ input[1] > node.n \/ input[1] > Len(input) - 1 THEN Reject
         ELSE LET data == SubSeq(input, 2, input[1] + 1)
              IN  IF node.t = "string" /\ ~Utf8(data) THEN Reject
                  ELSE Read(Escape(data), Drop(input, input[1] + 1))
    [] node.t = "tuple" -> ReadValues(node.f, input)

MaxKeyBytes(ty) == SchemaDecode(Descriptor(ty)).keys

ReadWhole(ty, value) ==
  IF Len(value) > MaxValueBytes(ty) THEN Reject
  ELSE LET node == ReadValue(ty, value)
       IN  IF node.ok /\ node.rest = <<>> THEN node ELSE Reject
ValidateValue(ty, value) == ReadWhole(ty, value).ok
EncodeKey(ty, value) == IF MaxKeyBytes(ty) > MAX_KEY_BYTES THEN Reject ELSE ReadWhole(ty, value)

RECURSIVE ReadKey(_, _)
RECURSIVE ReadKeys(_, _)
ReadKeys(nodes, input) ==
  IF nodes = <<>> THEN Read(<<>>, input)
  ELSE LET first == ReadKey(Head(nodes), input)
           more == ReadKeys(Tail(nodes), first.rest)
       IN  IF ~first.ok \/ ~more.ok THEN Reject ELSE Read(first.v \o more.v, more.rest)
ReadKey(node, input) ==
  CASE node.t = "unit" -> Read(<<>>, input)
    [] node.t = "bool" ->
         IF input = <<>> \/ input[1] > 1 THEN Reject ELSE Read(<<input[1]>>, Tail(input))
    [] IsInteger(node) ->
         IF Len(input) < WORD THEN Reject
         ELSE LET n == Base * input[1] + input[2]
              IN  Read(LittleEndian(IF node.t = "i64" THEN FlipSign(n) ELSE n),
                       Drop(input, WORD))
    [] IsBlob(node) ->
         LET frame == Unescape(input)
         IN  IF ~frame.ok THEN Reject
             ELSE IF Len(frame.v) > node.n \/ (node.t = "string" /\ ~Utf8(frame.v)) THEN Reject
             ELSE Read(<<Len(frame.v)>> \o frame.v, frame.rest)
    [] node.t = "tuple" -> ReadKeys(node.f, input)

DecodeKey(ty, key) ==
  IF MaxKeyBytes(ty) > MAX_KEY_BYTES \/ Len(key) > MaxKeyBytes(ty) THEN Reject
  ELSE LET node == ReadKey(ty, key)
       IN  IF node.ok /\ node.rest = <<>> THEN node ELSE Reject

=============================================================================
