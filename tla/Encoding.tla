------------------------------ MODULE Encoding ------------------------------
(***************************************************************************)
(* The codecs of Values, called on every short input: descriptors, encoded *)
(* values and canonical keys, well formed or not, and every value of a few *)
(* types.                                                                  *)
(***************************************************************************)
EXTENDS Values

CONSTANTS
  Kind,       \* what a run decodes: "descriptor", "value", "key" or "order"
  Types,      \* the types of the values
  MaxInput    \* bound: longest input

VARIABLES
  ty,       \* the type in use
  input,    \* the bytes given
  result    \* what the decoder answers; [ok |-> FALSE] before it is called

vars == <<ty, input, result>>

Inputs(alphabet) == UNION {[1 .. n -> alphabet] : n \in 0 .. MaxInput}

(* Every value that a type accepts.                                        *)
Blobs(n) == UNION {[1 .. k -> Byte] : k \in 0 .. n}
RECURSIVE ValuesOf(_)
RECURSIVE SeqsOf(_)
SeqsOf(types) ==
  IF types = <<>> THEN {<<>>}
  ELSE {<<v>> \o s : v \in ValuesOf(Head(types)), s \in SeqsOf(Tail(types))}
ValuesOf(t) ==
  CASE t.t = "unit" -> {UnitV}
    [] t.t = "bool" -> {BoolV(FALSE), BoolV(TRUE)}
    [] IsInteger(t) -> {Number(t.t, n) : n \in Numbers(t.t)}
    [] t.t = "bytes" -> {BytesV(b) : b \in Blobs(t.n)}
    [] t.t = "string" -> {StringV(b) : b \in {c \in Blobs(t.n) : Utf8(c)}}
    [] t.t = "tuple" -> {TupleV(s) : s \in SeqsOf(t.f)}
    [] IsRows(t) ->
         {v \in {RowsV(s) : s \in UNION {SeqsOf([i \in 1 .. 2 * n |-> t.f[2 - (i % 2)]]) :
                                          n \in 0 .. t.n}} : Accepts(t, v)}

Tokens == 0 .. Len(Tags)

Init ==
  /\ ty \in IF Kind = "descriptor" THEN {UnitT} ELSE Types
  /\ input \in CASE Kind = "descriptor" -> {<<v>> \o s : v \in {0, 1}, s \in Inputs(Tokens)}
                 [] Kind \in {"value", "key"} -> Inputs(Byte)
                 [] Kind = "order" -> {Encode(v) : v \in ValuesOf(ty)}
  /\ result = Reject

Decoder ==
  CASE Kind = "descriptor" -> TypeDecode(input)
    [] Kind = "value" -> DecodeValue(ty, input)
    [] Kind = "key" -> DecodeKey(ty, input)
    [] Kind = "order" -> EncodeKey(ty, input)

Next ==
  /\ result = Reject
  /\ result' = Decoder
  /\ result' # Reject
  /\ UNCHANGED <<ty, input>>

Spec == Init /\ [][Next]_vars

-----------------------------------------------------------------------------

(* A descriptor that Type::decode accepts is the one descriptor of its     *)
(* type, the size it was checked against is the type's largest value, and  *)
(* the storage layer's decoder (Schema::decode) takes exactly the same     *)
(* descriptors except Rows, with the same sizes.                           *)
DescriptorsAreCanonical ==
  (Kind = "descriptor" /\ result.ok) =>
    LET schema == SchemaDecode(input)
    IN  /\ Descriptor(result.v) = input
        /\ result.size = MaxValueBytes(result.v)
        /\ schema.ok <=> ~IsRows(result.v)
        /\ schema.ok => schema = result

(* What decode_value accepts is a value of the type, in its only encoding  *)
(* and within the sizes the type promises; the storage layer's separate    *)
(* validator (validate_value) takes the same bytes.                        *)
DecodedIsExact ==
  Kind = "value" =>
    LET decoded == DecodeValue(ty, input)
    IN  /\ decoded.ok =>
             /\ Accepts(ty, decoded.v)
             /\ Encode(decoded.v) = input
             /\ EncodedLen(decoded.v) = Len(input)
             /\ Len(input) \in MinValueBytes(ty) .. MaxValueBytes(ty)
        /\ ~IsRows(ty) => (decoded.ok <=> ValidateValue(ty, input))

(* Every value of a type is decoded from its encoding: the decoder refuses *)
(* nothing that the machine can hold in a register.                        *)
EncodedIsDecoded ==
  Kind = "order" =>
    /\ DecodeValue(ty, input).ok
    /\ Encode(DecodeValue(ty, input).v) = input

(* A canonical key that decode_key accepts is the key of the value it      *)
(* gives: one stored address per value.                                    *)
KeysAreCanonical ==
  (Kind = "key" /\ result.ok) =>
    EncodeKey(ty, result.v) = [ok |-> TRUE, v |-> input, rest |-> <<>>]

(* Canonical keys are ordered as the values are, whatever the bytes, the   *)
(* signs and the nesting; they lead back to the value and keep to the      *)
(* schema's bound.                                                         *)
KeysKeepOrder ==
  (Kind = "order" /\ result.ok) =>
    LET v == DecodeValue(ty, input).v
    IN  /\ Len(result.v) <= MaxKeyBytes(ty)
        /\ DecodeKey(ty, result.v) = Read(input, <<>>)
        /\ \A w \in ValuesOf(ty) :
             Less(v, w) <=> LexLess(result.v, EncodeKey(ty, Encode(w)).v)

=============================================================================
