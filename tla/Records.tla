------------------------------ MODULE Records ------------------------------
(***************************************************************************)
(* The forms of what a database stores and hands out: log record bodies    *)
(* (database/record.rs), outcomes (vm/outcome.rs), catalogue versions and  *)
(* their keys (vm/database.rs), policies, genesis and CURRENT              *)
(* (storage/metadata.rs), cursor tokens and watermarks                     *)
(* (database/exchange.rs).  An encoding is damaged, cut or extended, and   *)
(* read.                                                                   *)
(*                                                                         *)
(* A token stands for a field of fixed width or for one byte of a blob, so *)
(* that a magic, a digest and an integer are one token each and TOP is the *)
(* largest value of every width.  The token of a CRC is RIGHT when the CRC *)
(* is that of the bytes before it.                                         *)
(***************************************************************************)
EXTENDS Values, TLC

CONSTANTS
  Messages,           \* format -> what is encoded
  Ceilings,           \* LIMIT_CEILINGS: program, arguments and scopes first
  TOP,                \* u64::MAX and u32::MAX
  MAX_NAME,           \* 255
  MAX_INSTRUCTIONS,   \* 65_535
  MAX_EFFECTS,        \* 65_535
  MAX_STATE_KEY,      \* 1_024
  MAX_STATE_VALUE,    \* 16 MiB
  MAX_OVERLAY,        \* 64 MiB
  MAX_ENTRIES,        \* 16_384: declarations of a manifest
  MAX_OUTCOME_BYTES,  \* 128 MiB
  MAX_BODY,           \* 64 MiB - 72
  MaxChanges          \* bound: changes to an encoding

VARIABLES
  format,     \* the form of this behaviour
  message,    \* what was encoded
  bytes,      \* its encoding, as it is read
  changes,    \* how often it was changed
  found       \* what it was read as

Token == 0 .. TOP
RESOURCES == Len(Ceilings)
PROGRAM == 1
ARGUMENTS == 2
SCOPES == 3
RIGHT == 1

-----------------------------------------------------------------------------
(* Fields: take, read_blob and blob, which every format has its own copy   *)
(* of.  W is a number, B a length and as many bytes.                       *)

W == "word"
B == "blob"
Blob(b) == <<Len(b)>> \o b

RECURSIVE Take(_, _)
Take(fields, from) ==
  IF fields = <<>> THEN Read(<<>>, from)
  ELSE IF from = <<>> THEN Reject
  ELSE LET size == IF Head(fields) = W THEN 1 ELSE 1 + from[1]
           field == IF Head(fields) = W THEN from[1] ELSE SubSeq(from, 2, size)
           more == Take(Tail(fields), Drop(from, size))
       IN  IF size > Len(from) \/ ~more.ok THEN Reject ELSE Read(<<field>> \o more.v, more.rest)

Whole(v) == Read(v, <<>>)
Given(p, v) == IF p THEN Whole(v) ELSE Reject
ValidId(id) == id \notin {0, TOP}
IsBytes(b) == \A i \in DOMAIN b : b[i] \in Byte
Zero(b) == \E i \in DOMAIN b : b[i] = 0
ValidName(name) == Len(name) \in 1 .. MAX_NAME /\ ~Zero(name)
IsName(b) == IsBytes(b) /\ Utf8(b) /\ ValidName(b)

-----------------------------------------------------------------------------
(* Metadata: policies, genesis and CURRENT.                                *)

POLICY_LENGTH == 2 + RESOURCES
GENESIS_LENGTH == 7 + POLICY_LENGTH
CURRENT_LENGTH == 8
GN == 5
CU == 6

ValidateLimits(values) ==
  Len(values) = RESOURCES /\ \A i \in DOMAIN values : values[i] <= Ceilings[i]

EncodePolicy(values) == <<1, 0>> \o values
DecodePolicy(b) ==
  IF Len(b) # POLICY_LENGTH THEN Reject
  ELSE Given(b[1] = 1 /\ b[2] = 0 /\ ValidateLimits(Drop(b, 2)), Drop(b, 2))

Metadata(magic, body) == <<magic, 1, 0, Len(body) + 5>> \o body \o <<RIGHT>>
CheckMetadata(b, magic, length) ==
  Len(b) = length /\ b[length] = RIGHT /\ SubSeq(b, 1, 4) = <<magic, 1, 0, length>>

EncodeGenesis(g) ==
  Given(g.id # 0, Metadata(GN, <<g.id>> \o Blob(EncodePolicy(g.policy))))
DecodeGenesis(b) ==
  IF ~CheckMetadata(b, GN, GENESIS_LENGTH) THEN Reject
  ELSE LET policy == DecodePolicy(SubSeq(b, 7, 6 + POLICY_LENGTH))
       IN  IF b[6] # POLICY_LENGTH \/ b[5] = 0 \/ ~policy.ok THEN Reject
           ELSE Whole([id |-> b[5], policy |-> policy.v])

EncodeCurrent(c) == Given(ValidId(c.generation), Metadata(CU, <<c.generation, c.digest, 0>>))
DecodeCurrent(b) ==
  IF ~CheckMetadata(b, CU, CURRENT_LENGTH) THEN Reject
  ELSE Given(b[7] = 0 /\ ValidId(b[5]), [generation |-> b[5], digest |-> b[6]])

-----------------------------------------------------------------------------
(* Exchange: cursor tokens and watermarks.                                 *)

CT == 7
WM == 8
TOKEN_LENGTH == 8
WATERMARK_LENGTH == 6

CheckFrame(b, magic, length) == Len(b) = length /\ b[length] = RIGHT /\ b[1] = magic /\ b[2] = 1

EncodeToken(t) == <<CT, 1, t.kind, 0, t.db, t.namespace, t.id, RIGHT>>
DecodeToken(b) ==
  IF ~CheckFrame(b, CT, TOKEN_LENGTH) THEN Reject
  ELSE Given(/\ b[3] \in 1 .. 3 /\ b[4] = 0
             /\ b[5] # 0 /\ b[6] # 0 /\ ValidId(b[7]),
             [kind |-> b[3], db |-> b[5], namespace |-> b[6], id |-> b[7]])

Watermark(db, sequence) ==
  Given(db # 0 /\ sequence # TOP, [db |-> db, sequence |-> sequence])
EncodeWatermark(w) == <<WM, 1, 0, w.db, w.sequence, RIGHT>>
DecodeWatermark(b) ==
  IF ~CheckFrame(b, WM, WATERMARK_LENGTH) \/ b[3] # 0 THEN Reject ELSE Watermark(b[4], b[5])

(* Text: two digits for a token; a digit above HEX is any other character. *)
HEX == 5
ToHex(w) ==
  LET b == EncodeWatermark(w)
  IN  [i \in 1 .. 2 * Len(b) |->
         IF i % 2 = 1 THEN b[(i + 1) \div 2] \div HEX ELSE b[i \div 2] % HEX]
FromHex(text) ==
  IF Len(text) # 2 * WATERMARK_LENGTH \/ \E i \in DOMAIN text : text[i] >= HEX THEN Reject
  ELSE DecodeWatermark([i \in 1 .. WATERMARK_LENGTH |-> HEX * text[2 * i - 1] + text[2 * i]])

-----------------------------------------------------------------------------
(* The catalogue.                                                          *)

TableSchema(b, key) ==
  LET schema == SchemaDecode(b) IN schema.ok /\ (key => schema.keys <= MAX_KEY_BYTES)
SchemaDescriptor(ty, key) == TableSchema(Descriptor(ty), key)

CatalogueKey(k) == <<k.id, TOP - k.sequence>>
DecodeCatalogueKey(b) ==
  IF Len(b) # 2 THEN Reject
  ELSE LET sequence == TOP - b[2]
       IN  Given(ValidId(b[1]) /\ ValidId(sequence) /\ b[1] <= sequence,
                 [id |-> b[1], sequence |-> sequence])

EncodeCatalogue(c) ==
  Given(/\ ValidId(c.id) /\ ValidName(c.name)
        /\ SchemaDescriptor(c.key, TRUE) /\ SchemaDescriptor(c.value, FALSE),
        <<1, IF c.live THEN 1 ELSE 2, 0>> \o Blob(c.name)
          \o Blob(Descriptor(c.key)) \o Blob(Descriptor(c.value)))
CatalogueFrom(id, f) ==
  IF ~f.ok THEN Reject
  ELSE IF /\ f.v[1] = 1 /\ f.v[2] \in {1, 2} /\ f.v[3] = 0
          /\ IsName(f.v[4]) /\ TableSchema(f.v[5], TRUE) /\ TableSchema(f.v[6], FALSE)
          /\ f.rest = <<>>
  THEN Whole([id |-> id, live |-> f.v[2] = 1, name |-> f.v[4],
              key |-> TypeDecode(f.v[5]).v, value |-> TypeDecode(f.v[6]).v])
  ELSE Reject
DecodeCatalogue(id, b) ==
  IF ~ValidId(id) THEN Reject ELSE CatalogueFrom(id, Take(<<W, W, W, B, B, B>>, b))

-----------------------------------------------------------------------------
(* Log record bodies.  A transaction is prepared before it is encoded:     *)
(* its program and arguments are within its claims.                        *)

Access == INSTANCE Manifest WITH
  Tables <- {}, Keys <- {}, TABLE_LIMIT <- TOP, MAX_KEY <- MAX_STATE_KEY, MAX_DECLARED <- 0,
  given <- bytes

RECURSIVE EncodeEntries(_)
EncodeEntries(entries) ==
  IF entries = <<>> THEN <<>>
  ELSE LET e == Head(entries)
       IN  <<e.table, e.kind, e.mode, 0>> \o Blob(e.key) \o EncodeEntries(Tail(entries))
EncodeManifest(entries) == <<Len(entries)>> \o EncodeEntries(entries)

RECURSIVE DecodeEntries(_, _)
DecodeEntries(count, from) ==
  IF count = 0 THEN Read(<<>>, from)
  ELSE LET f == Take(<<W, W, W, W, B>>, from)
           more == DecodeEntries(count - 1, f.rest)
       IN  IF ~f.ok THEN Reject
           ELSE IF f.v[4] # 0 \/ f.v[3] > 3 \/ ~more.ok THEN Reject
           ELSE Read(<<Access!Fields(f.v[1], f.v[2], f.v[3], f.v[5])>> \o more.v, more.rest)
DecodeManifest(b) ==
  IF b = <<>> THEN Reject
  ELSE IF b[1] > MAX_ENTRIES \/ b[1] > (Len(b) - 1) \div 5 THEN Reject
  ELSE LET entries == DecodeEntries(b[1], Tail(b))
       IN  IF ~entries.ok THEN Reject
           ELSE Given(entries.rest = <<>> /\ Access!Decode(entries.v), entries.v)

CheckCount(entries, limit) == Len(entries) <= limit /\ Len(entries) <= MAX_ENTRIES

ValidateCatalogue(c) ==
  CASE c.op = "create" ->
         ValidName(c.name) /\ SchemaDescriptor(c.key, TRUE) /\ SchemaDescriptor(c.value, FALSE)
    [] c.op = "rename" -> ValidId(c.table) /\ ValidName(c.name)
    [] c.op = "drop" -> ValidId(c.table)

WithinClaims(c) ==
  Len(c.program) <= c.claims[PROGRAM] /\ Len(c.arguments) <= c.claims[ARGUMENTS]
Prepared(c) == WithinClaims(c) /\ CheckCount(c.manifest, c.claims[SCOPES])

Operations == <<"create", "rename", "drop">>

EncodeTransaction(c) ==
  Given(CheckCount(c.manifest, c.claims[SCOPES]),
        <<1, 0>> \o Blob(c.program) \o Blob(c.arguments)
          \o Blob(EncodeManifest(c.manifest)) \o c.claims)
EncodeOperation(c) ==
  Given(ValidateCatalogue(c),
        CASE c.op = "create" ->
               <<1, 1, 0>> \o Blob(c.name) \o Blob(Descriptor(c.key)) \o Blob(Descriptor(c.value))
          [] c.op = "rename" -> <<1, 2, 0, c.table>> \o Blob(c.name)
          [] c.op = "drop" -> <<1, 3, 0, c.table>>)

Operation(op, table, name, key, value) ==
  [op |-> op, table |-> table, name |-> name, key |-> key, value |-> value]

TransactionFrom(f, manifest) ==
  IF ~f.ok THEN Reject
  ELSE IF f.v[1] # 1 \/ f.v[2] # 0 \/ ~ValidateLimits(f.rest) \/ ~manifest.ok THEN Reject
  ELSE LET c == [program |-> f.v[3], arguments |-> f.v[4], manifest |-> manifest.v, claims |-> f.rest]
       IN  Given(WithinClaims(c) /\ CheckCount(c.manifest, c.claims[SCOPES]), c)
DecodeTransaction(body) ==
  LET f == Take(<<W, W, B, B, B>>, body)
  IN  TransactionFrom(f, IF f.ok THEN DecodeManifest(f.v[5]) ELSE Reject)

DecodeLimits(body) ==
  LET f == Take(<<W, W>>, body)
  IN  IF ~f.ok THEN Reject
      ELSE Given(f.v[1] = 1 /\ f.v[2] = 0 /\ ValidateLimits(f.rest), f.rest)

(* A create has a name and two descriptors, a rename a table and a name.   *)
OperationFields(op) ==
  CASE op = "create" -> <<B, B, B>> [] op = "rename" -> <<W, B>> [] op = "drop" -> <<W>>
Renamed(op, table, name, rest) ==
  LET c == Operation(op, table, name, UnitT, UnitT)
  IN  Given((op = "rename" => IsName(name)) /\ ValidateCatalogue(c) /\ rest = <<>>, c)
Created(name, key, value, rest) ==
  IF ~key.ok \/ ~value.ok \/ ~IsName(name) THEN Reject
  ELSE LET c == Operation("create", 0, name, key.v, value.v)
       IN  Given(ValidateCatalogue(c) /\ rest = <<>>, c)
OperationFrom(op, f) ==
  IF ~f.ok THEN Reject
  ELSE CASE op = "create" -> Created(f.v[1], TypeDecode(f.v[2]), TypeDecode(f.v[3]), f.rest)
         [] op = "rename" -> Renamed(op, f.v[1], f.v[2], f.rest)
         [] op = "drop" -> Renamed(op, f.v[1], <<>>, f.rest)
DecodeOperation(body) ==
  LET head == Take(<<W, W, W>>, body)
  IN  IF ~head.ok THEN Reject
      ELSE IF head.v[1] # 1 \/ head.v[2] \notin DOMAIN Operations \/ head.v[3] # 0 THEN Reject
      ELSE OperationFrom(Operations[head.v[2]],
                         Take(OperationFields(Operations[head.v[2]]), head.rest))

-----------------------------------------------------------------------------
(* Outcomes.                                                               *)

Effect(tag, table, key, value) == [tag |-> tag, table |-> table, key |-> key, value |-> value]
Put == 1
Delete == 2
CatalogueEffect == 3
LimitsEffect == 4

EffectAddress(e) == <<e.table>> \o e.key

ValidateAbort(kind, o) ==
  /\ CASE kind = 1 -> o.reason \in 1 .. 11 /\ o.instruction < MAX_INSTRUCTIONS
       [] kind = 2 -> o.reason \in 16 .. 17 /\ o.instruction = TOP
       [] OTHER -> FALSE
  /\ o.reason \notin {3, 4} => o.code = 0
  /\ IF o.reason = 7 THEN o.detail \in 1 .. RESOURCES ELSE o.detail = 0

ValidateVersion(sequence, table, version) ==
  IF version.ok THEN table < sequence \/ (table = sequence /\ version.v.live) ELSE FALSE
ValidateEffect(sequence, kind, e) ==
  CASE kind = 1 /\ e.tag \in {Put, Delete} ->
         /\ ValidId(e.table) /\ e.table < sequence
         /\ Len(e.key) <= MAX_STATE_KEY /\ Len(e.value) <= MAX_STATE_VALUE
    [] kind = 2 /\ e.tag = CatalogueEffect ->
         ValidateVersion(sequence, e.table, DecodeCatalogue(e.table, e.value))
    [] kind = 3 /\ e.tag = LimitsEffect -> TRUE
    [] OTHER -> FALSE

OverlayBytes(effects) ==
  Sum([i \in DOMAIN effects |->
         IF effects[i].tag \in {Put, Delete} THEN 2 + Len(effects[i].key) + Len(effects[i].value)
         ELSE 0])

ValidateSuccess(o) ==
  /\ Len(o.effects) <= MAX_EFFECTS /\ (o.kind # 1 => Len(o.effects) = 1)
  /\ o.kind # 1 =>
       IF o.kind = 2 /\ o.effects[1].table = o.sequence
       THEN o.type = U64 /\ o.value = Number("u64", o.sequence)
       ELSE o.type = UnitT /\ o.value = UnitV
  /\ \A i \in DOMAIN o.effects : ValidateEffect(o.sequence, o.kind, o.effects[i])
  /\ OverlayBytes(o.effects) <= MAX_OVERLAY

Ordered(effects) ==
  \A i \in 1 .. Len(effects) - 1 :
    LexLess(EffectAddress(effects[i]), EffectAddress(effects[i + 1]))
Sorted(effects) ==
  SortSeq(effects, LAMBDA d, e : LexLess(EffectAddress(d), EffectAddress(e)))

EncodeEffect(e) ==
  CASE e.tag = Put -> <<Put, e.table>> \o Blob(e.key) \o Blob(e.value)
    [] e.tag = Delete -> <<Delete, e.table>> \o Blob(e.key)
    [] e.tag = CatalogueEffect -> <<CatalogueEffect, e.table>> \o Blob(e.value)
    [] e.tag = LimitsEffect -> <<LimitsEffect>> \o Blob(EncodePolicy(e.value))

RECURSIVE EncodeEffects(_)
EncodeEffects(effects) ==
  IF effects = <<>> THEN <<>> ELSE EncodeEffect(Head(effects)) \o EncodeEffects(Tail(effects))

EffectFields(tag) ==
  CASE tag = Put -> <<W, B, B>> [] tag = Delete -> <<W, B>>
    [] tag = CatalogueEffect -> <<W, B>> [] tag = LimitsEffect -> <<B>>
LegalTags == <<{Put, Delete}, {CatalogueEffect}, {LimitsEffect}>>
EffectFrom(tag, f) ==
  CASE tag = Put -> Effect(tag, f.v[1], f.v[2], f.v[3])
    [] tag = Delete -> Effect(tag, f.v[1], f.v[2], <<>>)
    [] tag = CatalogueEffect -> Effect(tag, f.v[1], <<>>, f.v[2])
    [] tag = LimitsEffect -> Effect(tag, 0, <<>>, DecodePolicy(f.v[1]).v)

RECURSIVE DecodeEffects(_, _, _)
DecodeEffects(count, kind, from) ==
  IF count = 0 THEN Read(<<>>, from)
  ELSE IF from = <<>> THEN Reject
  ELSE IF from[1] \notin LegalTags[kind] THEN Reject
  ELSE LET f == Take(EffectFields(from[1]), Tail(from))
           more == DecodeEffects(count - 1, kind, f.rest)
       IN  IF ~f.ok THEN Reject
           ELSE IF from[1] = LimitsEffect /\ ~DecodePolicy(f.v[1]).ok THEN Reject
           ELSE IF ~more.ok THEN Reject
           ELSE Read(<<EffectFrom(from[1], f)>> \o more.v, more.rest)

(* The result of a success: its type and its value.                        *)
EncodeResult(o) == Blob(Descriptor(o.type)) \o Blob(Encode(o.value))
ResultFrom(rest, type, value) ==
  IF rest # <<>> \/ ~type.ok \/ ~IsBytes(value) THEN Reject
  ELSE LET read == DecodeValue(type.v, value)
       IN  IF read.ok THEN Whole([type |-> type.v, value |-> read.v]) ELSE Reject
DecodeResult(b) ==
  LET f == Take(<<B, B>>, b)
  IN  IF ~f.ok THEN Reject ELSE ResultFrom(f.rest, TypeDecode(f.v[1]), f.v[2])

(* descriptor bounds a type before it is encoded.                          *)
IsDescriptor(ty) == TypeDecode(Descriptor(ty)).ok

Framed(o) == <<1, o.kind, IF o.ok THEN 0 ELSE 1, o.sequence, o.digest>>
WithinBytes(encoded) == Given(Len(encoded) <= MAX_OUTCOME_BYTES, encoded)
EncodeSuccess(o, effects) ==
  IF IsDescriptor(o.type) /\ Accepts(o.type, o.value) /\ ValidateSuccess(o) /\ Ordered(effects)
  THEN WithinBytes(Framed(o) \o <<0, 0, TOP, 0, 0, 0>> \o Blob(EncodeResult(o))
                     \o <<Len(effects)>> \o EncodeEffects(effects))
  ELSE Reject
EncodeAbort(o) ==
  IF ~ValidateAbort(o.kind, o) THEN Reject
  ELSE WithinBytes(Framed(o) \o <<o.reason, 0, o.instruction, o.code, 0, o.detail, 0, 0>>)
EncodeOutcome(o) ==
  IF ~ValidId(o.sequence) \/ o.kind \notin 1 .. 3 THEN Reject
  ELSE IF o.ok THEN EncodeSuccess(o, Sorted(o.effects)) ELSE EncodeAbort(o)

Outcome(sequence, digest, kind, ok, fields, type, value, effects) ==
  [sequence |-> sequence, digest |-> digest, kind |-> kind, ok |-> ok,
   reason |-> fields[1], instruction |-> fields[2], code |-> fields[3], detail |-> fields[4],
   type |-> type, value |-> value, effects |-> effects]
NoAbort == <<0, TOP, 0, 0>>

AbortFields(f) == <<f.v[6], f.v[8], f.v[9], f.v[11]>>
DecodeAbort(f) ==
  LET o == Outcome(f.v[4], f.v[5], f.v[2], FALSE, AbortFields(f), UnitT, UnitV, <<>>)
  IN  Given(/\ f.v[3] = 1 /\ f.v[12] = <<>> /\ f.v[13] = 0 /\ f.rest = <<>>
            /\ ValidateAbort(f.v[2], o), o)
DecodeSuccess(f, result, effects) ==
  IF ~result.ok \/ ~effects.ok THEN Reject
  ELSE LET o == Outcome(f.v[4], f.v[5], f.v[2], TRUE, NoAbort, result.v.type, result.v.value, effects.v)
       IN  Given(effects.rest = <<>> /\ Ordered(effects.v) /\ ValidateSuccess(o), o)
OutcomeFrom(f) ==
  IF ~f.ok THEN Reject
  ELSE IF f.v[1] # 1 \/ f.v[2] \notin 1 .. 3 \/ ~ValidId(f.v[4]) \/ f.v[7] # 0 \/ f.v[10] # 0
  THEN Reject
  ELSE IF f.v[3] # 0 THEN DecodeAbort(f)
  ELSE IF AbortFields(f) # NoAbort \/ f.v[13] > MAX_EFFECTS \/ f.v[13] > Len(f.rest) \div 3
  THEN Reject
  ELSE DecodeSuccess(f, DecodeResult(f.v[12]), DecodeEffects(f.v[13], f.v[2], f.rest))
DecodeOutcome(b) ==
  IF Len(b) > MAX_OUTCOME_BYTES THEN Reject
  ELSE OutcomeFrom(Take(<<W, W, W, W, W, W, W, W, W, W, W, B, W>>, b))

-----------------------------------------------------------------------------
(* What is encoded is read back, as it was or changed.                     *)

Encoded(m) ==
  CASE format \in {"policy", "limits"} -> Given(ValidateLimits(m), EncodePolicy(m))
    [] format = "genesis" -> EncodeGenesis(m)
    [] format = "current" -> EncodeCurrent(m)
    [] format = "token" -> Whole(EncodeToken(m))
    [] format = "watermark" -> Whole(EncodeWatermark(m))
    [] format = "hex" -> Whole(ToHex(m))
    [] format = "key" -> Whole(CatalogueKey(m))
    [] format = "catalogue" -> EncodeCatalogue(m)
    [] format = "transaction" -> EncodeTransaction(m)
    [] format = "operation" -> EncodeOperation(m)
    [] format = "outcome" -> EncodeOutcome(m)

(* The identifier of a catalogue version comes with its key.               *)
Decoded(b) ==
  CASE format = "policy" -> DecodePolicy(b)
    [] format = "genesis" -> DecodeGenesis(b)
    [] format = "current" -> DecodeCurrent(b)
    [] format = "token" -> DecodeToken(b)
    [] format = "watermark" -> DecodeWatermark(b)
    [] format = "hex" -> FromHex(b)
    [] format = "key" -> DecodeCatalogueKey(b)
    [] format = "catalogue" -> DecodeCatalogue(message.id, b)
    [] format = "outcome" -> DecodeOutcome(b)
    [] Len(b) > MAX_BODY -> Reject
    [] format = "transaction" -> DecodeTransaction(b)
    [] format = "operation" -> DecodeOperation(b)
    [] format = "limits" -> DecodeLimits(b)

Unread == Read(<<>>, <<TOP>>)

Init ==
  /\ format \in DOMAIN Messages /\ message \in Messages[format]
  /\ format = "transaction" => Prepared(message)
  /\ \E encoded \in {Encoded(message)} : encoded.ok /\ bytes = encoded.v
  /\ changes = 0 /\ found = Unread

Becomes(b) ==
  /\ found = Unread /\ changes < MaxChanges
  /\ bytes' = b /\ changes' = changes + 1
  /\ UNCHANGED <<format, message, found>>

Change == \E i \in DOMAIN bytes : \E t \in Token \ {bytes[i]} : Becomes([bytes EXCEPT ![i] = t])
Truncate == \E n \in 0 .. Len(bytes) - 1 : Becomes(SubSeq(bytes, 1, n))
Extend == \E t \in Token : Becomes(Append(bytes, t))

Decode ==
  /\ found = Unread /\ found' = Decoded(bytes)
  /\ UNCHANGED <<format, message, bytes, changes>>

Next == Change \/ Truncate \/ Extend \/ Decode

-----------------------------------------------------------------------------
(* The message as it is read back: effects in the order of their           *)
(* addresses.                                                              *)
Canonical(m) == IF format = "outcome" THEN [m EXCEPT !.effects = Sorted(m.effects)] ELSE m

(* What an encoder accepts, the decoder reads back: a commit is never      *)
(* written that recovery cannot read, and a token or watermark that was    *)
(* handed out comes back as itself.                                        *)
EncodedIsRead == changes = 0 /\ found # Unread => found = Whole(Canonical(message))

(* Whatever is read is the only encoding of what it is read as, so a       *)
(* record's digest names one command and one outcome.                      *)
ReadIsCanonical ==
  found # Unread /\ found.ok => Encoded(found.v) = Whole(bytes)

(* The versions of a table lie together in the tree, the newest first.     *)
VersionsDescend ==
  format = "key" /\ changes = 0 =>
    \A k \in Messages["key"] :
      LexLess(bytes, CatalogueKey(k)) <=>
        message.id < k.id \/ (message.id = k.id /\ message.sequence > k.sequence)

=============================================================================
