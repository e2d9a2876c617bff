------------------------------ MODULE Program ------------------------------
(***************************************************************************)
(* Programs of the transaction machine before they run: the pure           *)
(* operations (vm/operations.rs), reading and verification                 *)
(* (vm/program.rs), and the access manifest that the analysis derives and  *)
(* admission checks (vm/access_analysis.rs, vm/access.rs).                 *)
(*                                                                         *)
(* An instruction is a record: dst and src are registers from 1 (src 0 is  *)
(* an absent scan endpoint), x is the index of a constant, an argument, a  *)
(* table or a field, the target of a jump, or a user code.                 *)
(***************************************************************************)
EXTENDS Values, Bitwise

Ins(op, dst, src, x) ==
  [op |-> op, dst |-> dst, src |-> src, x |-> x, lo |-> FALSE, hi |-> FALSE,
   rows |-> 0, bytes |-> 0]
ScanIns(dst, table, lower, upper, lo, hi, rows, bytes) ==
  [op |-> "scan", dst |-> dst, src |-> <<lower, upper>>, x |-> table, lo |-> lo, hi |-> hi,
   rows |-> rows, bytes |-> bytes]

Arithmetic == {"add", "sub", "mul", "div", "rem"}
BitOps == {"bitand", "bitor", "bitxor"}
Comparisons == {"eq", "lt", "le", "gt", "ge"}
BoolOps == {"booland", "boolor", "boolxor"}
Shifts == {"shl", "shr"}
RowOps == {"rowskey", "rowsvalue"}
BinaryOps == Arithmetic \cup BitOps \cup Comparisons \cup BoolOps \cup Shifts \cup RowOps
               \cup {"concat"}
UnaryOps == {"neg", "toi64", "tou64", "boolnot", "bitnot", "rowslen", "bytelen",
             "utf8bytes", "parseutf8", "sha256"}
PointReads == {"load", "exists"}
PointWrites == {"insert", "store", "delete"}
Jumps == {"jump", "jumpiffalse"}

-----------------------------------------------------------------------------
(* vm/operations.rs.  "panic" stands for the unreachable! arms.            *)

Done(v) == [ok |-> TRUE, v |-> v, reason |-> "none"]
Fails(reason) == [ok |-> FALSE, v |-> UnitV, reason |-> reason]
Unreachable == Fails("panic")

Checked(t, n) == IF n \in Numbers(t) THEN Done(Number(t, n)) ELSE Fails("IntegerOverflow")

Abs(n) == IF n < 0 THEN -n ELSE n
Quotient(a, b) ==
  IF (a < 0) = (b < 0) THEN Abs(a) \div Abs(b) ELSE -(Abs(a) \div Abs(b))
BITS == 4                               \* Words = 2^BITS

Integers2(op, t, a, b) ==
  CASE op = "add" -> Checked(t, a + b)
    [] op = "sub" -> Checked(t, a - b)
    [] op = "mul" -> Checked(t, a * b)
    [] op \in {"div", "rem"} ->
         IF b = 0 THEN Fails("DivisionByZero")
         ELSE IF Quotient(a, b) \notin Numbers(t) THEN Fails("IntegerOverflow")
         ELSE Done(Number(t, IF op = "div" THEN Quotient(a, b) ELSE a - b * Quotient(a, b)))
    [] op \in BitOps ->
         LET p == Pattern(a)
             q == Pattern(b)
         IN  Done(Number(t, Signed(t, CASE op = "bitand" -> p & q
                                         [] op = "bitor" -> p | q
                                         [] op = "bitxor" -> p ^^ q)))
    [] OTHER -> Unreachable

Shift(op, v, count) ==
  IF count >= BITS THEN Fails("InvalidShift")
  ELSE IF ~IsInteger(v) THEN Unreachable
  ELSE Done(Number(v.t, IF op = "shl" THEN Signed(v.t, (Pattern(v.n) * 2^count) % Words)
                        ELSE v.n \div 2^count))

Compare(op, v, w) ==
  CASE op = "eq" -> v = w
    [] op = "lt" -> Less(v, w)
    [] op = "le" -> ~Less(w, v)
    [] op = "gt" -> Less(w, v)
    [] op = "ge" -> ~Less(v, w)

RowAt(op, v, w) ==
  IF v.t # "rows" \/ w.t # "u64" THEN Unreachable
  ELSE IF w.n >= Len(RowKeys(v)) THEN Fails("IndexOutOfBounds")
  ELSE Done(IF op = "rowskey" THEN RowKeys(v)[w.n + 1] ELSE RowValues(v)[w.n + 1])

Binary(op, v, w, destination) ==
  CASE op \in Comparisons -> Done(BoolV(Compare(op, v, w)))
    [] op \in RowOps -> RowAt(op, v, w)
    [] op \in Shifts -> IF w.t # "u64" THEN Unreachable ELSE Shift(op, v, w.n)
    [] IsInteger(v) /\ v.t = w.t -> Integers2(op, v.t, v.n, w.n)
    [] v.t = "bool" /\ w.t = "bool" /\ op \in BoolOps ->
         Done(BoolV(CASE op = "booland" -> v.n = 1 /\ w.n = 1
                      [] op = "boolor" -> v.n = 1 \/ w.n = 1
                      [] op = "boolxor" -> v.n # w.n))
    [] IsBlob(v) /\ v.t = w.t /\ op = "concat" /\ destination.t = v.t ->
         IF Len(v.b) + Len(w.b) > destination.n THEN Fails("BoundExceeded")
         ELSE Done(Val(v.t, 0, v.b \o w.b, <<>>))
    [] OTHER -> Unreachable

(* A digest of fixed length; which bytes it has does not matter here.      *)
DIGEST == 2
Sha256(b) == [i \in 1 .. DIGEST |-> (Len(b) + i) % Base]

Unary(op, v) ==
  CASE op = "neg" /\ v.t = "i64" -> Checked("i64", -v.n)
    [] op = "toi64" /\ v.t = "u64" -> Checked("i64", v.n)
    [] op = "tou64" /\ v.t = "i64" -> Checked("u64", v.n)
    [] op = "boolnot" /\ v.t = "bool" -> Done(BoolV(v.n = 0))
    [] op = "bitnot" /\ IsInteger(v) ->
         Done(Number(v.t, Signed(v.t, Words - 1 - Pattern(v.n))))
    [] op = "rowslen" /\ v.t = "rows" -> Done(Number("u64", Len(RowKeys(v))))
    [] op = "bytelen" /\ IsBlob(v) -> Done(Number("u64", Len(v.b)))
    [] op = "utf8bytes" /\ v.t = "string" -> Done(BytesV(v.b))
    [] op = "parseutf8" /\ v.t = "bytes" ->
         IF Utf8(v.b) THEN Done(StringV(v.b)) ELSE Fails("InvalidUtf8")
    [] op = "sha256" /\ v.t = "bytes" -> Done(BytesV(Sha256(v.b)))
    [] OTHER -> Unreachable

Slice(v, start, length) ==
  IF v.t # "bytes" \/ start.t # "u64" \/ length.t # "u64" THEN Unreachable
  ELSE IF start.n > Len(v.b) \/ length.n > Len(v.b) - start.n THEN Fails("IndexOutOfBounds")
  ELSE Done(BytesV(SubSeq(v.b, start.n + 1, start.n + length.n)))

-----------------------------------------------------------------------------
(* vm/program.rs.  Limits are indexed by resource from 1, as the claims    *)
(* are documented.                                                         *)

(* read_instructions: the checks that the instruction format makes.        *)
WellFormed(ins) ==
  /\ ins.op = "scan" => /\ ins.src[1] = 0 => ~ins.lo
                        /\ ins.src[2] = 0 => ~ins.hi
  /\ ins.op = "tuple" => Len(ins.src) <= MAX_FIELDS

BinaryShapes(op, d, l, r) ==
  CASE op \in Arithmetic \cup BitOps -> IsInteger(d) /\ SameShape(d, l) /\ SameShape(d, r)
    [] op \in Comparisons -> SameShape(d, BoolT) /\ SameShape(l, r) /\ ~IsRows(l)
    [] op \in BoolOps -> \A t \in {d, l, r} : SameShape(t, BoolT)
    [] op \in Shifts -> IsInteger(d) /\ SameShape(d, l) /\ SameShape(r, U64)
    [] op \in RowOps -> /\ IsRows(l) /\ SameShape(r, U64)
                        /\ SameShape(d, l.f[IF op = "rowskey" THEN 1 ELSE 2])
    [] op = "concat" -> IsBlob(d) /\ SameShape(d, l) /\ SameShape(d, r)

UnaryShapes(op, d, s) ==
  CASE op = "neg" -> d.t = "i64" /\ s.t = "i64"
    [] op = "toi64" -> d.t = "i64" /\ s.t = "u64"
    [] op = "tou64" -> d.t = "u64" /\ s.t = "i64"
    [] op = "boolnot" -> d.t = "bool" /\ s.t = "bool"
    [] op = "bitnot" -> IsInteger(d) /\ SameShape(d, s)
    [] op = "rowslen" -> d.t = "u64" /\ IsRows(s)
    [] op = "bytelen" -> d.t = "u64" /\ IsBlob(s)
    [] op = "utf8bytes" -> d.t = "bytes" /\ s.t = "string"
    [] op = "parseutf8" -> d.t = "string" /\ s.t = "bytes"
    [] op = "sha256" -> d.t = "bytes" /\ s.t = "bytes"

HasDestination(ins) ==
  ins.op \notin PointWrites \cup Jumps \cup {"require", "abort", "return"}

Endpoints(ins) == {i \in DOMAIN ins.src : ~(ins.op = "scan" /\ ins.src[i] = 0)}
Sources(ins) == {ins.src[i] : i \in Endpoints(ins)}

Accessing == PointReads \cup PointWrites \cup {"scan"}
AccessShapes(p, ins, claims) ==
  LET d == p.types[ins.dst]
      S(i) == p.types[ins.src[i]]
      table == p.tables[ins.x]
  IN  /\ ins.x \in DOMAIN p.tables
      /\ CASE ins.op = "load" -> SameShape(S(1), table.key) /\ SameShape(d, table.value)
           [] ins.op = "exists" -> SameShape(S(1), table.key) /\ SameShape(d, BoolT)
           [] ins.op \in {"insert", "store"} ->
                SameShape(table.key, S(1)) /\ SameShape(table.value, S(2))
           [] ins.op = "delete" -> SameShape(table.key, S(1))
           [] ins.op = "scan" ->
                /\ ins.rows <= claims[13] /\ ins.bytes <= claims[14]
                /\ IsRows(d)
                /\ SameShape(d.f[1], table.key) /\ SameShape(d.f[2], table.value)
                /\ \A i \in Endpoints(ins) : SameShape(S(i), table.key)

(* The shapes that verify_instruction asks for, every index in range.      *)
WellTyped(p, ins, claims) ==
  LET d == p.types[ins.dst]
      S(i) == p.types[ins.src[i]]
  IN  /\ \A r \in Sources(ins) : r \in DOMAIN p.types
      /\ HasDestination(ins) => ins.dst \in DOMAIN p.types
      /\ CASE ins.op = "const" -> ins.x \in DOMAIN p.consttypes /\ SameShape(d, p.consttypes[ins.x])
           [] ins.op = "arg" -> ins.x \in DOMAIN p.argtypes /\ SameShape(d, p.argtypes[ins.x])
           [] ins.op = "move" -> SameShape(d, S(1))
           [] ins.op \in BinaryOps -> BinaryShapes(ins.op, d, S(1), S(2))
           [] ins.op \in UnaryOps -> UnaryShapes(ins.op, d, S(1))
           [] ins.op \in Accessing -> AccessShapes(p, ins, claims)
           [] ins.op = "slice" ->
                d.t = "bytes" /\ S(1).t = "bytes" /\ S(2).t = "u64" /\ S(3).t = "u64"
           [] ins.op = "tuple" ->
                /\ d.t = "tuple" /\ Len(d.f) = Len(ins.src)
                /\ \A i \in DOMAIN ins.src : SameShape(d.f[i], S(i))
           [] ins.op = "field" ->
                S(1).t = "tuple" /\ ins.x \in DOMAIN S(1).f /\ SameShape(d, S(1).f[ins.x])
           [] ins.op \in {"jump", "abort"} -> TRUE
           [] ins.op \in {"jumpiffalse", "require"} -> S(1).t = "bool"
           [] ins.op = "return" -> SameShape(p.result, S(1))

(* A forward pass joins what reaches an instruction: the fallthrough and   *)
(* the pending branches.  Nothing is the absent state.                     *)
Nothing == {-1}
(* Mutant: a register set on one of the branches counts as set.            *)
JoinEither(a, b) == IF a = Nothing THEN b ELSE IF b = Nothing THEN a ELSE a \cup b

Join(a, b) == IF a = Nothing THEN b ELSE IF b = Nothing THEN a ELSE a \cap b

(* Where a jump at i may go.                                               *)
Targets(i, n) == i + 1 .. n

RECURSIVE VerifyFrom(_, _, _, _, _)
VerifyFrom(p, claims, i, fallthrough, pending) ==
  IF i > Len(p.ins) THEN fallthrough = Nothing
  ELSE LET ins == p.ins[i]
           before == Join(fallthrough, pending[i])
           after == before \cup (IF HasDestination(ins) THEN {ins.dst} ELSE {})
       IN  /\ before # Nothing
           /\ WellTyped(p, ins, claims)
           /\ Sources(ins) \subseteq before
           /\ ins.op \in Jumps => ins.x \in Targets(i, Len(p.ins))
           /\ VerifyFrom(p, claims, i + 1,
                IF ins.op \in {"jump", "abort", "return"} THEN Nothing ELSE after,
                IF ins.op \in Jumps THEN [pending EXCEPT ![ins.x] = Join(@, after)] ELSE pending)

Verify(p, claims) == VerifyFrom(p, claims, 1, {}, [i \in DOMAIN p.ins |-> Nothing])

(* What a program and its arguments take.  The fixed header, the identity  *)
(* of a table and the head of an instruction with its destination and its  *)
(* index count one unit each, a source register one.                       *)
BlobsLen(lengths) == Sum([i \in DOMAIN lengths |-> LENGTH + lengths[i]])
TypesLen(types) == BlobsLen([i \in DOMAIN types |-> Len(Descriptor(types[i]))])
ValuesLen(values) == BlobsLen([i \in DOMAIN values |-> EncodedLen(values[i])])
ArgumentBytes(p) == LENGTH + ValuesLen(p.arguments)
ProgramBytes(p) ==
  1 + TypesLen(<<p.result>> \o p.argtypes \o p.types \o p.consttypes)
    + ValuesLen(p.constants) + Len(p.tables)
    + Sum([i \in DOMAIN p.ins |-> 1 + Len(p.ins[i].src)])

(* decode: sizes, counts and values against the claims, the tables against *)
(* the catalogue, then verification.                                       *)
Decodes(p, tables, claims) ==
  /\ Len(p.ins) >= 1 /\ Len(p.ins) <= claims[2]
  /\ Len(p.types) <= claims[3] /\ Len(p.arguments) <= claims[4] /\ Len(p.tables) <= claims[6]
  /\ \A i \in 1 .. Len(p.tables) - 1 : p.tables[i].id < p.tables[i + 1].id
  /\ p.tables = tables
  /\ \A t \in {p.argtypes[i] : i \in DOMAIN p.argtypes}
         \cup {p.consttypes[i] : i \in DOMAIN p.consttypes} : ~IsRows(t)
  /\ Len(p.arguments) = Len(p.argtypes)
  /\ \A i \in DOMAIN p.constants :
       Accepts(p.consttypes[i], p.constants[i]) /\ EncodedLen(p.constants[i]) <= claims[11]
  /\ \A i \in DOMAIN p.arguments :
       Accepts(p.argtypes[i], p.arguments[i]) /\ EncodedLen(p.arguments[i]) <= claims[11]
  /\ \A i \in DOMAIN p.ins : WellFormed(p.ins[i])
  /\ Verify(p, claims)
  /\ ProgramBytes(p) <= claims[1] /\ ArgumentBytes(p) <= claims[5]

-----------------------------------------------------------------------------
(* Access manifests: entries of a scope (a table, or one key of it) and    *)
(* its modes, "r" and "w".                                                 *)

WholeTable == <<-1>>
Scope(table, key) == [table |-> table, key |-> key]
Entry(table, key, modes) == [scope |-> Scope(table, key), modes |-> modes]

(* AccessManifest::new: modes of one scope are joined, and a point keeps   *)
(* the modes that its table's entry does not have.                         *)
Normalized(entries) ==
  LET Modes(s) == UNION {e.modes : e \in {d \in entries : d.scope = s}}
      Left(s) == Modes(s) \ IF s.key = WholeTable THEN {} ELSE Modes(Scope(s.table, WholeTable))
  IN  {e \in {Entry(s.table, s.key, Left(s)) : s \in {d.scope : d \in entries}} :
         e.modes # {}}

Covered(manifest, table, key) ==
  UNION {e.modes : e \in {d \in manifest : d.scope.table = table
                                           /\ d.scope.key \in {key, WholeTable}}}

(* validate: the count, the tables and the keys of the declarations, and   *)
(* every required entry covered by its point or its table.                 *)
Covers(manifest, required, p, claims) ==
  /\ Cardinality(manifest) <= claims[7]
  /\ \A e \in manifest :
       \E t \in DOMAIN p.tables :
         /\ p.tables[t].id = e.scope.table
         /\ e.scope.key # WholeTable => DecodeKey(p.tables[t].key, e.scope.key).ok
  /\ \A e \in required : e.modes \subseteq Covered(manifest, e.scope.table, e.scope.key)

(* evaluate: the value that an instruction must produce, if it is known.   *)
Unknown == Val("unknown", 0, <<>>, <<>>)
IfDone(result) == IF result.ok THEN result.v ELSE Unknown
Evaluate(p, ins, known) ==
  LET K(i) == known[ins.src[i]]
  IN  IF \E r \in Sources(ins) : known[r] = Unknown THEN Unknown
      ELSE CASE ins.op = "const" -> p.constants[ins.x]
             [] ins.op = "arg" -> p.arguments[ins.x]
             [] ins.op = "move" -> K(1)
             [] ins.op \in BinaryOps -> IfDone(Binary(ins.op, K(1), K(2), p.types[ins.dst]))
             [] ins.op \in UnaryOps -> IfDone(Unary(ins.op, K(1)))
             [] ins.op = "slice" -> IfDone(Slice(K(1), K(2), K(3)))
             [] ins.op = "tuple" ->
                  IF \A i \in DOMAIN ins.src : Accepts(p.types[ins.dst].f[i], K(i))
                  THEN TupleV([i \in DOMAIN ins.src |-> K(i)]) ELSE Unknown
             [] ins.op = "field" -> K(1).f[ins.x]
             [] OTHER -> Unknown

(* Mutant: an insert is a write, not a read.                               *)
BlindInsert(p, ins, known) ==
  LET table == p.tables[ins.x]
      key == IF known[ins.src[1]] = Unknown THEN Reject
             ELSE EncodeKey(table.key, Encode(known[ins.src[1]]))
      scope == IF key.ok THEN key.v ELSE WholeTable
  IN  CASE ins.op \in PointReads -> {Entry(table.id, scope, {"r"})}
        [] ins.op \in PointWrites -> {Entry(table.id, scope, {"w"})}
        [] ins.op = "scan" -> {Entry(table.id, WholeTable, {"r"})}
        [] OTHER -> {}

AccessOf(p, ins, known) ==
  LET table == p.tables[ins.x]
      key == IF known[ins.src[1]] = Unknown THEN Reject
             ELSE EncodeKey(table.key, Encode(known[ins.src[1]]))
      scope == IF key.ok THEN key.v ELSE WholeTable
  IN  CASE ins.op \in PointReads -> {Entry(table.id, scope, {"r"})}
        [] ins.op = "insert" -> {Entry(table.id, scope, {"r", "w"})}
        [] ins.op \in {"store", "delete"} -> {Entry(table.id, scope, {"w"})}
        [] ins.op = "scan" -> {Entry(table.id, WholeTable, {"r"})}
        [] OTHER -> {}

KnowBoth(a, b) ==
  IF a = <<>> THEN b ELSE IF b = <<>> THEN a
  ELSE [r \in DOMAIN a |-> IF a[r] = b[r] THEN a[r] ELSE Unknown]

RECURSIVE DeriveFrom(_, _, _, _)
DeriveFrom(p, i, fallthrough, pending) ==
  IF i > Len(p.ins) THEN {}
  ELSE LET ins == p.ins[i]
           known == KnowBoth(fallthrough, pending[i])
           v == Evaluate(p, ins, known)
           after == IF HasDestination(ins)
                    THEN [known EXCEPT ![ins.dst] =
                            IF v # Unknown /\ Accepts(p.types[ins.dst], v) THEN v ELSE Unknown]
                    ELSE known
       IN  AccessOf(p, ins, known)
             \cup DeriveFrom(p, i + 1,
                    IF ins.op \in {"jump", "abort", "return"} THEN <<>> ELSE after,
                    IF ins.op \in Jumps
                    THEN [pending EXCEPT ![ins.x] = KnowBoth(@, after)] ELSE pending)

(* derive: the access of every instruction, on every branch.  The empty    *)
(* function is the absent state.                                           *)
Derive(p) ==
  Normalized(DeriveFrom(p, 1, [r \in DOMAIN p.types |-> Unknown],
                        [i \in DOMAIN p.ins |-> <<>>]))

=============================================================================
