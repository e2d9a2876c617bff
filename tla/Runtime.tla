------------------------------ MODULE Runtime ------------------------------
(***************************************************************************)
(* The transaction machine: vm/runtime.rs, over the preparation of         *)
(* vm/mod.rs.  A prepared program runs one instruction a step against the  *)
(* rows before its sequence and its private writes, charges its claims,    *)
(* and ends with an outcome.  Each action below is one kind of             *)
(* instruction; all of them are the function step.                         *)
(***************************************************************************)
EXTENDS Program

(* What is executed, each a record of                                      *)
(*   programs   programs as they arrive: verified or not                   *)
(*   claims     claims: functions from resources 1 .. 17 to limits         *)
(*   stores     rows before the transaction: functions from addresses      *)
(*   manifests  declared manifests to try, besides the derived one         *)
CONSTANTS
  Cases,
  Stores      \* every store of some case

VARIABLES
  program,    \* the prepared program
  claims,     \* its claims
  manifest,   \* its declared accesses
  store,      \* committed rows; Absent where there is none
  m           \* the machine: registers, private writes, usage, outcome

vars == <<program, claims, manifest, store, m>>

Absent == <<-1>>
NoValue == Unknown
Running == [status |-> "running", reason |-> "none", at |-> 0, code |-> 0, detail |-> 0,
            value |-> UnitV]

Machine(p) ==
  [pc |-> 1, regs |-> [r \in DOMAIN p.types |-> NoValue],
   overlay |-> [a \in {} |-> Absent],
   instructions |-> 0, points |-> 0, addresses |-> {}, registerbytes |-> 0,
   rangerows |-> 0, rangebytes |-> 0, overlaybytes |-> 0,
   reads |-> {}, writes |-> {}, out |-> Running]

-----------------------------------------------------------------------------
(* Ends of a step.                                                         *)

Stop(s, reason, code, detail) ==
  [s EXCEPT !.out = [status |-> "aborted", reason |-> reason, at |-> s.pc, code |-> code,
                     detail |-> detail, value |-> UnitV]]
Panic(s) == [s EXCEPT !.out = [@ EXCEPT !.status = "panic"]]
Return(s, v) == [s EXCEPT !.out = [@ EXCEPT !.status = "success", !.value = v]]
Goto(s, pc) == [s EXCEPT !.pc = pc]

(* check: the first resource over its claim stops the program.             *)
RECURSIVE Charge(_, _, _, _)
Charge(s, limits, amounts, next) ==
  IF amounts = <<>> THEN next
  ELSE IF amounts[1][2] > limits[amounts[1][1]]
  THEN Stop(s, "ResourceLimit", 0, amounts[1][1])
  ELSE Charge(s, limits, Tail(amounts), next)

(* Mutant: a value is moved without its bound.                             *)
Unbounded(s, ty, v, next) == next

(* bound *)
Bounded(s, ty, v, next) == IF Accepts(ty, v) THEN next ELSE Stop(s, "BoundExceeded", 0, 0)

(* Mutant: the old value of the register is not given back.                *)
AssignTwice(s, p, limits, dst, v) ==
  LET bytes == s.registerbytes + EncodedLen(v)
  IN  Bounded(s, p.types[dst], v,
        Charge(s, limits, <<<<11, EncodedLen(v)>>, <<12, bytes>>>>,
          [s EXCEPT !.regs[dst] = v, !.registerbytes = bytes, !.pc = @ + 1]))

Assign(s, p, limits, dst, v) ==
  LET old == IF s.regs[dst] = NoValue THEN 0 ELSE EncodedLen(s.regs[dst])
      bytes == s.registerbytes - old + EncodedLen(v)
  IN  Bounded(s, p.types[dst], v,
        Charge(s, limits, <<<<11, EncodedLen(v)>>, <<12, bytes>>>>,
          [s EXCEPT !.regs[dst] = v, !.registerbytes = bytes, !.pc = @ + 1]))

(* canonical_key, then what is done with the key.                          *)
CanonicalKey(table, v) == EncodeKey(table.key, Encode(v)).v
WithKey(s, limits, table, v, Then(_)) ==
  LET key == CanonicalKey(table, v)
  IN  Bounded(s, table.key, v, Charge(s, limits, <<<<10, Len(key)>>>>, Then(key)))

Distinct(s, address) == Cardinality(s.addresses \cup {address})

(* point: one more access, and the address once.                           *)
Accessed(s, address) == [s EXCEPT !.points = @ + 1, !.addresses = @ \cup {address}]
Point(s, limits, address, Then(_)) ==
  Charge(s, limits, <<<<8, s.points + 1>>, <<9, Distinct(s, address)>>>>, Then(Accessed(s, address)))

Stored(rows, address) == IF address \in DOMAIN rows THEN rows[address] ELSE Absent
Current(s, rows, address) ==
  IF address \in DOMAIN s.overlay THEN s.overlay[address] ELSE Stored(rows, address)

WriteSize(address, bytes) ==
  9 + Len(address[2]) + IF bytes = Absent THEN 0 ELSE Len(bytes)

(* write *)
Write(s, limits, address, bytes) ==
  LET old == IF address \in DOMAIN s.overlay THEN WriteSize(address, s.overlay[address]) ELSE 0
      total == s.overlaybytes - old + WriteSize(address, bytes)
  IN  Charge(s, limits,
        <<<<11, IF bytes = Absent THEN 0 ELSE Len(bytes)>>,
          <<15, Cardinality(DOMAIN s.overlay \cup {address})>>, <<16, total>>>>,
        [s EXCEPT !.overlay = [a \in DOMAIN @ \cup {address} |->
                                 IF a = address THEN bytes ELSE @[a]],
                  !.overlaybytes = total, !.writes = @ \cup {address}, !.pc = @ + 1])

-----------------------------------------------------------------------------
(* scan: the rows in range, in key order, each charged as it is read.      *)

RECURSIVE KeyOrder(_)
KeyOrder(S) ==
  IF S = {} THEN <<>>
  ELSE LET least == CHOOSE a \in S : \A b \in S \ {a} : LexLess(a[2], b[2])
       IN  <<least>> \o KeyOrder(S \ {least})

Between(key, lower, upper, ins) ==
  /\ lower # Absent => LexLess(lower, key) \/ (ins.lo /\ lower = key)
  /\ upper # Absent => LexLess(key, upper) \/ (ins.hi /\ upper = key)

RECURSIVE ScanRows(_, _, _, _, _, _, _, _)
ScanRows(s, p, limits, rows, table, ins, left, found) ==
  IF left = <<>> \/ Len(found) = 2 * ins.rows
  THEN Assign(s, p, limits, ins.dst, RowsV(found))
  ELSE LET address == Head(left)
           bytes == Current(s, rows, address)
           size == Len(address[2]) + Len(bytes)
           key == DecodeValue(table.key, DecodeKey(table.key, address[2]).v).v
           given == s.rangebytes + size
           local == Sum([i \in DOMAIN found |->
                           IF i % 2 = 1 THEN Len(EncodeKey(table.key, Encode(found[i])).v)
                           ELSE EncodedLen(found[i])])
       IN  Charge(s, limits,
             <<<<10, Len(address[2])>>, <<11, Len(bytes)>>, <<9, Distinct(s, address)>>,
               <<13, s.rangerows + 1>>, <<14, given>>>>,
             IF local + size > ins.bytes THEN Stop(s, "ResourceLimit", 0, 14)
             ELSE ScanRows([s EXCEPT !.addresses = @ \cup {address}, !.rangerows = @ + 1,
                                     !.rangebytes = given],
                           p, limits, rows, table, ins, Tail(left),
                           found \o <<key, DecodeValue(table.value, bytes).v>>))

ScanBetween(s, p, limits, rows, table, ins, lower, upper) ==
  IF \/ ins.rows = 0
     \/ /\ lower # Absent /\ upper # Absent
        /\ LexLess(upper, lower) \/ (lower = upper /\ ~(ins.lo /\ ins.hi))
  THEN Assign(s, p, limits, ins.dst, RowsV(<<>>))
  ELSE LET present == {a \in DOMAIN rows \cup DOMAIN s.overlay :
                         /\ a[1] = table.id /\ Between(a[2], lower, upper, ins)
                         /\ Current(s, rows, a) # Absent}
           asked == [s EXCEPT !.reads = @ \cup {<<table.id, WholeTable>>}]
       IN  ScanRows(asked, p, limits, rows, table, ins, KeyOrder(present), <<>>)

Endpoint(s, limits, table, r, Then(_)) ==
  IF r = 0 THEN Then(Absent) ELSE WithKey(s, limits, table, s.regs[r], Then)

Scan(s, p, limits, rows, ins) ==
  LET table == p.tables[ins.x]
  IN  Endpoint(s, limits, table, ins.src[1], LAMBDA lower :
        Endpoint(s, limits, table, ins.src[2], LAMBDA upper :
          ScanBetween(s, p, limits, rows, table, ins, lower, upper)))

-----------------------------------------------------------------------------
(* step, one case per kind of instruction.                                 *)

Computed(s, p, limits, dst, result) ==
  IF result.ok THEN Assign(s, p, limits, dst, result.v)
  ELSE IF result.reason = "panic" THEN Panic(s)
  ELSE Stop(s, result.reason, 0, 0)

PureStep(s, p, limits, ins) ==
  LET R(i) == s.regs[ins.src[i]]
      ty == p.types[ins.dst]
  IN  CASE ins.op = "const" -> Assign(s, p, limits, ins.dst, p.constants[ins.x])
        [] ins.op = "arg" -> Assign(s, p, limits, ins.dst, p.arguments[ins.x])
        [] ins.op = "move" -> Assign(s, p, limits, ins.dst, R(1))
        [] ins.op \in BinaryOps ->
             Computed(s, p, limits, ins.dst, Binary(ins.op, R(1), R(2), ty))
        [] ins.op \in UnaryOps -> Computed(s, p, limits, ins.dst, Unary(ins.op, R(1)))
        [] ins.op = "slice" -> Computed(s, p, limits, ins.dst, Slice(R(1), R(2), R(3)))
        [] ins.op = "tuple" ->
             IF ty.t # "tuple" THEN Panic(s)
             ELSE IF \E i \in DOMAIN ins.src : ~Accepts(ty.f[i], R(i))
             THEN Stop(s, "BoundExceeded", 0, 0)
             ELSE Assign(s, p, limits, ins.dst, TupleV([i \in DOMAIN ins.src |-> R(i)]))
        [] ins.op = "field" ->
             IF R(1).t # "tuple" \/ ins.x \notin DOMAIN R(1).f THEN Panic(s)
             ELSE Assign(s, p, limits, ins.dst, R(1).f[ins.x])

ReadStep(s, p, limits, rows, ins) ==
  LET table == p.tables[ins.x]
  IN  WithKey(s, limits, table, s.regs[ins.src[1]], LAMBDA key :
        Point(s, limits, <<table.id, key>>, LAMBDA t :
          LET bytes == Current(t, rows, <<table.id, key>>)
              u == [t EXCEPT !.reads = @ \cup {<<table.id, key>>}]
          IN  IF ins.op = "exists" THEN Assign(u, p, limits, ins.dst, BoolV(bytes # Absent))
              ELSE IF bytes = Absent THEN Stop(u, "MissingKey", 0, 0)
              ELSE Charge(u, limits, <<<<11, Len(bytes)>>>>,
                     Assign(u, p, limits, ins.dst, DecodeValue(table.value, bytes).v))))

WriteStep(s, p, limits, rows, ins) ==
  LET table == p.tables[ins.x]
  IN  WithKey(s, limits, table, s.regs[ins.src[1]], LAMBDA key :
        Point(s, limits, <<table.id, key>>, LAMBDA t :
          LET u == IF ins.op = "insert"
                   THEN [t EXCEPT !.reads = @ \cup {<<table.id, key>>}] ELSE t
          IN  IF ins.op = "insert" /\ Current(t, rows, <<table.id, key>>) # Absent
              THEN Stop(u, "KeyExists", 0, 0)
              ELSE IF ins.op = "delete" THEN Write(u, limits, <<table.id, key>>, Absent)
              ELSE Bounded(u, table.value, s.regs[ins.src[2]],
                     Write(u, limits, <<table.id, key>>, Encode(s.regs[ins.src[2]])))))

ControlStep(s, p, limits, ins) ==
  LET R(i) == s.regs[ins.src[i]]
  IN  CASE ins.op = "jump" -> Goto(s, ins.x)
        [] ins.op = "jumpiffalse" -> Goto(s, IF R(1) = BoolV(FALSE) THEN ins.x ELSE s.pc + 1)
        [] ins.op = "require" ->
             IF R(1) = BoolV(FALSE) THEN Stop(s, "RequireFailed", ins.x, 0)
             ELSE Goto(s, s.pc + 1)
        [] ins.op = "abort" -> Stop(s, "ExplicitAbort", ins.x, 0)
        [] ins.op = "return" ->
             Bounded(s, p.result, R(1),
               Charge(s, limits, <<<<17, EncodedLen(R(1))>>>>, Return(s, R(1))))

Controls == Jumps \cup {"require", "abort", "return"}

Step(p, limits, rows, s) ==
  LET ins == p.ins[s.pc]
      t == [s EXCEPT !.instructions = @ + 1]
  IN  Charge(t, limits, <<<<2, t.instructions>>>>,
        IF \E r \in Sources(ins) : s.regs[r] = NoValue THEN Panic(t)
        ELSE CASE ins.op \in PointReads -> ReadStep(t, p, limits, rows, ins)
               [] ins.op \in PointWrites -> WriteStep(t, p, limits, rows, ins)
               [] ins.op = "scan" -> Scan(t, p, limits, rows, ins)
               [] ins.op \in Controls -> ControlStep(t, p, limits, ins)
               [] OTHER -> PureStep(t, p, limits, ins))

-----------------------------------------------------------------------------
(* prepare_transaction admits what decodes and what its manifest covers.   *)

Init ==
  /\ \E c \in Cases :
       /\ claims \in c.claims
       /\ program \in {p \in c.programs : Decodes(p, p.tables, claims)}
       /\ manifest \in {d \in {Derive(program)} \cup c.manifests :
                          Covers(d, Derive(program), program, claims)}
       /\ store \in c.stores
  /\ m = Machine(program)

Execute(ops) ==
  /\ m.out.status = "running"
  /\ program.ins[m.pc].op \in ops
  /\ m' = Step(program, claims, store, m)
  /\ UNCHANGED <<program, claims, manifest, store>>

ExecuteRead == Execute(PointReads)
ExecuteWrite == Execute(PointWrites)
ExecuteScan == Execute({"scan"})
ExecuteControl == Execute(Controls)
ExecutePure ==
  /\ m.out.status = "running"
  /\ program.ins[m.pc].op \notin PointReads \cup PointWrites \cup Controls \cup {"scan"}
  /\ m' = Step(program, claims, store, m)
  /\ UNCHANGED <<program, claims, manifest, store>>

Finished == m.out.status # "running" /\ UNCHANGED vars

Next ==
  \/ ExecuteRead \/ ExecuteWrite \/ ExecuteScan \/ ExecuteControl \/ ExecutePure
  \/ Finished

Spec == Init /\ [][Next]_vars

-----------------------------------------------------------------------------
(* What outcome.rs and history.rs ask of a stored outcome.                 *)

(* validate_abort, for a transaction record.                               *)
AbortFields(out) ==
  /\ out.reason \notin {"RequireFailed", "ExplicitAbort"} => out.code = 0
  /\ IF out.reason = "ResourceLimit" THEN out.detail \in 1 .. 17 ELSE out.detail = 0

(* validate_transaction_outcome, the reasons an instruction can give.      *)
LegalAbort(p, out) ==
  LET ins == p.ins[out.at]
  IN  CASE out.reason = "RequireFailed" -> ins.op = "require" /\ ins.x = out.code
        [] out.reason = "ExplicitAbort" -> ins.op = "abort" /\ ins.x = out.code
        [] out.reason = "MissingKey" -> ins.op = "load"
        [] out.reason = "KeyExists" -> ins.op = "insert"
        [] out.reason = "DivisionByZero" -> ins.op \in {"div", "rem"}
        [] out.reason = "InvalidShift" -> ins.op \in Shifts
        [] out.reason = "InvalidUtf8" -> ins.op = "parseutf8"
        [] out.reason = "IndexOutOfBounds" -> ins.op \in {"slice"} \cup RowOps
        [] out.reason = "IntegerOverflow" -> ins.op \in Arithmetic \cup {"neg", "toi64", "tou64"}
        [] out.reason \in {"BoundExceeded", "ResourceLimit"} -> TRUE
        [] OTHER -> FALSE

RECURSIVE SumOver(_, _)
SumOver(f, S) ==
  IF S = {} THEN 0 ELSE LET x == CHOOSE y \in S : TRUE IN f[x] + SumOver(f, S \ {x})
OverlayBytes(overlay) == SumOver([a \in DOMAIN overlay |-> WriteSize(a, overlay[a])], DOMAIN overlay)

(* transaction_limits *)
TransactionLimits(value, effects, limits) ==
  /\ EncodedLen(value) <= limits[17] /\ EncodedLen(value) <= limits[11]
  /\ \A id \in {8, 9, 15} : Cardinality(DOMAIN effects) <= limits[id]
  /\ \A a \in DOMAIN effects :
       /\ Len(a[2]) <= limits[10]
       /\ effects[a] # Absent => Len(effects[a]) <= limits[11]
  /\ OverlayBytes(effects) <= limits[16]

(* validate_transaction_outcome, the effects of a success.                 *)
EffectsHaveSource(p, effects) ==
  \A a \in DOMAIN effects :
    \E i \in DOMAIN p.ins :
      /\ p.ins[i].op \in IF effects[a] = Absent THEN {"delete"} ELSE {"store", "insert"}
      /\ p.tables[p.ins[i].x].id = a[1]

-----------------------------------------------------------------------------

(* The charges are what is held: the register and private-write totals     *)
(* that runtime.rs keeps incrementally are the real sums, every register   *)
(* is within its type, and no total that the machine keeps, of accesses,   *)
(* addresses, rows, bytes, writes and instructions, ever passes its claim, *)
(* not even in the step that ends the program for it.                      *)
UsageIsExact ==
  LET set == {r \in DOMAIN m.regs : m.regs[r] # NoValue}
  IN  /\ \A r \in set : Accepts(program.types[r], m.regs[r])
      /\ m.registerbytes = SumOver([r \in set |-> EncodedLen(m.regs[r])], set)
      /\ m.overlaybytes = OverlayBytes(m.overlay)
      /\ m.registerbytes <= claims[12] /\ m.overlaybytes <= claims[16]
      /\ DOMAIN m.overlay \subseteq m.addresses
      /\ Cardinality(m.addresses) <= claims[9]
      /\ m.points <= claims[8] /\ m.rangerows <= claims[13]
      /\ m.rangebytes <= claims[14] /\ Cardinality(DOMAIN m.overlay) <= claims[15]
      /\ m.instructions <= claims[2]

(* The program touches nothing outside its manifest: every key it reads or *)
(* writes, whatever the rows hold and whichever branches are taken, is in  *)
(* a scope declared with that mode.  The scheduler orders transactions by  *)
(* these scopes alone.                                                     *)
AccessesAreDeclared ==
  /\ \A a \in m.reads : "r" \in Covered(manifest, a[1], a[2])
  /\ \A a \in m.writes : "w" \in Covered(manifest, a[1], a[2])

(* A verified program never reaches an unreachable! arm, an uninitialized  *)
(* register or a missing field, and what the machine answers passes the    *)
(* validation that a restart, a backup and a replica apply to stored       *)
(* outcomes.                                                               *)
OutcomeValidates ==
  /\ m.out.status # "panic"
  /\ m.out.status = "aborted" => AbortFields(m.out) /\ LegalAbort(program, m.out)
  /\ m.out.status = "success" =>
       /\ Accepts(program.result, m.out.value)
       /\ TransactionLimits(m.out.value, m.overlay, claims)
       /\ EffectsHaveSource(program, m.overlay)

(* run: the states of a whole execution, as a set of one.                  *)
RECURSIVE Run(_, _, _, _)
Run(p, limits, rows, states) ==
  IF \A s \in states : s.out.status # "running" THEN states
  ELSE Run(p, limits, rows, {Step(p, limits, rows, s) : s \in states})

Ended(s) == s.out.status \in {"aborted", "success"}

(* The outcome is a function of the declared reads: rows that differ only  *)
(* outside the read scopes of the manifest lead to the same answer and the *)
(* same writes.                                                            *)
ReadsDecide ==
  Ended(m) =>
    \A other \in Stores :
      (\A a \in DOMAIN other :
         "r" \in Covered(manifest, a[1], a[2]) => other[a] = store[a])
      => \A run \in Run(program, claims, other, {Machine(program)}) :
           run.out = m.out /\ run.overlay = m.overlay

(* The scheduler may order transactions by their manifests alone: a        *)
(* program stays inside its manifest and is decided by the declared reads. *)
ManifestDecides == AccessesAreDeclared /\ ReadsDecide

=============================================================================
