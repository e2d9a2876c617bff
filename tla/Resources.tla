----------------------------- MODULE Resources -----------------------------
(***************************************************************************)
(* The memory reserved for a transaction before it runs: vm/resources.rs.  *)
(* The costs of a node and of an entry are the code's; sizes that matter   *)
(* only before a program is decoded (decoding, analysis) are left out.     *)
(***************************************************************************)
EXTENDS Runtime

NODE == 64        \* a value, without its bytes
ENTRY == 128      \* an entry of a map or a set, without its bytes

Least(a, b) == IF a < b THEN a ELSE b
RECURSIVE MaxOver(_, _)
MaxOver(f, n) == IF n = 0 THEN 0 ELSE LET x == MaxOver(f, n - 1) IN IF f[n] > x THEN f[n] ELSE x

(* value_bytes: the memory that a value of a type can need.                *)
RECURSIVE ValueBytes(_)
ValueBytes(t) ==
  NODE + CASE t.t \in {"bytes", "string"} -> 2 * t.n
           [] t.t = "tuple" -> Sum([i \in DOMAIN t.f |-> ValueBytes(t.f[i])])
           [] t.t = "rows" -> 2 * t.n * (ValueBytes(t.f[1]) + ValueBytes(t.f[2]))
           [] OTHER -> 0

(* pool_bytes: the memory that a value does need.                          *)
RECURSIVE PoolBytes(_)
PoolBytes(v) ==
  NODE + CASE v.t \in {"bytes", "string"} -> 2 * Len(v.b)
           [] v.t \in {"tuple", "rows"} -> Sum([i \in DOMAIN v.f |-> PoolBytes(v.f[i])])
           [] OTHER -> 0

Count(p, ops) == Cardinality({i \in DOMAIN p.ins : p.ins[i].op \in ops})
ScanLimits(p) == [i \in DOMAIN p.ins |-> IF p.ins[i].op = "scan" THEN p.ins[i].rows ELSE 0]

(* reservation, its terms: keys double when they are escaped.              *)
KeyTerm(p) ==
  Least(MaxOver([i \in DOMAIN p.tables |-> 2 * MaxValueBytes(p.tables[i].key) + 2], Len(p.tables)),
        MAX_KEY_BYTES)
ValueTerm(p) == MaxOver([i \in DOMAIN p.tables |-> MaxValueBytes(p.tables[i].value)], Len(p.tables))

RegistersTerm(p) == Sum([r \in DOMAIN p.types |-> ValueBytes(p.types[r])])

(* Mutant: only stores are counted as writes.                              *)
StoresTerm(p, limits) ==
  LET writes == Least(Count(p, {"store"}), limits[15])
  IN  Least(writes * (KeyTerm(p) + ValueTerm(p) + ENTRY), limits[16] + writes * ENTRY)

OverlayTerm(p, limits) ==
  LET writes == Least(Count(p, PointWrites), limits[15])
  IN  Least(writes * (KeyTerm(p) + ValueTerm(p) + ENTRY), limits[16] + writes * ENTRY)

AddressesTerm(p, limits) ==
  Least(Count(p, PointReads \cup PointWrites) + Sum(ScanLimits(p)), limits[9]) * (KeyTerm(p) + ENTRY)

ScanTerm(p) ==
  MaxOver([i \in DOMAIN p.ins |->
             IF p.ins[i].op # "scan" THEN 0
             ELSE LET table == p.tables[p.ins[i].x]
                  IN  2 * p.ins[i].rows * (ValueBytes(table.key) + ValueBytes(table.value))],
          Len(p.ins))

-----------------------------------------------------------------------------

(* The reservation that the scheduler takes from its byte budget covers    *)
(* what the machine then holds: each term bounds what it stands for, at    *)
(* every step and whichever rows are met.  A row and an address appear at  *)
(* most once per instruction, because no instruction runs twice.           *)
ReservationCovers ==
  LET set == {r \in DOMAIN m.regs : m.regs[r] # NoValue}
      Bytes(a) == ENTRY + Len(a[2]) + IF m.overlay[a] = Absent THEN 0 ELSE Len(m.overlay[a])
  IN  /\ SumOver([r \in set |-> PoolBytes(m.regs[r])], set) <= RegistersTerm(program)
      /\ SumOver([a \in DOMAIN m.overlay |-> Bytes(a)], DOMAIN m.overlay)
           <= OverlayTerm(program, claims)
      /\ SumOver([a \in m.addresses |-> ENTRY + Len(a[2])], m.addresses)
           <= AddressesTerm(program, claims)
      /\ \A r \in set : m.regs[r].t = "rows" =>
           Sum([i \in DOMAIN m.regs[r].f |-> PoolBytes(m.regs[r].f[i])]) <= ScanTerm(program)

=============================================================================
