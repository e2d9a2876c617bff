---------------------------- MODULE MCScheduler ----------------------------
(***************************************************************************)
(* Small instances of Scheduler: one table with two keys and commands that *)
(* conflict, abort, delete, scan and change what is admissible.            *)
(***************************************************************************)
EXTENDS Scheduler

(* Two keys of the only table.                                             *)
CONSTANTS t, k1, k2

K1 == <<t, k1>>
K2 == <<t, k2>>

Point(k) == [table |-> t, key |-> k]
WholeTable == [table |-> t, key |-> AnyKey]

(* "bump" increments K1; "guard" deletes K1 if K2 is there and aborts      *)
(* otherwise, so it is a writer of K1 that can abort; "copy" scans the     *)
(* table, copies K1 to K2 and aborts when K1 is absent; "put" writes K1    *)
(* without reading; "policy" is a limit change that no longer admits copy. *)
MCReads(c) ==
  CASE c = "bump"  -> {Point(k1)}
    [] c = "guard" -> {Point(k2)}
    [] c = "copy"  -> {WholeTable}
    [] c = "put"   -> {}

MCWrites(c) ==
  CASE c \in {"bump", "guard", "put"} -> {Point(k1)}
    [] c = "copy" -> {Point(k2)}

Success(a, v) == [ok |-> TRUE, effects |-> [x \in {a} |-> v]]
Abort == [ok |-> FALSE, effects |-> [x \in {} |-> Absent]]

MCRun(c, s) ==
  CASE c = "bump"   -> Success(K1, IF s[K1] = Absent THEN 1 ELSE 2)
    [] c = "guard"  -> IF s[K2] = Absent THEN Abort ELSE Success(K1, Absent)
    [] c = "copy"   -> IF s[K1] = Absent THEN Abort ELSE Success(K2, s[K1])
    [] c = "put"    -> Success(K1, 2)
    [] c = "policy" -> Success(Metadata, 1)

MCAdmits(c, v) == c = "copy" => v = Absent

MCLogBytes(c) == 1
MCReservation(c) == IF c = "copy" THEN 2 ELSE 1
=============================================================================
