------------------------------- MODULE MCWal -------------------------------
(***************************************************************************)
(* Small instances of Wal, and the log it implements.                      *)
(***************************************************************************)
EXTENDS Wal

Scenario(policy, power, sizes, n, m) ==
  [TailRecovery |-> policy, PowerLoss |-> power, GroupSizes |-> sizes,
   MaxAppends |-> n, MaxOpens |-> m]

(* Power losses over three appends of one record, and over two groups of   *)
(* up to two; and process crashes under the policy that refuses malformed  *)
(* groups.                                                                 *)
Unflushed == Scenario("DiscardInvalid", TRUE, {1}, 3, 4)
Grouped == Scenario("DiscardInvalid", TRUE, {1, 2}, 2, 3)
Strictly == Scenario("Strict", FALSE, {1, 2}, 3, 4)

MCScenarios == {Unflushed, Grouped, Strictly}
MCTruncation == {Unflushed}

Record == [try : 1 .. 3, part : 1 .. 2]

Atomic == INSTANCE AtomicLog WITH
  log <- promised, Groups <- UNION {[1 .. n -> Record] : n \in 1 .. 2}

(* append_group and recover_tail together implement a log of atomic        *)
(* groups: a reported record is never lost, and after any crash a group    *)
(* that was not reported is in the log as a whole or not at all.           *)
ImplementsAtomicLog == Atomic!Spec
=============================================================================
