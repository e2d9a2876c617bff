------------------------------ MODULE AtomicLog -----------------------------
(***************************************************************************)
(* What the write-ahead log promises the engine: groups of records are     *)
(* appended one at a time, a group that was interrupted is either in the   *)
(* log as a whole or not at all once the log has been opened again, and    *)
(* nothing the log has reported is ever lost.                              *)
(***************************************************************************)
EXTENDS Sequences

CONSTANT Groups   \* the groups of records that may be appended

VARIABLES
  log,    \* the records that an append or an open has reported
  limbo   \* the group being appended, or interrupted and not yet decided

vars == <<log, limbo>>

Init == log = <<>> /\ limbo = <<>>

Start == limbo = <<>> /\ limbo' \in Groups /\ UNCHANGED log

Keep == log' = log \o limbo /\ limbo' = <<>>

Drop == limbo' = <<>> /\ UNCHANGED log

Next == Start \/ Keep \/ Drop

Spec == Init /\ [][Next]_vars
=============================================================================
