---------------------------- MODULE MCRetention ----------------------------
(* One consumer, of resolved records or of the log, beside registrations   *)
(* it lost, records of two sizes, and limits that one of them exceeds.     *)
EXTENDS Retention

MCKinds == {Resolved, Logical}
MCSizeOf == [k \in Keys |-> IF k = 1 THEN 1 ELSE 3]
MCBatchLimits == {[records |-> 2, bytes |-> 2]}
=============================================================================
