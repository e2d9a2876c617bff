----------------------------- MODULE MCReplica -----------------------------
(* An image of one record, and batches of up to four.  A "put" is small, a *)
(* "guard" is large and reserves memory for its execution.  The "tight"    *)
(* options take two puts at a time and never a guard, whose reservation    *)
(* does not fit beside the batch; the "wide" ones take two of any kind,    *)
(* of guards only just; under the "tiny" ones even an empty batch is too   *)
(* large.                                                                  *)
EXTENDS Replica

MCBaseline == <<"put">>

MCSize ==
  [body \in Bodies |->
     IF body = "put"
       THEN [charge |-> 2, log_record |-> 1, preparation |-> 1, reservation |-> 1]
       ELSE [charge |-> 4, log_record |-> 2, preparation |-> 2, reservation |-> 3]]

MCOverhead == 2

Tight ==
  [submission_queue_count |-> 3, submission_queue_bytes |-> 6,
   assigned_backlog_count |-> 3, assigned_backlog_bytes |-> 4,
   preparation_bytes |-> 8, execution_bytes |-> 8]

Wide ==
  [submission_queue_count |-> 3, submission_queue_bytes |-> 12,
   assigned_backlog_count |-> 2, assigned_backlog_bytes |-> 4,
   preparation_bytes |-> 13, execution_bytes |-> 13]

Tiny == [Wide EXCEPT !.submission_queue_bytes = 1]

MCOptions == {Tight, Wide, Tiny}
=============================================================================
