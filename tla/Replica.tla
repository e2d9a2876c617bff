------------------------------ MODULE Replica ------------------------------
(***************************************************************************)
(* A read-only replica that imports logical feed batches of its source.    *)
(*                                                                         *)
(* The transport loses, repeats, delays and damages batches, the replica   *)
(* loses its process between any two of its writes and the caller loses    *)
(* replies.  The replica may also be promoted, write records of its own    *)
(* and be made a replica again.                                            *)
(*                                                                         *)
(* A record is its body.  The digest of a record stands for it and all its *)
(* predecessors: it is the sequence of their bodies.  The operational      *)
(* limits of the replica are those of the options it was opened with last, *)
(* and a body has the sizes that import compares with them.                *)
(***************************************************************************)
EXTENDS Integers, Sequences, FiniteSets, SequencesExt

CONSTANTS
  Bodies,        \* the commands of the source
  Baseline,      \* the bodies of the image the replica was attached from
  Options,       \* the EngineOptions the replica may be opened with
  Size,          \* what the limits are compared with, for every body
  Overhead,      \* what a batch is charged beyond its records
  MaxSequence,   \* bound: records of the source and of the replica
  MaxFailures    \* bound: lost processes

(* The options of an open database, all of them positive.                  *)
EngineOptions ==
  [submission_queue_count : Nat \ {0}, submission_queue_bytes : Nat \ {0},
   assigned_backlog_count : Nat \ {0}, assigned_backlog_bytes : Nat \ {0},
   preparation_bytes : Nat \ {0}, execution_bytes : Nat \ {0}]

(* The sizes of a record: its share of the batch's bytes (the copies of    *)
(* command, record and outcome that parse makes), its log record, the      *)
(* memory for preparing it and the reservation of its execution; the last  *)
(* two are zero for a record that is no transaction.                       *)
Sizes == [charge : Nat, log_record : Nat, preparation : Nat, reservation : Nat]

(* A copy that went another way before the image was taken did so with a   *)
(* command of its own, which the image does not hold.                      *)
ASSUME ReplicaAssumption ==
  /\ Options \subseteq EngineOptions /\ Options # {}
  /\ Size \in [Bodies -> Sizes] /\ Overhead \in Nat
  /\ Baseline \in Seq(Bodies) /\ Len(Baseline) > 0
  /\ "foreign" \notin Bodies
  /\ MaxSequence \in Nat /\ MaxFailures \in Nat

VARIABLES
  source,        \* the visible log of the source
  acked,         \* the baseline of the replica's cursor at the source
  log,           \* the durable log of the replica
  checkpoint,    \* its checkpoint
  readOnly,      \* its role
  busy,          \* an import is under way
  importing,     \* its records that are not appended yet
  running,       \* the replica is open
  options,       \* the limits it was opened with
  told,          \* the last watermark the caller knows of
  failures

replica == <<log, checkpoint, readOnly, busy, importing, running, options>>
vars == <<source, acked, replica, told, failures>>

Local == "local" \* the body of a record the promoted replica writes

-----------------------------------------------------------------------------
(* Execution and the exchange format.                                      *)

Prefix(h, n) == SubSeq(h, 1, n)

(* Executing the last record of a history: what it finds depends on all    *)
(* the records before it.                                                  *)
Execute(h) == Cardinality({i \in DOMAIN h : h[i] = Last(h)}) % 2

Outcome(h) == [sequence |-> Len(h), digest |-> h, result |-> Execute(h)]

LogicalRecord(h, i) ==
  [sequence |-> i, predecessor |-> Prefix(h, i - 1), body |-> h[i],
   outcome |-> Outcome(Prefix(h, i))]

(* crc: whether the frame's checksum holds.                                *)
FeedBatch(h, start, end) ==
  [crc |-> TRUE, kind |-> "logical", database |-> "this", start |-> start, end |-> end,
   records |-> [i \in 1 .. end - start |-> LogicalRecord(h, start + i)]]

(* The log record of an entry carries the outcome's sequence and digest.   *)
ValidateLog(r) ==
  /\ r.sequence = r.outcome.sequence
  /\ r.outcome.digest = Append(r.predecessor, r.body)

Chained(records) ==
  \A i \in 2 .. Len(records) : records[i].predecessor = records[i - 1].outcome.digest

(* FeedBatch::decode.                                                      *)
Decodes(b) ==
  /\ b.crc
  /\ b.end - b.start = Len(b.records)
  /\ \A i \in DOMAIN b.records : b.records[i].outcome.sequence = b.start + i
  /\ b.kind = "logical" => (\A i \in DOMAIN b.records : ValidateLog(b.records[i]))
                           /\ Chained(b.records)

-----------------------------------------------------------------------------
(* What may arrive.                                                        *)

(* A batch that the source served at some time.                            *)
Served == {FeedBatch(source, s, e) : s, e \in 0 .. Len(source)}

(* A copy of the source that went another way before the image was taken.  *)
Foreign == [source EXCEPT ![1] = "foreign"]

(* The frame torn, of another database, of another kind, of another place, *)
(* with another end, with a wrong last result, and with the first record   *)
(* of another history.                                                     *)
Damaged(b) ==
  {[b EXCEPT !.crc = FALSE], [b EXCEPT !.database = "other"], [b EXCEPT !.kind = "resolved"],
   [b EXCEPT !.start = Len(log), !.end = Len(log) + Len(b.records)],
   [b EXCEPT !.end = b.end + 1]}
  \cup (IF b.records = <<>> THEN {} ELSE
         {[b EXCEPT !.records[Len(b.records)].outcome.result = 1 - @],
          [b EXCEPT !.records[1] = LogicalRecord(Foreign, b.start + 1)]})

Arriving ==
  LET sent == {b \in Served : b.start <= b.end} IN
  sent \cup (UNION {Damaged(b) : b \in sent})
       \cup {FeedBatch(Foreign, b.start, b.end) : b \in sent}

-----------------------------------------------------------------------------
(* Import.                                                                 *)

Recovered == checkpoint = Len(log)

Continues(b) == b.database = "this" /\ b.start = Len(log)

(* Mutant: the place of a batch is its only anchor.                        *)
AnchoredAnywhere(b) == TRUE

Anchored(b) == b.records # <<>> => b.records[1].predecessor = log

(* The batch is executed on a copy of the replica, and every outcome must  *)
(* be the one supplied.                                                    *)
Agrees(b) ==
  \A i \in DOMAIN b.records :
    b.records[i].outcome.result =
      Execute(log \o [j \in 1 .. i |-> b.records[j].body])

BodiesOf(b) == [i \in DOMAIN b.records |-> b.records[i].body]

(* What parse charges for a batch of these bodies, and their log records.  *)
BatchBytes(bodies) ==
  Overhead + MapThenSumSet(LAMBDA i : Size[bodies[i]].charge, DOMAIN bodies)
LogBytes(bodies) == MapThenSumSet(LAMBDA i : Size[bodies[i]].log_record, DOMAIN bodies)

(* reserve_batch: more than the whole queue is refused, less waits.        *)
Reservable(bodies) ==
  /\ Len(bodies) <= options.submission_queue_count
  /\ BatchBytes(bodies) <= options.submission_queue_bytes

(* The limits on the batch as a whole.                                     *)
WithinCapacity(bodies) ==
  /\ Len(bodies) <= options.assigned_backlog_count
  /\ LogBytes(bodies) <= options.assigned_backlog_bytes
  /\ BatchBytes(bodies) <= options.preparation_bytes
  /\ BatchBytes(bodies) <= options.execution_bytes

(* Each transaction is prepared in what the batch leaves, and its          *)
(* reservation comes on top of the batch.                                  *)
Preparable(bodies) ==
  \A i \in DOMAIN bodies :
    /\ Size[bodies[i]].preparation <= options.preparation_bytes - BatchBytes(bodies)
    /\ BatchBytes(bodies) + Size[bodies[i]].reservation <= options.execution_bytes
    /\ BatchBytes(bodies) + Size[bodies[i]].reservation <= options.preparation_bytes

Fits(bodies) == Reservable(bodies) /\ WithinCapacity(bodies) /\ Preparable(bodies)

(* import_logical, parse and the first half of install.  Nothing changes   *)
(* before every check has passed.                                          *)
Import(b) ==
  /\ running /\ readOnly /\ ~busy
  /\ Decodes(b) /\ b.kind = "logical"
  /\ Recovered /\ Continues(b) /\ Anchored(b)
  /\ 0 < Len(b.records) /\ Fits(BodiesOf(b))
  /\ Agrees(b)
  /\ busy' = TRUE /\ importing' = BodiesOf(b)
  /\ UNCHANGED <<source, acked, log, checkpoint, readOnly, running, options, told, failures>>

(* An empty batch at the right place only tells the caller where it is.    *)
Poll ==
  /\ running /\ readOnly /\ ~busy /\ Recovered
  /\ Fits(<<>>)
  /\ told' = Len(log)
  /\ UNCHANGED <<source, acked, replica, failures>>

AppendRecord ==
  /\ busy /\ importing # <<>>
  /\ log' = Append(log, Head(importing))
  /\ importing' = Tail(importing)
  /\ UNCHANGED <<source, acked, checkpoint, readOnly, busy, running, options, told, failures>>

(* The appended records are replayed and published; the reply may be lost. *)
Finish(heard) ==
  /\ busy /\ importing = <<>>
  /\ busy' = FALSE
  /\ checkpoint' = Len(log)
  /\ told' = IF heard THEN Len(log) ELSE told
  /\ UNCHANGED <<source, acked, log, readOnly, importing, running, options, failures>>

(* The process is lost or the database closed, or a failed write stops the *)
(* coordinator.                                                            *)
Fail ==
  /\ running /\ failures < MaxFailures
  /\ running' = FALSE /\ busy' = FALSE /\ importing' = <<>>
  /\ failures' = failures + 1
  /\ UNCHANGED <<source, acked, log, checkpoint, readOnly, options, told>>

(* Mutant: recovery leaves the checkpoint behind the records it replayed.  *)
RecoverUnpublished == UNCHANGED checkpoint

Recover == checkpoint' = Len(log)

(* Recovery applies no limit to the records it finds.                      *)
Reopen ==
  /\ ~running
  /\ running' = TRUE
  /\ options' \in Options
  /\ Recover
  /\ UNCHANGED <<source, acked, log, readOnly, busy, importing, told, failures>>

-----------------------------------------------------------------------------
(* The source, and the role of the replica.                                *)

Init ==
  /\ source = Baseline /\ acked = Len(Baseline)
  /\ log = Baseline /\ checkpoint = Len(Baseline) /\ readOnly = TRUE
  /\ busy = FALSE /\ importing = <<>> /\ running = TRUE /\ options \in Options
  /\ told = Len(Baseline) /\ failures = 0

Write(body) ==
  /\ Len(source) < MaxSequence
  /\ source' = Append(source, body)
  /\ UNCHANGED <<acked, replica, told, failures>>

(* The caller acknowledges what it knows to be imported.                   *)
Acknowledge ==
  /\ acked < told
  /\ acked' = told
  /\ UNCHANGED <<source, replica, told, failures>>

(* attach, with or without the role of a replica.                          *)
Attach(role) ==
  /\ ~running /\ readOnly # role
  /\ readOnly' = role /\ running' = TRUE
  /\ options' \in Options
  /\ Recover
  /\ UNCHANGED <<source, acked, log, busy, importing, told, failures>>

(* The promoted replica takes a transaction; a read-only one refuses it.   *)
WriteLocal ==
  /\ running /\ ~readOnly /\ Len(log) < MaxSequence
  /\ log' = Append(log, Local) /\ checkpoint' = Len(log')
  /\ UNCHANGED <<source, acked, readOnly, busy, importing, running, options, told, failures>>

(* The caller fetches what follows the end of the replica, in pieces that  *)
(* it takes.                                                               *)
Fetch == \E e \in Len(log) + 1 .. Len(source) : Import(FeedBatch(source, Len(log), e))

Next ==
  \/ \E body \in Bodies : Write(body)
  \/ Acknowledge
  \/ \E b \in Arriving : Import(b)
  \/ Poll
  \/ AppendRecord
  \/ \E heard \in BOOLEAN : Finish(heard)
  \/ Fail
  \/ Reopen
  \/ \E role \in BOOLEAN : Attach(role)
  \/ WriteLocal

(* The coordinator goes on with an import and the application reopens a    *)
(* database that stopped and fetches again.                                *)
Fairness ==
  /\ WF_vars(Fetch) /\ WF_vars(AppendRecord) /\ WF_vars(Finish(TRUE) \/ Finish(FALSE))
  /\ WF_vars(Reopen)

Spec == Init /\ [][Next]_vars /\ Fairness

-----------------------------------------------------------------------------
(* Properties.                                                             *)

(* A replica is the source: whatever arrives, in whatever order and how    *)
(* often, and wherever an import is cut off, the log of a replica is a     *)
(* prefix of the log of its source; records it wrote itself while promoted *)
(* may follow that prefix, and then nothing of the source is added.  What  *)
(* its cursor gives up at the source is on its disk.                       *)
ReplicaIsPrefix ==
  /\ \E n \in 0 .. Len(log) :
       /\ IsPrefix(Prefix(log, n), source)
       /\ \A i \in n + 1 .. Len(log) : log[i] = Local
  /\ acked <= Len(log)

(* The next record of the source is refused even when it comes alone: the  *)
(* source admitted it under limits of its own.                             *)
NextDoesNotFit == Len(log) < Len(source) /\ ~Fits(<<source[Len(log) + 1]>>)

(* A replica whose imports are cut off and repeated catches up with its    *)
(* source, unless it is promoted or went its own way, or import_logical    *)
(* refuses the next record under the limits the replica was opened with    *)
(* last.  Nothing else holds it up: a batch that is refused as a whole can *)
(* be cut into pieces that are not.                                        *)
ReplicaCatchesUp ==
  []<>(log = source \/ ~readOnly \/ ~IsPrefix(log, source) \/ NextDoesNotFit)
=============================================================================
