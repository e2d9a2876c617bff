----------------------------- MODULE Scheduler -----------------------------
(***************************************************************************)
(* The engine of one database directory: clients submit commands, one      *)
(* coordinator thread orders them, appends them to the log in groups, hands *)
(* them to worker threads, installs the outcomes, advances the visible     *)
(* frontier and answers; after a stop or a crash the directory is reopened *)
(* from its checkpoint and its log.                                        *)
(*                                                                         *)
(* Durable state is `log` and `checkpoint`; everything else is memory of   *)
(* the open database and is lost when it goes down.  The log is the        *)
(* sequence of records that recovery reads back (a group is recovered whole *)
(* or not at all); the checkpoint is the published image and its sequence. *)
(***************************************************************************)
EXTENDS Execution

CONSTANTS
  Close,                    \* the request of Database::close
  Workers,                  \* worker slots: a finite set of numbers
  submission_queue_count, assigned_backlog_count, assigned_backlog_bytes,
  preparation_bytes, execution_bytes, execution_window, checkpoint_interval,
  GroupLimit,               \* how many further requests one group looks at
  LogBytes(_),              \* encoded length of a command's record
  Reservation(_),           \* memory reserved for executing a transaction
  Control, Maintenance,     \* control messages; Maintenance is one of them
  ControlSlots,             \* bound: messages held by the control channel
  MaxOpens                  \* bound: how often the directory is opened

ASSUME EngineOptions ==
  /\ Workers \subseteq Nat /\ Workers # {}
  /\ {submission_queue_count, assigned_backlog_count, execution_window,
      checkpoint_interval, GroupLimit} \subseteq Nat \ {0}
  /\ {assigned_backlog_bytes, preparation_bytes, execution_bytes,
      ControlSlots, MaxOpens} \subseteq Nat
  /\ \A c \in Command : LogBytes(c) \in Nat /\ Reservation(c) \in Nat
  /\ Close \notin Command
  /\ Maintenance \in Control

VARIABLES
  log,              \* durable: the records, in sequence order
  checkpoint,       \* durable: the published image and its sequence
  mode,             \* "down", "recovering", "running", "stopping", "corrupt"
  opens,            \* how often the directory has been opened
  reply,            \* what the caller of each command knows
  observed,         \* history: every outcome that has been visible
  queue,            \* the submission channel
  control,          \* the control channel
  barrier,          \* pending_request: taken from the channel, not handled
  head,             \* the command waiting to be registered, and its sequence
  maintenance,      \* a maintenance request is pending
  closing,          \* the submission channel has been closed
  requests,         \* the coordinator still reads the submission channel
  prefer_requests,  \* requests go before control messages
  records,          \* the log group that register is putting together
  spare,            \* how many further requests that group may look at
  entries,          \* schedule.entries: assigned records, by sequence
  frontier,         \* schedule.frontier: the visible prefix
  assigned_bytes, reserved_bytes,
  live,             \* the store's in-memory image
  worker,           \* the worker slots
  poisoned          \* a worker has failed

disk == <<log, checkpoint>>
channels == <<queue, control>>
intake == <<barrier, head, maintenance, closing, requests, prefer_requests>>
group == <<records, spare>>
schedule == <<entries, frontier, assigned_bytes, reserved_bytes>>
pool == <<worker, poisoned>>
vars == <<disk, mode, opens, reply, observed, channels, intake, group,
          schedule, live, pool>>

-----------------------------------------------------------------------------
(* Values.                                                                 *)

Request == Command \cup {Close}

None == [kind |-> "none"]

(* What a caller can know of its command.  Rejected stands for every error *)
(* that says nothing was logged (Rejected, OperationalLimit, a storage     *)
(* error of preparation); Uncertain also for a reply lost in a crash.      *)
Unsent == [kind |-> "unsent"]
Waiting == [kind |-> "waiting"]
Rejected == [kind |-> "rejected"]
Closed == [kind |-> "closed"]
Uncertain == [kind |-> "uncertain"]
Receipt(n, outcome) == [kind |-> "receipt", sequence |-> n, outcome |-> outcome]

(* A worker slot: a job carries the view captured when it was dispatched.  *)
Idle == [kind |-> "idle"]
Job(n, view) == [kind |-> "running", sequence |-> n, view |-> view]
Completion(n, outcome) == [kind |-> "done", sequence |-> n, outcome |-> outcome]
Exited == [kind |-> "exited"]

Prepared(c, n) == [kind |-> "prepared", request |-> c, sequence |-> n]
Pending(r) == [kind |-> "pending", request |-> r]

(* An assigned record: the caller it answers, the unresolved records it    *)
(* waits for, and whether its prepared program is still to be dispatched.  *)
Entry(c, deps) == [request |-> c, dependencies |-> deps, prepared |-> TRUE]

NoEntries == [n \in {} |-> None]

Checkpoint(n, image) == [sequence |-> n, image |-> Through(image, n)]

Answer(cs, r) == [c \in Command |-> IF c \in cs THEN r ELSE reply[c]]

-----------------------------------------------------------------------------
(* Clients.                                                                *)

(* A command holds its queue permit until its group is durable or it is    *)
(* answered; Close needs no permit, only a place in the channel.           *)
Permits ==
    Len(SelectSeq(queue, LAMBDA r : r # Close)) + Len(records)
      + (IF head = None THEN 0 ELSE 1)
      + (IF barrier \in {None, Pending(Close)} THEN 0 ELSE 1)

ChannelHasRoom == Len(queue) < submission_queue_count

(* submit: after close the permit semaphores refuse at once.               *)
Submit(c) ==
  /\ mode = "running"
  /\ reply[c] = Unsent
  /\ IF closing
       THEN reply' = Answer({c}, Closed) /\ UNCHANGED queue
       ELSE /\ Permits < submission_queue_count /\ ChannelHasRoom
            /\ reply' = Answer({c}, Waiting)
            /\ queue' = Append(queue, c)
  /\ UNCHANGED <<disk, mode, opens, observed, control, intake, group,
                 schedule, live, pool>>

SubmitClose ==
  /\ mode = "running"
  /\ ~closing /\ ChannelHasRoom
  /\ Close \notin Range(queue) /\ barrier # Pending(Close)
  /\ queue' = Append(queue, Close)
  /\ UNCHANGED <<disk, mode, opens, reply, observed, control, intake, group,
                 schedule, live, pool>>

(* Snapshots, cursor operations, backups and maintenance.                  *)
SubmitControl(k) ==
  /\ mode = "running"
  /\ Len(control) < ControlSlots
  /\ control' = Append(control, k)
  /\ UNCHANGED <<disk, mode, opens, reply, observed, queue, intake, group,
                 schedule, live, pool>>

-----------------------------------------------------------------------------
(* The worker threads.                                                     *)

Done == {w \in Workers : worker[w].kind = "done"}

(* interpret_prepared, through the view captured at dispatch.              *)
Interpret(w) ==
  /\ mode = "running"
  /\ worker[w].kind = "running"
  /\ LET n == worker[w].sequence
     IN worker' = [worker EXCEPT ![w] =
          Completion(n, Interpretation(entries[n].request, worker[w].view, n))]
  /\ UNCHANGED <<disk, mode, opens, reply, observed, channels, intake, group,
                 schedule, live, poisoned>>

(* A storage error or a panic: the pool is poisoned before the completion  *)
(* is sent, and the thread ends.  A job received under a poisoned pool     *)
(* ends the same way.                                                      *)
WorkerFails(w) ==
  /\ mode = "running"
  /\ worker[w].kind = "running"
  /\ worker' = [worker EXCEPT ![w] = Exited]
  /\ poisoned' = TRUE
  /\ UNCHANGED <<disk, mode, opens, reply, observed, channels, intake, group,
                 schedule, live>>

-----------------------------------------------------------------------------
(* The coordinator.  One iteration of its loop takes the first of these    *)
(* steps that applies: stop when poisoned, complete, run the pending       *)
(* maintenance, shut down, dispatch, register or commit the head, and only *)
(* then take the next request or control message.                          *)

unresolved == {n \in DOMAIN entries : n \notin DOMAIN live}

in_window(n) ==
  /\ n > frontier
  /\ n <= Len(log)
  /\ n - frontier <= execution_window

Dispatchable ==
  {n \in DOMAIN entries : /\ entries[n].prepared
                          /\ entries[n].dependencies = {}
                          /\ in_window(n)}

IdleWorkers == {w \in Workers : worker[w].kind = "idle"}

AtLoopTop == mode = "running" /\ records = <<>>
NothingReported == AtLoopTop /\ ~poisoned /\ Done = {}
MaintenanceDue == maintenance /\ DOMAIN entries = {}
ShutdownDue == ~requests /\ head = None /\ DOMAIN entries = {}
DispatchDue == Dispatchable # {} /\ IdleWorkers # {}
ReadyForHead ==
  NothingReported /\ ~MaintenanceDue /\ ~ShutdownDue /\ ~DispatchDue

Fail == mode' = "stopping"

(* The coordinator sees the poisoned flag, or cannot send to a worker.     *)
StopPoisoned ==
  /\ AtLoopTop
  /\ poisoned
  /\ Fail
  /\ UNCHANGED <<disk, opens, reply, observed, channels, intake, group,
                 schedule, live, pool>>

(* sample cannot read the retention floors, a control operation fails with *)
(* a storage error, or complete cannot install a reported outcome.  What   *)
(* is installed then is not seen any more: only Exit and Crash follow.     *)
StopOnStorageError ==
  /\ AtLoopTop /\ ~poisoned
  /\ Fail
  /\ UNCHANGED <<disk, opens, reply, observed, channels, intake, group,
                 schedule, live, pool>>

(* complete: install every reported outcome, resolve the dependencies on   *)
(* them, and move the frontier over the resolved prefix.                   *)
Reported == {worker[w].sequence : w \in Done}

Freed == [w \in Workers |-> IF w \in Done THEN Idle ELSE worker[w]]

Installed ==
  [n \in DOMAIN live \cup Reported |->
     IF n \in Reported
       THEN worker[CHOOSE w \in Done : worker[w].sequence = n].outcome
       ELSE live[n]]

(* Mutant: dependencies on resolved records are kept.                      *)
ReleasedNever == entries

Released ==
  [n \in DOMAIN entries |->
     [entries[n] EXCEPT !.dependencies = @ \ Reported]]

(* f is where the frontier stops: everything assigned up to f is resolved  *)
(* and f + 1 is not.                                                       *)
Reaches(f) ==
  /\ f >= frontier
  /\ \A n \in frontier + 1 .. f : n \in DOMAIN entries \cap DOMAIN Installed
  /\ f + 1 \notin DOMAIN entries \cap DOMAIN Installed

CheckpointDue(f) == f > frontier /\ f - checkpoint.sequence >= checkpoint_interval

BytesOf(S) == MapThenSumSet(LAMBDA n : LogBytes(entries[n].request), S)
ReservedOf(S) == MapThenSumSet(LAMBDA n : Reservation(entries[n].request), S)

(* Mutant: resolved records above the frontier are answered as well.       *)
RetireEverythingResolved(f) ==
  LET retired == DOMAIN entries \cap DOMAIN Installed
  IN /\ entries' = [n \in DOMAIN entries \ retired |-> Released[n]]
     /\ assigned_bytes' = assigned_bytes - BytesOf(retired)
     /\ reserved_bytes' = reserved_bytes - ReservedOf(retired)
     /\ reply' = [c \in Command |->
          IF \E n \in retired : entries[n].request = c
            THEN LET n == CHOOSE m \in retired : entries[m].request = c
                 IN Receipt(n, Installed[n])
            ELSE reply[c]]

(* The records at or below the frontier leave the schedule, and only then  *)
(* are their callers answered.                                             *)
Retire(f) ==
  LET retired == {n \in DOMAIN entries : n <= f}
  IN /\ entries' = [n \in DOMAIN entries \ retired |-> Released[n]]
     /\ assigned_bytes' = assigned_bytes - BytesOf(retired)
     /\ reserved_bytes' = reserved_bytes - ReservedOf(retired)
     /\ reply' = [c \in Command |->
          IF \E n \in retired : entries[n].request = c
            THEN LET n == CHOOSE m \in retired : entries[m].request = c
                 IN Receipt(n, Installed[n])
            ELSE reply[c]]

(* Mutant: the checkpoint is numbered with the durable end.                *)
PublishEnd(f) == checkpoint' = Checkpoint(Len(log), Installed)

Publish(f) == checkpoint' = Checkpoint(f, Installed)

Complete ==
  /\ AtLoopTop /\ ~poisoned /\ Done # {}
  /\ live' = Installed
  /\ worker' = Freed
  /\ \E f \in frontier .. Len(log) :
       /\ Reaches(f)
       /\ frontier' = f
       /\ Retire(f)
       /\ IF CheckpointDue(f) THEN Publish(f) ELSE UNCHANGED checkpoint
       /\ observed' = [n \in DOMAIN observed \cup 1 .. f |->
                         IF n \in DOMAIN observed THEN observed[n] ELSE Installed[n]]
  /\ UNCHANGED <<log, mode, opens, channels, intake, group, poisoned>>

(* The checkpoint publication fails, before or after the point where the   *)
(* new one is selected.  The frontier has moved, but nobody is answered.   *)
CompleteFails ==
  /\ AtLoopTop /\ ~poisoned /\ Done # {}
  /\ live' = Installed
  /\ worker' = Freed
  /\ entries' = Released
  /\ \E f \in frontier .. Len(log) :
       /\ Reaches(f)
       /\ CheckpointDue(f)
       /\ frontier' = f
       /\ Publish(f) \/ UNCHANGED checkpoint
  /\ Fail
  /\ UNCHANGED <<log, opens, reply, observed, channels, intake, group,
                 assigned_bytes, reserved_bytes, poisoned>>

(* maintenance::run on the drained schedule; here, its new checkpoint.     *)
RunMaintenance ==
  /\ NothingReported
  /\ MaintenanceDue
  /\ \/ /\ maintenance' = FALSE
        /\ checkpoint' = Checkpoint(frontier, live)
        /\ UNCHANGED mode
     \/ /\ maintenance' = FALSE
        /\ checkpoint' \in {checkpoint, Checkpoint(frontier, live)}
        /\ Fail
  /\ UNCHANGED <<log, opens, reply, observed, channels, barrier, head, closing,
                 requests, prefer_requests, group, schedule, live, pool>>

(* Everything accepted has been answered: checkpoint it and leave.         *)
Shutdown ==
  /\ NothingReported
  /\ ~MaintenanceDue
  /\ ShutdownDue
  /\ checkpoint' \in {checkpoint, Checkpoint(frontier, live)}
  /\ Fail
  /\ UNCHANGED <<log, opens, reply, observed, channels, intake, group,
                 schedule, live, pool>>

(* dispatch: every idle worker, in order, takes the first dispatchable     *)
(* record that is left, with the view of this moment.                      *)
InOrder(assigned) ==
  /\ \A w \in DOMAIN assigned, v \in IdleWorkers : v < w => v \in DOMAIN assigned
  /\ \A w, v \in DOMAIN assigned : v < w => assigned[v] < assigned[w]
  /\ \A w \in DOMAIN assigned, n \in Dispatchable :
       n < assigned[w] => n \in Range(assigned)
  /\ DOMAIN assigned = IdleWorkers \/ Range(assigned) = Dispatchable

Dispatch ==
  /\ NothingReported /\ ~MaintenanceDue /\ ~ShutdownDue
  /\ DispatchDue
  /\ \E W \in SUBSET IdleWorkers : \E assigned \in [W -> Dispatchable] :
       /\ InOrder(assigned)
       /\ worker' = [w \in Workers |->
            IF w \in W THEN Job(assigned[w], live) ELSE worker[w]]
       /\ entries' = [n \in DOMAIN entries |->
            IF n \in Range(assigned) THEN [entries[n] EXCEPT !.prepared = FALSE]
                                     ELSE entries[n]]
  /\ UNCHANGED <<disk, mode, opens, reply, observed, channels, intake, group,
                 frontier, assigned_bytes, reserved_bytes, live, poisoned>>

-----------------------------------------------------------------------------
(* register: the prepared head starts a group, further queued transactions *)
(* join it while they fit, and the group is appended as a whole.           *)

(* Mutant: group members are numbered from the durable sequence.           *)
NextSequenceAfterLog == Len(log) + 1

NextSequence == Len(log) + Len(records) + 1

Oversized(c) ==
  \/ LogBytes(c) > assigned_backlog_bytes
  \/ c \in Txn /\ Reservation(c) > execution_bytes
  \/ c \in Txn /\ Reservation(c) > preparation_bytes

(* Mutant: a transaction is logged without checking catalogue and policy.  *)
prepareUnchecked(c, n) == ~Oversized(c)

(* prepare: administrative records are only measured here and are checked  *)
(* when they are committed.                                                *)
prepare(c, n) == ~Oversized(c) /\ (c \in Txn => Preparable(c, live, n))

(* Mutant: the backlog count is compared with <= instead of <.             *)
FitsOffByOne(c) ==
  /\ Cardinality(DOMAIN entries) <= assigned_backlog_count
  /\ LogBytes(c) <= assigned_backlog_bytes - assigned_bytes
  /\ Reservation(c) <= execution_bytes - reserved_bytes

Fits(c) ==
  /\ Cardinality(DOMAIN entries) < assigned_backlog_count
  /\ LogBytes(c) <= assigned_backlog_bytes - assigned_bytes
  /\ Reservation(c) <= execution_bytes - reserved_bytes

(* Mutant: only the newest possible writer is awaited, which may abort.    *)
DependenciesNewest(c) ==
  LET D == {n \in unresolved : overlaps(Writes(entries[n].request), Reads(c))}
  IN {n \in D : \A m \in D : m <= n}

(* Every unresolved possible writer of something c reads, of the same      *)
(* group too.                                                              *)
Dependencies(c) ==
  {n \in unresolved : overlaps(Writes(entries[n].request), Reads(c))}

Assign(c, n) ==
  /\ entries' = [m \in DOMAIN entries \cup {n} |->
       IF m = n THEN Entry(c, Dependencies(c)) ELSE entries[m]]
  /\ assigned_bytes' = assigned_bytes + LogBytes(c)
  /\ reserved_bytes' = reserved_bytes + Reservation(c)
  /\ records' = Append(records, [request |-> c, sequence |-> n])

Register ==
  /\ ReadyForHead
  /\ ~maintenance
  /\ head # None
  /\ head.request \in Txn
  /\ Fits(head.request)
  /\ Assign(head.request, head.sequence)
  /\ spare' = IF Len(queue) < GroupLimit THEN Len(queue) ELSE GroupLimit
  /\ head' = None
  /\ UNCHANGED <<disk, mode, opens, reply, observed, channels, barrier,
                 maintenance, closing, requests, prefer_requests, frontier,
                 live, pool>>

(* The group goes on only while nothing more urgent has been reported.     *)
GroupGoesOn ==
  /\ mode = "running" /\ records # <<>>
  /\ spare > 0 /\ head = None /\ barrier = None /\ queue # <<>>
  /\ control = <<>> /\ Done = {} /\ ~poisoned

JoinGroup ==
  /\ GroupGoesOn
  /\ queue[1] \in Txn
  /\ prepare(queue[1], NextSequence)
  /\ queue' = Tail(queue)
  /\ spare' = spare - 1
  /\ IF Fits(queue[1])
       THEN Assign(queue[1], NextSequence) /\ UNCHANGED head
       ELSE /\ head' = Prepared(queue[1], NextSequence)
            /\ UNCHANGED <<records, entries, assigned_bytes, reserved_bytes>>
  /\ UNCHANGED <<disk, mode, opens, reply, observed, control, barrier,
                 maintenance, closing, requests, prefer_requests, frontier,
                 live, pool>>

RejectInGroup ==
  /\ GroupGoesOn
  /\ queue[1] \in Txn
  /\ ~prepare(queue[1], NextSequence)
  /\ queue' = Tail(queue)
  /\ spare' = spare - 1
  /\ reply' = Answer({queue[1]}, Rejected)
  /\ UNCHANGED <<disk, mode, opens, observed, control, intake, records,
                 schedule, live, pool>>

(* Close and administrative requests end the group and are kept aside.     *)
MeetBarrier ==
  /\ GroupGoesOn
  /\ queue[1] \notin Txn
  /\ barrier' = Pending(queue[1])
  /\ queue' = Tail(queue)
  /\ UNCHANGED <<disk, mode, opens, reply, observed, control, head, maintenance,
                 closing, requests, prefer_requests, group, schedule, live, pool>>

(* append_group numbers the records from the durable sequence on and       *)
(* refuses a group that does not continue it.                              *)
GroupContinuesLog ==
  \A i \in DOMAIN records : records[i].sequence = Len(log) + i

(* Mutant: a group is written at the checkpoint instead of the log's end.  *)
AppendedAtCheckpoint ==
  SubSeq(log, 1, checkpoint.sequence) \o [i \in DOMAIN records |-> records[i].request]

Appended == log \o [i \in DOMAIN records |-> records[i].request]

AppendGroup ==
  /\ mode = "running" /\ records # <<>>
  /\ ~GroupGoesOn
  /\ GroupContinuesLog
  /\ log' = Appended
  /\ records' = <<>>
  /\ spare' = 0
  /\ UNCHANGED <<checkpoint, mode, opens, reply, observed, channels, intake,
                 schedule, live, pool>>

(* The append is refused or fails: the group may be on disk all the same,  *)
(* and is then recovered whole.                                            *)
AppendFails ==
  /\ mode = "running" /\ records # <<>>
  /\ ~GroupGoesOn
  /\ log' = log \/ (GroupContinuesLog /\ log' = Appended)
  /\ Fail
  /\ UNCHANGED <<checkpoint, opens, reply, observed, channels, intake, group,
                 schedule, live, pool>>

(* Preparing the next member meets a storage error: the group built so far *)
(* is dropped without being appended.                                      *)
PrepareFailsInGroup ==
  /\ GroupGoesOn
  /\ queue[1] \in Txn
  /\ queue' = Tail(queue)
  /\ reply' = Answer({queue[1]}, Rejected)
  /\ Fail
  /\ UNCHANGED <<disk, opens, observed, control, intake, group, schedule,
                 live, pool>>

-----------------------------------------------------------------------------
(* An administrative head waits until nothing is assigned.                 *)

AdminDue ==
  /\ ReadyForHead
  /\ ~maintenance
  /\ head # None
  /\ head.request \in Admin
  /\ DOMAIN entries = {}

Drained == Checkpoint(frontier, live)

Executed(c, n) ==
  [m \in DOMAIN live \cup {n} |->
     IF m = n THEN Interpretation(c, live, n) ELSE live[m]]

(* engine::commit, after a checkpoint of everything before it: append,     *)
(* execute, publish, answer.                                               *)
CommitAdmin ==
  /\ AdminDue
  /\ head' = None
  /\ LET c == head.request
         n == Len(log) + 1
     IN IF Preparable(c, live, n)
          THEN /\ log' = Append(log, c)
               /\ live' = Executed(c, n)
               /\ checkpoint' = Checkpoint(n, Executed(c, n))
               /\ frontier' = n
               /\ reply' = Answer({c}, Receipt(n, Executed(c, n)[n]))
               /\ observed' = [m \in DOMAIN observed \cup {n} |->
                    IF m \in DOMAIN observed THEN observed[m] ELSE Executed(c, n)[m]]
          ELSE /\ reply' = Answer({c}, Rejected)
               /\ checkpoint' = Drained
               /\ UNCHANGED <<log, live, frontier, observed>>
  /\ UNCHANGED <<mode, opens, channels, barrier, maintenance, closing, requests,
                 prefer_requests, group, entries, assigned_bytes,
                 reserved_bytes, pool>>

(* The checkpoint before the command cannot be published: the head is      *)
(* still unlogged.                                                         *)
DrainFails ==
  /\ AdminDue
  /\ checkpoint.sequence # frontier
  /\ checkpoint' \in {checkpoint, Drained}
  /\ Fail
  /\ UNCHANGED <<log, opens, reply, observed, channels, intake, group,
                 schedule, live, pool>>

(* Mutant: the failure after the append is reported as a rejection.        *)
CommitAdminFailsAsRejection ==
  /\ AdminDue
  /\ LET c == head.request
     IN /\ Preparable(c, live, Len(log) + 1)
        /\ log' = log \/ log' = Append(log, c)
        /\ checkpoint' = Drained
        /\ reply' = Answer({c}, Rejected)
  /\ head' = None
  /\ Fail
  /\ UNCHANGED <<opens, observed, channels, barrier, maintenance, closing,
                 requests, prefer_requests, group, schedule, live, pool>>

(* The append, the execution or the publication after it fails.            *)
CommitAdminFails ==
  /\ AdminDue
  /\ LET c == head.request
         n == Len(log) + 1
     IN /\ Preparable(c, live, n)
        /\ \/ log' = log /\ checkpoint' = Drained
           \/ /\ log' = Append(log, c)
              /\ checkpoint' \in {Drained, Checkpoint(n, Executed(c, n))}
        /\ reply' = Answer({c}, Uncertain)
  /\ head' = None
  /\ Fail
  /\ UNCHANGED <<opens, observed, channels, barrier, maintenance, closing,
                 requests, prefer_requests, group, schedule, live, pool>>

-----------------------------------------------------------------------------
(* The next event: the request kept aside, or what wait() finds first.     *)

HeadDue == \/ head # None /\ head.request \in Txn /\ Fits(head.request)
           \/ head # None /\ head.request \in Admin /\ DOMAIN entries = {}

ReadyForEvent == ReadyForHead /\ (maintenance \/ ~HeadDue)

ReadsRequests == requests /\ head = None /\ ~maintenance

(* Mutant: the end of a closed channel goes unnoticed.                     *)
RequestPendingNoEnd == ReadsRequests /\ queue # <<>>

(* The submission channel yields something: a request, or its end.         *)
RequestPending == ReadsRequests /\ (queue # <<>> \/ closing)

ControlPending == ~maintenance /\ control # <<>>

(* Mutant: the channel is read while a request is kept aside.              *)
WaitsPastBarrier ==
  /\ ReadyForEvent
  /\ RequestPending
  /\ prefer_requests \/ ~ControlPending

WaitsForRequest ==
  /\ ReadyForEvent /\ barrier = None
  /\ RequestPending
  /\ prefer_requests \/ ~ControlPending

(* The request r is taken; what is left in the channel and kept aside.     *)
Take(r) ==
  \/ /\ ReadyForEvent
     /\ barrier = Pending(r)
     /\ barrier' = None
     /\ UNCHANGED queue
  \/ /\ WaitsForRequest
     /\ queue # <<>>
     /\ r = queue[1]
     /\ queue' = Tail(queue)
     /\ UNCHANGED barrier

TakeCommand(c) ==
  /\ Take(c)
  /\ prefer_requests' = FALSE
  /\ IF prepare(c, Len(log) + 1)
       THEN head' = Prepared(c, Len(log) + 1) /\ UNCHANGED reply
       ELSE reply' = Answer({c}, Rejected) /\ UNCHANGED head
  /\ UNCHANGED <<disk, mode, opens, observed, control, maintenance, closing,
                 requests, group, schedule, live, pool>>

(* Preparation of a transaction meets a storage error.                     *)
TakeFails(c) ==
  /\ c \in Txn
  /\ Take(c)
  /\ prefer_requests' = FALSE
  /\ reply' = Answer({c}, Rejected)
  /\ Fail
  /\ UNCHANGED <<disk, opens, observed, control, head, maintenance, closing,
                 requests, group, schedule, live, pool>>

(* Close stops new submissions; what is queued is still served.            *)
TakeClose ==
  /\ Take(Close)
  /\ closing' = TRUE
  /\ UNCHANGED <<disk, mode, opens, reply, observed, control, head, maintenance,
                 requests, prefer_requests, group, schedule, live, pool>>

(* The closed channel is empty.                                            *)
EndOfRequests ==
  /\ WaitsForRequest
  /\ queue = <<>>
  /\ requests' = FALSE
  /\ UNCHANGED <<disk, mode, opens, reply, observed, channels, barrier, head,
                 maintenance, closing, prefer_requests, group, schedule, live,
                 pool>>

(* Mutant: control messages always go before requests.                     *)
TakeControlFirst ==
  /\ ReadyForEvent /\ barrier = None
  /\ ControlPending
  /\ ~(prefer_requests /\ RequestPending)
  /\ control' = Tail(control)
  /\ maintenance' = (control[1] = Maintenance)
  /\ UNCHANGED <<disk, mode, opens, reply, observed, queue, barrier, head,
                 closing, requests, prefer_requests, group, schedule, live, pool>>

TakeControl ==
  /\ ReadyForEvent /\ barrier = None
  /\ ControlPending
  /\ ~(prefer_requests /\ RequestPending)
  /\ control' = Tail(control)
  /\ maintenance' = (control[1] = Maintenance)
  /\ prefer_requests' = TRUE
  /\ UNCHANGED <<disk, mode, opens, reply, observed, queue, barrier, head,
                 closing, requests, group, schedule, live, pool>>

-----------------------------------------------------------------------------
(* Leaving, crashing and coming back.                                      *)

(* Memory without an open database.                                        *)
Forget ==
  /\ queue' = <<>> /\ control' = <<>>
  /\ barrier' = None /\ head' = None
  /\ maintenance' = FALSE /\ closing' = FALSE
  /\ requests' = TRUE /\ prefer_requests' = FALSE
  /\ records' = <<>> /\ spare' = 0
  /\ entries' = NoEntries /\ assigned_bytes' = 0 /\ reserved_bytes' = 0
  /\ worker' = [w \in Workers |-> Idle] /\ poisoned' = FALSE

Assigned == {entries[n].request : n \in DOMAIN entries}

(* The end of run: assigned records are in doubt; what was not assigned is *)
(* answered Closed.                                                        *)
Exit ==
  /\ mode = "stopping"
  /\ mode' = "down"
  /\ LET refused == Range(queue)
                      \cup (IF head = None THEN {} ELSE {head.request})
                      \cup (IF barrier = None THEN {} ELSE {barrier.request})
     IN reply' = [c \in Command |->
          CASE c \in Assigned -> Uncertain
            [] c \in refused \ Assigned -> Closed
            [] OTHER -> reply[c]]
  /\ Forget
  /\ live' = NoEntries /\ frontier' = 0
  /\ UNCHANGED <<disk, opens, observed>>

(* The process dies, or the coordinator panics: no reply is sent.          *)
Crash ==
  /\ mode \in {"running", "stopping", "recovering"}
  /\ mode' = "down"
  /\ reply' = Answer({c \in Command : reply[c] = Waiting}, Uncertain)
  /\ Forget
  /\ live' = NoEntries /\ frontier' = 0
  /\ UNCHANGED <<disk, opens, observed>>

(* A crash inside append_group: the complete group may have reached the    *)
(* disk.                                                                   *)
CrashInAppend ==
  /\ mode = "running" /\ records # <<>> /\ ~GroupGoesOn /\ GroupContinuesLog
  /\ log' = Appended
  /\ mode' = "down"
  /\ reply' = Answer({c \in Command : reply[c] = Waiting}, Uncertain)
  /\ Forget
  /\ live' = NoEntries /\ frontier' = 0
  /\ UNCHANGED <<checkpoint, opens, observed>>

(* recover: start from the checkpoint's image; the frontier is the local   *)
(* variable `resolved`.                                                    *)
Open ==
  /\ mode = "down"
  /\ opens < MaxOpens
  /\ opens' = opens + 1
  /\ mode' = "recovering"
  /\ live' = checkpoint.image
  /\ frontier' = checkpoint.sequence
  /\ UNCHANGED <<disk, reply, observed, channels, intake, group, entries,
                 assigned_bytes, reserved_bytes, pool>>

(* A record that no longer passes preparation makes the directory corrupt. *)
Replay ==
  /\ mode = "recovering"
  /\ frontier < Len(log)
  /\ LET n == frontier + 1
     IN IF Preparable(log[n], live, n)
          THEN /\ live' = Executed(log[n], n)
               /\ frontier' = n
               /\ UNCHANGED mode
          ELSE mode' = "corrupt" /\ UNCHANGED <<live, frontier>>
  /\ UNCHANGED <<disk, opens, reply, observed, channels, intake, group, entries,
                 assigned_bytes, reserved_bytes, pool>>

(* The whole log is resolved: checkpoint it and start the coordinator.     *)
FinishRecovery ==
  /\ mode = "recovering"
  /\ frontier = Len(log)
  /\ checkpoint' = Checkpoint(frontier, live)
  /\ mode' = "running"
  /\ observed' = [n \in DOMAIN observed \cup 1 .. frontier |->
                    IF n \in DOMAIN observed THEN observed[n] ELSE live[n]]
  /\ UNCHANGED <<log, opens, reply, channels, intake, group, schedule, live,
                 pool>>

(* Recovery cannot read a file, or cannot publish its checkpoint.          *)
RecoveryFails ==
  /\ mode = "recovering"
  /\ mode' = "down"
  /\ \/ UNCHANGED checkpoint
     \/ frontier = Len(log) /\ checkpoint' = Checkpoint(frontier, live)
  /\ live' = NoEntries /\ frontier' = 0
  /\ UNCHANGED <<log, opens, reply, observed, channels, intake, group, entries,
                 assigned_bytes, reserved_bytes, pool>>

-----------------------------------------------------------------------------
Init ==
  /\ log = <<>>
  /\ checkpoint = Checkpoint(0, NoEntries)
  /\ mode = "down" /\ opens = 0
  /\ reply = [c \in Command |-> Unsent]
  /\ observed = NoEntries
  /\ queue = <<>> /\ control = <<>>
  /\ barrier = None /\ head = None
  /\ maintenance = FALSE /\ closing = FALSE
  /\ requests = TRUE /\ prefer_requests = FALSE
  /\ records = <<>> /\ spare = 0
  /\ entries = NoEntries /\ frontier = 0
  /\ assigned_bytes = 0 /\ reserved_bytes = 0
  /\ live = NoEntries
  /\ worker = [w \in Workers |-> Idle] /\ poisoned = FALSE

Clients ==
  \/ \E c \in Command : Submit(c)
  \/ SubmitClose
  \/ \E k \in Control : SubmitControl(k)

Worker(w) == Interpret(w) \/ WorkerFails(w)

Coordinator ==
  \/ StopPoisoned \/ StopOnStorageError
  \/ Complete \/ CompleteFails
  \/ RunMaintenance \/ Shutdown \/ Dispatch
  \/ Register \/ JoinGroup \/ RejectInGroup \/ MeetBarrier
  \/ AppendGroup \/ AppendFails \/ PrepareFailsInGroup
  \/ CommitAdmin \/ DrainFails \/ CommitAdminFails
  \/ \E c \in Command : TakeCommand(c) \/ TakeFails(c)
  \/ TakeClose \/ EndOfRequests \/ TakeControl
  \/ Exit

Recovery == Open \/ Replay \/ FinishRecovery \/ RecoveryFails

Next == \/ Clients
        \/ \E w \in Workers : Worker(w)
        \/ Coordinator
        \/ Recovery
        \/ Crash \/ CrashInAppend

Spec == Init /\ [][Next]_vars

(* The coordinator thread is never preempted forever, and every program    *)
(* ends: instructions only branch forwards.  Nothing is assumed of clients *)
(* and nothing requires that a directory be reopened.                      *)
Fairness == WF_vars(Coordinator) /\ \A w \in Workers : WF_vars(Worker(w))

FairSpec == Spec /\ Fairness

-----------------------------------------------------------------------------
(* Properties.                                                             *)

IsImage(f) ==
  /\ f = [n \in DOMAIN f |-> f[n]]
  /\ DOMAIN f \subseteq 1 .. Len(log)
  /\ \A n \in DOMAIN f : f[n] \in Outcome

Replies ==
  {Unsent, Waiting, Rejected, Closed, Uncertain}
    \cup [kind : {"receipt"}, sequence : Nat, outcome : Outcome]

IsJob(j) ==
  \/ j \in {Idle, Exited}
  \/ /\ j.kind = "running"
     /\ j = Job(j.sequence, j.view)
     /\ j.sequence \in DOMAIN entries
     /\ IsImage(j.view)
  \/ /\ j.kind = "done"
     /\ j = Completion(j.sequence, j.outcome)
     /\ j.sequence \in DOMAIN entries
     /\ j.outcome \in Outcome

StoreTypeOK ==
  /\ log \in Seq(Command)
  /\ checkpoint = [sequence |-> checkpoint.sequence, image |-> checkpoint.image]
  /\ checkpoint.sequence \in 0 .. Len(log) /\ IsImage(checkpoint.image)
  /\ IsImage(observed)
  /\ IsImage(live) /\ frontier \in 0 .. Len(log)

CallerTypeOK ==
  /\ mode \in {"down", "recovering", "running", "stopping", "corrupt"}
  /\ opens \in 0 .. MaxOpens
  /\ reply \in [Command -> Replies]

IntakeTypeOK ==
  /\ queue \in Seq(Request)
  /\ control \in Seq(Control)
  /\ barrier = None \/ \E r \in Request : barrier = Pending(r)
  /\ head = None \/ (head.request \in Command /\ head.sequence \in Nat
                     /\ head = Prepared(head.request, head.sequence))
  /\ {maintenance, closing, requests, prefer_requests, poisoned} \subseteq BOOLEAN

ScheduleTypeOK ==
  /\ records \in Seq([request : Txn, sequence : Nat])
  /\ spare \in 0 .. GroupLimit
  /\ entries \in [DOMAIN entries ->
       [request : Txn, dependencies : SUBSET Nat, prepared : BOOLEAN]]
  /\ DOMAIN entries \subseteq 1 .. Len(log) + Len(records)
  /\ worker = [w \in Workers |-> worker[w]] /\ \A w \in Workers : IsJob(worker[w])

(* Every variable holds a value of the shape the code gives it: images and *)
(* the frontier stay inside the log, and a busy worker holds an assigned   *)
(* record.                                                                 *)
TypeOK == StoreTypeOK /\ CallerTypeOK /\ IntakeTypeOK /\ ScheduleTypeOK

(* Serial equivalence: every outcome anyone has seen is the outcome of     *)
(* running the durable log one record at a time, whatever the workers did  *)
(* at the same time and however often the database was stopped.            *)
SerialEquivalence ==
  \A n \in DOMAIN observed :
    observed[n] = Interpretation(log[n], observed, n)

(* A receipt is the serial outcome of its own record, and stays so: the    *)
(* record is in the log at the sequence the receipt names.                 *)
ReceiptsAreDurable ==
  \A c \in Command : reply[c].kind = "receipt" =>
    LET n == reply[c].sequence
    IN /\ n \in DOMAIN observed
       /\ log[n] = c
       /\ reply[c].outcome = observed[n]

(* What a running database shows at its frontier is what was shown before: *)
(* replay and reinstallation never change a visible outcome.               *)
VisibleStateIsStable ==
  mode = "running" =>
    /\ DOMAIN observed = 1 .. frontier
    /\ \A n \in 1 .. frontier : live[n] = observed[n]

(* A definite refusal is definite: a command answered with Rejected or     *)
(* Closed by prepare, register or the exit of run is not in the log and    *)
(* never gets there, whatever append and commit did when they failed.  Any *)
(* other is logged at most once, although it may be kept aside, or wait as *)
(* the head, while groups are formed and appended around it.               *)
RefusedIsNotLogged ==
  /\ \A c \in Command : reply[c] \in {Unsent, Rejected, Closed} => c \notin Range(log)
  /\ \A i, j \in DOMAIN log : log[i] = log[j] => i = j

(* Every log that a crash can leave behind passes replay: each record is   *)
(* admissible under the catalogue and policy before it.                    *)
ReplayAdmitsLog == mode # "corrupt"

(* A published checkpoint holds the outcomes of exactly its prefix.        *)
CheckpointIsPrefix ==
  /\ DOMAIN checkpoint.image = 1 .. checkpoint.sequence
  /\ \A n \in DOMAIN checkpoint.image :
       checkpoint.image[n] = Interpretation(log[n], checkpoint.image, n)
  /\ \A n \in DOMAIN checkpoint.image \cap DOMAIN observed :
       checkpoint.image[n] = observed[n]

(* A group always continues the log, also when its first member was        *)
(* prepared in an earlier iteration: append_group never refuses it.        *)
GroupsContinueLog ==
  mode = "running" =>
    /\ GroupContinuesLog
    /\ head # None /\ head.request \in Txn => head.sequence = NextSequence

(* The two byte counters are the sums over the assigned records and stay   *)
(* within their limits, so the unsigned subtractions never wrap.           *)
BudgetsHold ==
  mode = "running" =>
    /\ assigned_bytes = BytesOf(DOMAIN entries)
    /\ reserved_bytes = ReservedOf(DOMAIN entries)
    /\ assigned_bytes <= assigned_backlog_bytes
    /\ reserved_bytes <= execution_bytes
    /\ Cardinality(DOMAIN entries) <= assigned_backlog_count

(* Somebody works or can start to work on the oldest unresolved record, so *)
(* the coordinator never waits for completions that cannot come.           *)
NobodyWaitsForNobody ==
  mode = "running" /\ ~poisoned /\ records = <<>> /\ DOMAIN entries # {} =>
    \/ \E w \in Workers : worker[w].kind \in {"running", "done"}
    \/ DispatchDue

(* The log is append-only and a checkpoint never goes back.                *)
DiskOnlyGrows ==
  [][/\ Len(log) <= Len(log') /\ SubSeq(log', 1, Len(log)) = log
     /\ checkpoint.sequence <= checkpoint'.sequence]_vars

(* What has been accepted, in the order in which it takes effect: the log, *)
(* the group that is not appended yet, the head, the request kept aside    *)
(* and the submission channel.                                             *)
Accepted ==
  log \o (IF mode = "running" THEN [i \in DOMAIN records |-> records[i].request] ELSE <<>>)
      \o (IF head = None THEN <<>> ELSE <<head.request>>)
      \o (IF barrier = None THEN <<>> ELSE <<barrier.request>>)
      \o queue

Common(s, t) == SelectSeq(s, LAMBDA r : r \in Range(t))

(* Nobody is overtaken or taken twice: of two requests, the one that       *)
(* entered the channel first takes effect first, although register keeps   *)
(* the member that does not fit and the administrative or close request    *)
(* that ends a group, run handles completions and control messages         *)
(* meanwhile, and a failure or a stop cuts a group off.                    *)
NobodyIsOvertaken ==
  [][LET before == Accepted
         after == Accepted'
     IN Common(before, after) = Common(after, before)]_vars

(* Every caller of submit is answered, however many control messages       *)
(* arrive: wait alternates, and a full backlog drains.                     *)
EveryCallerIsAnswered ==
  \A c \in Command : reply[c] = Waiting ~> reply[c] # Waiting

(* Database::close ends the database although a head, a request kept       *)
(* aside, maintenance or unfinished records are pending.                   *)
CloseEnds == closing ~> mode = "down"

Serial == INSTANCE SerialDB

(* The engine implements the serial database: what run, complete, commit   *)
(* and recover do to the log, to what is visible and to the callers is     *)
(* what one command after the other would have done.                       *)
ImplementsSerialDB == Serial!Spec
=============================================================================
