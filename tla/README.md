# blop-db in TLA+

blop-db is an embedded transactional database. Every mutation is a small
deterministic program. One coordinator thread puts the programs into one order,
appends them to a write-ahead log in groups, runs them on worker threads as soon
as the records they can observe are resolved, and answers the callers when their
records are visible. After a stop or a crash a directory is opened from its last
published checkpoint, and the rest of the log is replayed.

This directory models the engine, its storage, its transaction machine and what
is built on them (snapshots, feeds, backups, replicas), checks the models with
TLC, and proves the guarantees of the engine, of publication, of the node cache, of
reused validations, of retention and of replicas with TLAPS. `PROJECT.json` maps every
definition to the lines it models and lists runs, mutants, hazards, findings and theorems.

## 1. The system

| Component | Source | State | Operations | Modelled in |
|---|---|---|---|---|
| Coordinator, worker pool | `database/scheduler.rs`, `workers.rs` | schedule (entries, frontier, byte counters), head, pending request, pending maintenance, the group being formed, worker slots, poisoned flag | `run`, `register`, `dispatch`, `complete`, `wait`, worker loop, exit | `Scheduler` |
| Commit and recovery engine | `database/engine.rs`, `record.rs` | log end, checkpoint | `commit`, `append_batch`, `publish_checkpoint`, `recover` | `Scheduler`, `Records`, `History` |
| Public handle, admission | `database/mod.rs`, `budget.rs` | channels, permits, replies | `submit`, `close`, `start`, control messages | `Scheduler` |
| Access manifests | `vm/access.rs` | none | `overlap`, normalisation, codec, coverage | `Execution`, `Manifest` |
| Access analysis | `vm/access_analysis.rs` | none | derive a manifest from a program | `Program`, `Runtime` |
| Transaction VM | `vm/` | registers, private writes, usage | decode, verify, interpret, charge | `Program`, `Verifier`, `Runtime`, `Resources`, `Values`, `Encoding` |
| Versioned state | `storage/mvcc.rs`, `vm/database.rs` | versions per key | read and scan below a sequence, merge, install | `VersionedState`, `Execution` |
| History validation | `vm/history.rs` | none | validate a checkpoint against its log | `History` |
| Write-ahead log | `storage/wal.rs`, `storage/store/wal.rs` | segment files, rotation flag, poisoned flag | `append_group`, `recover_tail`, `scan_tail`, `allocate` | `Wal`, `LogReuse` |
| Store, publication | `storage/store.rs`, `metadata.rs`, `checkpoint.rs`, `platform.rs` | CURRENT, generations, page files, selected manifest, reused validations | `create`, `open_directory`, `publish_files`, `adopt` | `Publication`, `CheckpointReuse`, `LogReuse`, `Records` |
| Page file, trees | `storage/page.rs`, `page/cache.rs`, `tree.rs` | pages, node cache | copy-on-write put and delete, seek, scan, validate | `Tree`, `PageCodec`, `PageCache` |
| Snapshots, cursors, feed | `database/snapshot.rs`, `cursor.rs`, `feed.rs` | leases, durable claims | pin, checkout, acknowledge, release, read | `Retention` |
| Maintenance | `database/maintenance.rs`, `storage/maintenance.rs` | floors, obsolete files | collect, compact, retire, reclaim | `Scheduler` (request), `Retention` (floors), `History` (rows), `Wal` (segments), `Publication` (page files) |
| Backup, attach | `storage/backup.rs` | copied prefix, namespace, role, marker | capture, copy, attach | `Publication`, `Retention` |
| Replicas, exchange | `database/replica.rs`, `exchange.rs` | imported prefix | export, verify, import | `Replica`, `Records` |
| Limits, bindings | `limits.rs` and others | none | conversions | `Records` (policies only) |
| `tx!` compiler | `crates/blop-db-macros` | none | compile-time translation | not modelled |

How the parts interact. Callers send commands into a bounded channel and wait on
a one-shot reply; snapshots, cursors, maintenance and backups use a second
control channel. The coordinator owns the store. It prepares a command under the
catalogue and policy of the moment, forms a group of records, appends and
flushes it, and only then hands a program with a captured view to an idle worker.
Workers return outcomes through a completion channel. The coordinator installs
them, advances the frontier over the contiguous resolved prefix, publishes a
checkpoint every `checkpoint_interval` records, and answers. Administrative
commands are barriers: they drain the schedule and run alone.

What is hard here:

- interleavings of workers, coordinator and callers: outcomes arrive in any
  order, writers may abort, groups are formed while others execute;
- state that is captured and used later: views of jobs, the metadata a command
  was prepared under, the sequence of a head that did not fit into its group;
- crashes and failures between append, execution, checkpoint and reply, and
  between any two writes or flushes of the log and of recovery itself;
- answers that must be definite or admit doubt: a failed append may have logged;
- limits: byte budgets with unsigned subtraction, full channels, full backlogs;
- progress: fairness between control messages and requests, close with
  everything pending, a coordinator that blocks for completions.

## 2. Modules

| Module | Contents |
|---|---|
| `Execution` | commands, scopes, `overlap`, versions, what a record reads through an image, the assumptions on programs |
| `SerialDB` | abstract specification: one durable order, a visible prefix with serial outcomes, true answers |
| `Scheduler` | coordinator, workers, callers, commit, checkpoint, crash and replay; its refinement of `SerialDB` |
| `AtomicLog` | abstract specification: a log of groups that are kept whole or not at all |
| `Wal` | segments, appends, tail recovery, publication and maintenance as the log sees them, crashes and power loss |
| `Publication` | the file steps of creation, publication, compaction, reclamation, backup copies and attachment, with faults between any two |
| `Tree` | copy-on-write B+ tree edits, seeks and scans against the map it stands for |
| `PageCodec` | page format and overflow chains, read back after single fields are forged |
| `PageCache` | the shared cache of decoded nodes under readers of different prefixes |
| `CheckpointReuse`, `LogReuse` | validation results that a live owner carries over from one publication to the next |
| `Values`, `Encoding` | types, values, descriptors, canonical keys and their codecs |
| `Records` | stored forms: log bodies, outcomes, catalogue versions, policies, genesis, CURRENT, tokens, watermarks |
| `Manifest` | access declarations: normalisation, codec, coverage, overlap |
| `Program`, `Verifier` | operations, decoding, the one-pass verifier, access analysis; the verifier against all paths |
| `Runtime`, `Resources` | the machine, one instruction a step, with its charges; the memory reserved for a program |
| `VersionedState` | point reads and scans by encoded key and sequence, merged with private writes |
| `History` | catalogue, policy, state and outcome trees, collection, and the validation of what is left |
| `Retention` | snapshots, durable cursors, feeds, floors, and consumers that lose processes and replies |
| `Replica` | import of logical batches, promotion and return |
| `MC...` | one module of instances per run; `MCPages`, `MCState` and `MCFormats` put several small machines side by side, one per behaviour |
| `SchedulerProofs` | lemmas on scopes, images and sound prefixes; the inductive invariant of `Scheduler` and its safety theorems; where a command is, definite answers, the refinement of `SerialDB`; replay admits the log; the coordinator never waits for nothing; its counters are exact |
| `Sums` | sums over finite sets, for any order of the elements |
| `ReplicaProofs`, `RetentionProofs` | inductive invariants of `Replica` and `Retention` |
| `PublicationProofs` | the inductive invariant of `Publication` and its three safety theorems |
| `CheckpointReuseProofs`, `LogReuseProofs`, `PageCacheProofs` | inductive invariants of `CheckpointReuse`, `LogReuse` and `PageCache` |

Definitions whose comment starts with "Mutant:" are wrong variants of the
definition below them. They are used by no specification; replacing the
definition by its mutant must make TLC violate the property that
`PROJECT.json` pairs it with.

### Execution

A command is one call: two calls with the same program are two members of
`Txn`. A program is the constant operator `Run` from states to outcomes; an
outcome is a success with one effect per written location, or an abort without
effects. Two assumptions carry what `access::validate` enforces: an outcome
depends only on the declared reads and on metadata (`RunReadsItsScopes`), and
touches only the declared writes (`RunWritesItsScopes`). An image maps resolved
sequences to outcomes, which is what the version trees hold; `Before(image, n)`
is the read of the newest version below `n`. The catalogue and the limit policy
are one location, `Metadata`, written only by administrative records.

### Scheduler

Durable state is `log` and `checkpoint`. Everything else is the memory of one
open database, and `Exit`, `Crash` and `CrashInAppend` forget it. The iteration
of `run` is split where the code can be interleaved with workers or callers, in
the order of the code: poisoned check, storage errors, one completion,
maintenance when drained, shutdown, dispatch, register, administrative head, and
`wait`. Guards such as `AtLoopTop`, `NothingReported`, `ReadyForHead` and
`ReadyForEvent` are the conditions of the branches passed before. `register` is
a loop with a step per member (`Register`, `JoinGroup`, `RejectInGroup`,
`MeetBarrier`) that ends in `AppendGroup` or one of its failures. `complete` is
one action: it installs, releases dependencies, advances the frontier, publishes
a checkpoint when due, and retires and answers the visible entries. Recovery is
`Open`, one `Replay` per record, and `FinishRecovery`.

The answer of a command is `reply[c]`. `Rejected` stands for every error that
says that nothing was logged, `Uncertain` for every error that does not, and for
a reply lost in a crash. `observed` is a history variable: all outcomes that have
ever been visible.

Abstractions. A record is its command, and record bytes are only counted.
Publication is one step that fails before or after its point of selection (`Wal`
and `Publication` look inside it). Byte permits, sampling, status reports and the
effects of control messages other than maintenance are left out. Dropping the
last handle behaves like `Close` without a caller. `Import` and read-only
replicas are the subject of `Replica`. Completions and the poisoned flag are polled
atomically with the coordinator's step; a worker that reports between the poll
and the step commutes with it.

### Wal

A file is a sequence of items, one per write of `append_group`: segment header,
group header, records, trailer (with its padding). `Junk` is an item of the
right length that does not validate; `Cut` is one that is physically short. A
digest is the sequence of records it stands for, since every record carries its
predecessor's digest; a descriptor therefore holds the log before and through a
segment. `files` is what a process sees, `data` and `named` are what is flushed
(contents and directory entries), `selected` is the manifest that CURRENT
selects, and `reverts` the one it may select again while its replacement is not
flushed.

`Recovered` is `recover_tail` as a function: validate the selected prefixes,
extend the last segment (`ExtendLast`), consider every later file in order of
its number (`Consider`), and collect what has to be cut and flushed. Cutting and
flushing are separate actions, so recovery can be interrupted between them.
`Maintain` is maintenance of a drained store: publish, retire a prefix of the
segments, delete what is not listed unless a reader pins the directory.

The environment. A process crash loses nothing that was written, except that
the write in progress may be short. A power loss keeps flushed contents and
flushed entries; of unflushed contents it keeps a part, possibly cut or damaged;
unflushed entries may be missing, and deleted ones may come back. With
`OrderedMetadata` a truncation reaches the disk before files created later, as
on file systems with an ordered metadata journal; without it only the three
guarantees of DESIGN.md G.3 hold. A successful flush is durable, and a file name
that is deleted and created again does not bring back the old contents.

### Publication

The directory is kept twice: as a process sees it (`dir`), and as a power loss
may leave it (`past`: every value an entry had since the last flush of the
directory). A job is the list of file steps that `publish_files` and the
operations ending in it perform; an I/O error, a crash or a power loss may come
between any two. Unflushed contents may tear, and pages beyond the flushed ones
are lost. A page is the sequence whose state its root holds. A handover that
compacts writes a new page file; one that does not appends the page of what was
collected to the present file, if anything was (`Collects`).

### Trees, pages and reuse

Pages are written once, so a root of `Tree` is its whole tree and sizes are
counted in units that keep the ratio of cell to page. `PageCodec` keeps fields
and offsets. In `PageCache` the lookup, the read and the insertion of a node are
separate steps, as the lock is not held between them; of the clock values of a
shard only their order is kept. `CheckpointReuse` and
`LogReuse` compare what an owner publishes on the strength of an earlier
validation with what a full validation would accept. A publication that fails may
have renamed CURRENT already: `current` is what reopening finds, `manifest` what
the poisoned owner still holds. A handover that compacts nothing keeps the roots
that collection did not touch, and the views of the file. An owner whose last
segment has grown behind its back refuses to append to it (`RefuseTail`), and a
reopened one begins a new segment.

### The machine and its formats

Bytes have a small base and integers two of them, so that order and sign matter
as they do with eight bytes. `Runtime` starts from any program, verified or not;
`Program` decodes, verifies and analyses it as admission does, against every
claim that decoding compares, the bytes of the program and of its arguments among
them (counted, not written out). Decoders are
called on every short input, on forged pages, and on encodings that are damaged,
cut or extended.

### History, Retention, Replica

`History` executes records one after the other, which `Scheduler` justifies, and
keeps the four trees and what collection removes from them. `Retention` keeps of
a record only its key; its consumers build rows from a snapshot and its feed and
may lose the process or a reply anywhere, also the reply that would have named
their new registration (`LostRegistration`). Two rules of DESIGN.md G.5 are
part of the model: a consumer goes on from a restored image only if the image
covers its watermark, and the source is retired before its image is attached.
`Replica` lets damaged, foreign, repeated and reordered batches arrive. Records
have sizes, and each opening chooses the limits of the replica: an import is
refused for the submission queue (number and bytes), the assigned backlog (number
and bytes), preparation bytes and execution bytes, before anything changes. It leaves
out two independent writable primaries that share an identity, which DESIGN.md
rules out: a foreign history differs from the source in a record of its own.

## 3. Runs

| Run | Bounds | What it shows |
|---|---|---|
| `engine` | 3 conflicting transactions, 1 policy change, 2 workers, backlog 3, 2 openings, checkpoints every 2 records | visible outcomes are serial and stay; refusals are definite and nothing is logged twice; replay accepts every log a crash leaves; groups continue the log; receipts name durable records; checkpoints are prefixes; the disk only grows; `Scheduler` implements `SerialDB` |
| `liveness` | the same commands, backlog 2, one control slot, 1 opening, fairness | budgets hold; the coordinator never blocks for nothing; of two requests the one accepted first takes effect first (`NobodyIsOvertaken`), also when a member did not fit or a barrier was kept aside; every caller is answered; close ends the database |
| `wal` | 3 appends and 4 openings, or groups of 1 and 2 with 2 appends and 3 openings, both with power loss; groups of 1 and 2 with 3 appends and 4 openings under `Strict` with process crashes; 1 maintenance, ordered metadata | no crash makes a directory unopenable; reported records are flushed at every moment; `Wal` implements `AtomicLog` |
| `wal_truncation` | the first case without maintenance and without ordered metadata | violation, see section 6 |
| `publication` | a new directory with 2 sequences, 4 generations, 2 page files, 2 faults, 1 pin; one with handovers that collect without compacting; a copy with 3 faults and 2 attachments | CURRENT names a complete generation, not older than the last reported; pinned files stay; an interrupted attachment is finished or marked |
| `pages` | trees of 9 keys with nodes of two cells and of 6 keys with inline and overflow values; 4 pages and 2 readers; logs of 2 or 3 records over 3 or 2 publications | trees validate and are maps; the cache is transparent; a reused log validation decides as a full one |
| `formats` | 2 forged fields; inputs up to 6 bytes; 3 declarations; programs of 5 instructions; 1 change per stored form | what is written reads back; what is accepted is canonical; manifests and the verifier are exact |
| `state` | 3 keys that extend one another, 2 versions each, private writes; 2 trees, 2 sequences and 3 edits | reads by byte order are reads by key and sequence; reused validations never let CURRENT name a checkpoint that a full scan refuses, after a failed publication or handover either |
| `runtime` | programs with 3 accesses or branches, shorter ones under tight claims, every single pure operation | usage is exact; outcomes validate; the manifest decides the outcome; the reservation covers it |
| `history` | 5 records from creations, renames, drops, policies and transactions | validation never refuses what the engine left; nothing above the floor is lost; every single loss above it is met |
| `retention` | 1 consumer, 2 kinds of cursor, 2 keys, 2 records, 2 namespaces | claims are kept; derived data is the source's |
| `replica` | image of 1 record, 3 settings of the limits, records of 2 sizes, 5 sequences, 3 failures, fairness | a replica is a prefix of its source; it catches up, unless the next record alone exceeds its limits |

Why the bounds are enough. The workload of `MCScheduler` has a read-modify-write
(`bump`), a writer that can abort and deletes (`guard`), a whole-table reader
that copies (`copy`) and a policy change that makes `copy` inadmissible: every
kind of overlap, an abort between two writers, a tombstone, and a stale
preparation occur. With two workers a later record can finish first; with three
transactions a group can hold a conflict inside itself and across groups. Two
openings are one crash and one recovery of everything that the first life can
leave. For the log, three appends are needed for a torn tail in a listed segment
followed by a new segment, and four openings for a crash in the recovery of that
tail followed by another one. Two faults reach a publication that fails after
one that failed; three reach an attachment that is interrupted, repeated with
the other role and interrupted again. Nine keys make and
collapse three levels of two-cell nodes. Two records and two namespaces let a
consumer be restored with a stale token and meet a reused registration number.
The theorems of section 4 remove the bounds of `engine`, `publication`,
`retention`, `replica` and of machines of `pages` and `state` for the properties they state. The mutants show that each property can
fail inside its bounds. Two claims reach further in the proof than in the run:
in `liveness` the number of records is the limit that binds, so that the byte
counters of `BudgetsHold` never come to their limits there, and with the one
consumer of `retention` nobody else's registration can be touched. Both are
covered by their theorems.

What catching up does not promise. A source admits a record under its own limits;
a replica that was opened with smaller ones refuses it however often it comes,
and keeps its log as it is. The default limits are enough for that: a submission
is charged several times its bytes, so that a command of some ten megabytes does
not pass a submission queue of 64 MiB. The repository's README asks to raise the
budget or to reduce the request. `ReplicaCatchesUp` therefore excepts a replica
whose next record does not fit alone (`NextDoesNotFit`) and holds again once it
is opened with larger limits. A batch that does not fit as a whole is no such
case: the feed can be read in smaller pieces.

`CHECK_DEADLOCK FALSE` is set where the bounds end every behaviour or a closed
database stops. That the engine does not get stuck earlier is
`NobodyWaitsForNobody`, `EveryCallerIsAnswered` and `CloseEnds`.

Fairness. `liveness` assumes weak fairness of the coordinator's steps and of each
worker. Both are operating-system threads that the scheduler runs again; programs
branch only forward, so interpretation ends; blocking waits are guards. Nothing
is assumed about callers, about control messages (they may arrive for ever) or
about failures (none has to happen). `replica` assumes weak fairness of the
coordinator's import steps and of an application that fetches again and reopens a
database that stopped; failures are bounded. Without such an application nothing
could be said, since the code imports only what it is given.

## 4. Theorems

They hold for every set of commands, workers, consumers, keys and batches, all
limits, and any number of openings, generations, page files, attachments,
failures and records.

| Theorem | Module | Statement |
|---|---|---|
| `Invariance`, `TypeCorrectness` | `SchedulerProofs` | `IInv` is invariant, and with it `TypeOK` |
| `Serializability` | `SchedulerProofs` | `SerialEquivalence`: visible outcomes are those of the serial execution of the log |
| `StableVisibility` | `SchedulerProofs` | `VisibleStateIsStable` |
| `CheckpointCorrectness` | `SchedulerProofs` | `CheckpointIsPrefix` |
| `GroupNumbering` | `SchedulerProofs` | `GroupsContinueLog` |
| `DurableGrowth` | `SchedulerProofs` | `DiskOnlyGrows` |
| `DurableReceipts` | `SchedulerProofs` | `ReceiptsAreDurable` |
| `Places` | `SchedulerProofs` | every command is in one place at most, exactly while its caller waits |
| `DefiniteRefusals` | `SchedulerProofs` | `RefusedIsNotLogged` |
| `NobodyIsForgotten` | `SchedulerProofs` | nobody waits for a database that is not open |
| `SerialRefinement` | `SchedulerProofs` | `ImplementsSerialDB` |
| `ReplaySucceeds` | `SchedulerProofs` | `ReplayAdmitsLog` |
| `SomebodyWorks` | `SchedulerProofs` | `NobodyWaitsForNobody` |
| `BudgetsAreKept` | `SchedulerProofs` | `BudgetsHold` |
| `ReplicaConvergence` | `ReplicaProofs` | `ReplicaIsPrefix` |
| `ClaimsKept` | `RetentionProofs` | `ClaimsAreKept` |
| `DerivedData` | `RetentionProofs` | `DerivedIsSource` |
| `PublicationInductive` | `PublicationProofs` | `PublicationInv` is invariant |
| `SelectionCompleteness` | `PublicationProofs` | `SelectionIsComplete` |
| `PinnedFilesKept` | `PublicationProofs` | `PinnedFilesStay` |
| `AttachmentSafety` | `PublicationProofs` | `AttachedOrMarked` |
| `CheckpointsAreValid` | `CheckpointReuseProofs` | `PublishedIsValid` |
| `LogShortcuts` | `LogReuseProofs` | `ShortcutIsSound` |
| `CacheTransparency` | `PageCacheProofs` | `CacheIsTransparent` |

Assumptions. `Execution` and `Scheduler`: `LocationsDiffer`, `ScopesDeclared`,
`RunHasOutcome`, `AdmitsIsBoolean`, `RunReadsItsScopes`, `RunWritesItsScopes`,
`EngineOptions`. The two on scopes are what `access::validate` enforces, and
`runtime` checks them of the machine (`ManifestDecides`). `Replica`:
`ReplicaAssumption` (the image is not empty and holds commands of the source,
limits are positive and sizes are numbers).
`Retention`: `RetentionAssumption` (keys are ordered and a scan begins before
them). `Publication`: `PublicationBounds` (the bounds of a scenario are numbers,
and there is room for one generation, page file and page; a directory collects or
does not). `LogReuse`:
`LogScenarios` (its bounds are numbers). TLC evaluates all of
them in the runs. Two theorems state their hypotheses themselves:
`CheckpointsAreValid` that `MaxSequence` is a number, and `CacheTransparency`
`CacheShape`, the compile-time shape of the cache (positive numbers of shards,
slots and ways, ways dividing slots, as `page/cache.rs` fixes them) and of the
pages that are written.

### The engine

Serial equivalence is not inductive: it speaks of what is visible, and what
becomes visible next was computed earlier, from a view captured earlier still.
`IInv` says what holds in between:

- `ObservedInv`, `CheckpointInv`: the visible and the published outcomes are
  sound prefixes, that is, each outcome is the interpretation of its record on
  the outcomes below it;
- `LiveInv`: the store's image is sound and contains the visible prefix;
- `ScheduleInv`: the entries are exactly the sequences from the frontier to the
  last assigned one, and the group being formed is their tail;
- `DependencyInv`: every unresolved earlier entry whose writes meet an entry's
  reads is among its dependencies;
- `WorkerInv`: a dispatched record has no unresolved earlier writer of anything
  it reads, so its result is final whatever is installed next;
- `RestInv`: a directory that is not open has no memory.

The central lemma (`AddedOutcomesKeepReads`) says that
installing outcomes of records whose writes do not meet the reads of `n` changes
nothing that `n` reads; it rests on `overlap` being exact for the addresses that
scopes cover. There is one lemma per action, or per group of actions with the
same argument, and `Invariance` combines them.

Answers (`PlaceInv`). A command is in the channel, aside, the head, assigned or
nowhere; its caller waits exactly while it is somewhere; what is unassigned or
refused is not in the log; an assigned command is logged nowhere but at its
sequence. Every action moves at most one command or empties all places. Then a
refusal is always that of something the log does not hold. The refinement shows of each step that what it appends joins
the durable order, that what it reveals has its serial outcome, and that what it
answers is true. A step of
`SerialDB` may do several of these at once, as `complete` does; a crash
answers with doubt.

Admission (`AdmissionInv`). A transaction is prepared on an image that lacks
unresolved records. Admission looks only at metadata, only administrative
records change it, and the coordinator drains the schedule before it commits
one. So what was admitted at preparation is admitted by every sound history that
replay can compute before that record.

Waiting (`PoolInv`). Dependencies are unresolved and earlier, the record after
the frontier is unresolved, and an unresolved record that was dispatched is in
some worker's hands. The oldest record therefore has no dependencies and is
either prepared or being executed.

Budgets (`BudgetInv`). `assigned_bytes` and `reserved_bytes` are added to when a
record is assigned and subtracted from when it is retired; nothing recounts. The
invariant says that both are the sums over the entries. `Sums` proves that such a
sum, which the fold takes in some order, changes by exactly the weight of an
element that joins or leaves, in whatever order; `complete` retires a whole run of
entries at once, whose weights are a sum over a part of the set.

### Replicas

`ReplicaInv`: the log is a prefix of the source followed by local records only,
and while an import runs the log together with what is still to be appended is a
prefix of the source. The work is in the checks: of every batch that may
arrive, what `Import` lets through is a run of source records that continues
the log. The digest chain is used through its meaning, the bodies it covers.

### Retention

`ClaimsAreKept` speaks of present claims, but which versions exist was decided by
earlier collections with other claims, and a restored database starts from an
image taken earlier. `RetentionInv` has three parts. `StoreInv`: every record
after the floor is there, a version at or below the floor is gone only if a newer
one at or below the floor hides it, and every registration lies between the
floor and the visible end, in the retained segments if it reads the log.
`ImageInv`: the same for the image, against the log of its time. `ConsumerInv`:
an open snapshot shows the log up to its sequence and the scan has copied its
rows up to the last key (`Scanning`); committed rows are those of the log up to
the watermark (`Derived`); a batch in memory is a piece of the log (`Fetched`);
and a token reaches only its owner's registration, which claims what the owner
has still to read (`Owns`). Collection keeps the newest version below every
sequence from the floor on, hence every view.

### Publication

`SelectionIsComplete` speaks of what a power loss leaves now; whether it holds
after the next step depends on what was flushed by the steps before.
`PublicationInv` says it of every value in `past`, the values an entry may still
have:

- `SelectInv`: every CURRENT that may be left is absent, before the first report,
  or names a `Complete` manifest: its own file and its page file are settled (one
  possible value each), its pages written and flushed, and it is not older than
  the last reported one. Among manifests of one page file none has more pages
  than the present selection (`Within`), so cutting the file when it is opened
  loses nothing that an older CURRENT would need;
- `StoreInv`, `PinInv`: an open store holds the selected manifest, and each pin a
  page file that has its name and its prefix;
- `AttachInv`: if the marker may be absent, every CURRENT has a namespace of its
  own and every value of the role file is the role asked for with it;
- `JobInv`: by the list of steps that a job has left, how much of `Complete` its
  manifest has reached: `Preparing` (page files written, then flushed and
  named), `Writing` (manifest written, flushed, renamed), `Choosing`
  (CURRENT.pending), `Chosen`; around them `Marking` and `Finishing` for an
  attachment, and the steps of a copy.

A step is described by the names it may touch (`Touches`): what rests on other
names is kept (`KeepComplete`, `KeepSelect`, `KeepAttach`). Page files only grow
or are flushed (`FilesKept`), except that opening cuts one to a prefix that all
its manifests fit in (`CutFiles`), a power loss cuts all to what is flushed
(`LostFiles`), and compaction overwrites one whose name is free, which no CURRENT
and no pin can use (`FreshFile`). The dangerous steps are four: the rename that
selects (`RunChoose`, which needs the whole of `Choosing`), the flush that
reports (`ReturnsKeeps`), the deletion of obsolete files (`ReclaimsKeeps`, which
needs that CURRENT has one possible value by then and that nothing is pinned) and
the removal of the marker (`StepFinishing`). The invariant was model-checked
on the instances of `publication`, with one page less per file, before it was
proved.

### Reused validations

A checkpoint is published unread when a proof covers its roots or when the bounded
index of edits says that nothing above the checkpoint was touched. `ReuseInv`
makes that right: a root identity names one tree for ever (`Agree`), a proof
is true of the tree its identity names, wherever that tree is by now, and while
the index is known it holds exactly the keys above the checkpoint in the live
tree. Edits, views prepared earlier, handovers and publications of older views
each preserve this for a reason of their own, and reopening forgets both.
`CurrentInv` is what reopening rests on: whatever CURRENT names was accepted by
the publication or handover that renamed it, although the owner may have failed
before it noted it.

A log suffix is validated on the strength of a proof of what precedes it.
`LogInv`: the selected manifest passes full validation in the present files, and a
proof of it holds the digest of every record after the checkpoint; a proof of
another manifest has an older generation, so it is never taken for one of this
manifest. In the model a digest is the history it stands for (no two histories
share one), and comparing digests is comparing beginnings of histories
(`DigestMeans`). Full validation then says that a log is a chain: each segment and
the checkpoint begin what is acknowledged (`ValidLogIsChain`), and any later
checkpoint of it would pass too (`AnyCheckpointIsValid`). The two directions are
`AcceptedIsFull` (the anchors place the checkpoint in what is acknowledged, and
the suffix that is read continues it) and `FullIsNotRefused` (of what passes in
full, the shortcut either accepts or passes on, never refuses). Files only grow
(`GrowthKeepsLogs`), so neither a failed append nor a caller that writes files of
its own, or behind the last segment, takes validity away.

### The node cache

`CacheInv`: every entry of a shard is a page of the file, as it is in the file,
in one of its own ways and only there; the byte counter is the sum of the
entries; and a reader between its steps holds only what its prefix allows. The
file only grows, so an entry stays right, and a hit compares the entry's largest
reference with the reader's own prefix. An eviction turns the hand until the new
entry fits: after `SLOTS` turns the shard is empty, so it always does
(`TurnIsCounted` and the lemmas after it), and the slot that was chosen before the
eviction is still empty after it.

### Only model-checked

- `EveryCallerIsAnswered`, `CloseEnds`, `ReplicaCatchesUp`: liveness, and
  `ENABLED`, are out of the prover's reach. `NobodyIsOvertaken`: it compares two
  filtered sequences of requests, and `SelectSeq` is opaque to the provers.
- `Wal` (`RecoveryNeverFails`, `RecoverableAtEveryMoment`,
  `ImplementsAtomicLog`): recovery is a scan of files of any length inside a fold
  over the files, and what it accepts depends on every earlier item.
- `Tree`, `Values`, `Encoding`, `Program`, `Verifier`, `Runtime`, `Resources`:
  trees, codecs and machines with `RECURSIVE` operators, which the prover cannot
  reach at all. `PageCodec`, `Records`, `Manifest`, `VersionedState`: their claims
  are about every input of a recursive definition, which is induction over data.
  Where such an induction can be put as a least counterexample about a recursive
  function, as for the sums and the turns of the hand, it was proved.
- `History`: execution and validation fold over records and trees.

## 5. Hazards

`PROJECT.json` lists forty, at their lines, each with the properties that would
catch it. Most concern interruption (crashes, power losses and partial failures
between file steps), values captured and used later (views, preparations, cached
nodes, reused validations, floors, tokens), and orders that no test writes down
(completions, batches, control messages). Every one has a property.

## 6. Findings

`wal_truncation`: `recover_tail` cuts a torn tail and flushes it afterwards. If
the process ends between the two, the next recovery sees a clean file and
flushes nothing. The engine then appends to a new segment. If power is lost and
the truncation is undone while the new segment survives, the torn tail precedes a
complete successor, and recovery refuses the directory. DESIGN.md requires that
physically incomplete terminal appends are discardable, and asks of the file
system only atomic renames and durable flushes. On a file system that orders
its metadata the case cannot arise (`wal` passes). Flushing the last accepted
segment on every open, changed or not, would close the gap.

## 7. Not modelled

The byte form of manifests, of exchanged batches and of programs is data below
the level of these properties; their contents are modelled. Byte permits, waiting
and cancelled callers, sampling and status reports change no durable state. The
`tx!` compiler has no run-time state; limits, bindings and the command-line
program are conversions. Components are modelled next to each other and meet in
their abstractions: `Scheduler` takes the log of `AtomicLog` and an atomic
publication for granted, `History` and `Retention` take serial execution, and no
module composes all of them.

## 8. Plan

1. Composition of `Scheduler` with the log of `Wal` in place of its abstract one.
2. An inductive invariant of `Wal`, with recovery as a recursive function of the
   files in order.
3. `Budget`: byte permits with waiting and cancelled callers.
