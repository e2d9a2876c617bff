----------------------------- MODULE Retention -----------------------------
(***************************************************************************)
(* What a database promises to keep: snapshots, durable cursors, the       *)
(* change feeds read through them, the floors maintenance derives from     *)
(* them, and consumers that build data from a snapshot and its feed, lose  *)
(* their process and go on, also from a restored backup.                   *)
(*                                                                         *)
(* A record puts one row: its sequence is the value, its key the entry of  *)
(* the log.  History models the other effects and the validation of the    *)
(* checkpoint, which available repeats; the coordinator serves one request *)
(* at a time, so an operation is one action.  A publication is atomic, as  *)
(* Publication shows; a caller may lose its reply.                         *)
(***************************************************************************)
EXTENDS Integers, Sequences, FiniteSets, FiniteSetsExt

CONSTANTS
  Consumers,     \* applications, which label their registrations
  Kinds,         \* the kinds of cursor they ask for
  Keys,
  SizeOf,        \* key -> the encoded size of a record that puts it
  BatchLimits,   \* [records, bytes]
  CheckpointInterval,
  MaxSequence,   \* bound: records in the log
  MaxCursorId,   \* bound: the next registration number
  MaxNamespace   \* bound: attachments, each of one image

(* The order of keys is that of numbers, and a scan begins before them.    *)
ASSUME RetentionAssumption == Keys \subseteq Nat \ {0}

VARIABLES
  log,           \* the keys of the durable records; the disk keeps a suffix
  starts,        \* the first sequences of the retained log segments
  rotate,        \* Store::rotate_next
  versions,      \* the sequences whose row version is in the live roots
  outcomes,      \* the sequences whose outcome is
  frontier,      \* the visible prefix
  checkpoint,    \* Manifest::checkpoint_sequence
  floor,         \* Manifest::history_floor
  cursors,       \* the cursor tree: id -> registration
  nextId,        \* Manifest::next_cursor_id
  namespace,     \* Manifest::cursor_namespace
  image,         \* the durable parts above in the last backup, or NoImage
  consumer       \* what each consumer holds

disk == <<log, starts, rotate, versions, outcomes, frontier, checkpoint, floor>>
vars == <<disk, cursors, nextId, namespace, image, consumer>>

Resolved == 1
Logical == 2
LogReplica == 3

Durable == Len(log)

-----------------------------------------------------------------------------
(* Registrations, tokens, snapshots and consumers.                         *)

CursorInfo(kind, baseline, label) == [kind |-> kind, baseline |-> baseline, label |-> label]
Token(id, kind) == [namespace |-> namespace, id |-> id, kind |-> kind]
NoToken == [namespace |-> 0, id |-> 0, kind |-> 0]

(* A snapshot claims a sequence and holds the versions of the live roots   *)
(* at its capture; revoked, it holds nothing.                              *)
Claim(sequence, view) == [held |-> TRUE, open |-> TRUE, sequence |-> sequence, view |-> view]
NoClaim == [held |-> FALSE, open |-> FALSE, sequence |-> 0, view |-> {}]
Revoked(claim) == [claim EXCEPT !.open = FALSE, !.view = {}]

(* A scan's last key is in at.  Rows, watermark and token are committed    *)
(* together once saved is set; claim, at and batch are in memory.          *)
NoRows == [k \in Keys |-> 0]
NoBatch == [start |-> 0, end |-> -1, records |-> <<>>]
Fresh == [saved |-> FALSE, token |-> NoToken, mark |-> 0, rows |-> NoRows,
          claim |-> NoClaim, at |-> 0, batch |-> NoBatch]
NoImage == [durable |-> -1]

-----------------------------------------------------------------------------
(* Reading history.                                                        *)

(* The newest version of a key at or below a sequence; 0 if there is none. *)
ReadValue(view, key, sequence) ==
  Max({0} \cup {s \in view : s <= sequence /\ log[s] = key})

(* Outcome and exact version are both there.                               *)
ReadRecord(s) == s \in outcomes /\ s \in versions

LogFloor == IF starts = {} THEN Durable + 1 ELSE Min(starts)
SegmentEnd(first) ==
  LET later == {s \in starts : s > first}
  IN IF later = {} THEN Durable ELSE Min(later) - 1

(* The segments that hold a record after the baseline follow each other up *)
(* to the durable end.                                                     *)
LogAvailable(baseline) ==
  /\ LogFloor <= baseline + 1
  /\ baseline < Durable =>
       \E s \in starts : s <= baseline + 1 /\ SegmentEnd(s) > baseline

Available(baseline, kind) ==
  /\ floor <= baseline /\ baseline <= frontier
  /\ \A s \in baseline + 1 .. frontier : ReadRecord(s)
  /\ kind # Resolved => LogAvailable(baseline)

(* A stored registration that every reader of the cursor tree accepts.     *)
Decodes(id) ==
  /\ 0 < id /\ id < nextId
  /\ floor <= cursors[id].baseline /\ cursors[id].baseline <= Durable
  /\ cursors[id].kind # Resolved => LogFloor <= cursors[id].baseline + 1

(* Mutant: the number alone selects a registration.                        *)
LookupNumber(token) ==
  /\ 0 < token.id /\ token.id < nextId
  /\ token.id \in DOMAIN cursors
  /\ token.kind = cursors[token.id].kind

(* The token names a registration of this directory.                       *)
Lookup(token) ==
  /\ token.namespace = namespace
  /\ 0 < token.id /\ token.id < nextId
  /\ token.id \in DOMAIN cursors
  /\ token.kind = cursors[token.id].kind

-----------------------------------------------------------------------------
(* The floors.                                                             *)

OpenClaims == {consumer[c].claim : c \in {c \in Consumers : consumer[c].claim.open}}
SnapshotFloor == Min({frontier} \cup {claim.sequence : claim \in OpenClaims})

HistoryClaims == {cursors[id].baseline : id \in DOMAIN cursors}

(* Mutant: only replicas are thought to need the log.                      *)
LogClaimsOfReplicas ==
  {cursors[id].baseline + 1 : id \in {id \in DOMAIN cursors : cursors[id].kind = LogReplica}}

LogClaims ==
  {cursors[id].baseline + 1 : id \in {id \in DOMAIN cursors : cursors[id].kind # Resolved}}

RetentionFloors(end) ==
  [history |-> Min({SnapshotFloor} \cup HistoryClaims), log |-> Min({end + 1} \cup LogClaims)]

-----------------------------------------------------------------------------
(* The database: commit, execution, checkpoint, maintenance.               *)

Init ==
  /\ log = <<>> /\ starts = {} /\ rotate = FALSE
  /\ versions = {} /\ outcomes = {} /\ frontier = 0 /\ checkpoint = 0 /\ floor = 0
  /\ cursors = <<>> /\ nextId = 1 /\ namespace = 1
  /\ image = NoImage
  /\ consumer = [c \in Consumers |-> Fresh]

Commit(key) ==
  /\ Durable < MaxSequence
  /\ log' = Append(log, key)
  /\ starts' = IF starts = {} \/ rotate THEN starts \cup {Durable + 1} ELSE starts
  /\ rotate' = FALSE
  /\ UNCHANGED <<versions, outcomes, frontier, checkpoint, floor,
                 cursors, nextId, namespace, image, consumer>>

(* The coordinator installs a record in any order; the frontier follows    *)
(* the contiguous prefix, and the checkpoint follows it in intervals.      *)
Resolve(s) ==
  /\ s \notin outcomes /\ s > frontier
  /\ outcomes' = outcomes \cup {s} /\ versions' = versions \cup {s}
  /\ frontier' = Max({e \in frontier .. Durable : \A r \in frontier + 1 .. e : r \in outcomes'})
  /\ checkpoint' = IF frontier' > frontier /\ frontier' - checkpoint >= CheckpointInterval
                   THEN frontier' ELSE checkpoint
  /\ UNCHANGED <<log, starts, rotate, floor, cursors, nextId, namespace, image, consumer>>

(* A drained coordinator publishes before an administrative command and    *)
(* when it closes.                                                         *)
Publish ==
  /\ frontier = Durable /\ checkpoint < frontier
  /\ checkpoint' = frontier
  /\ UNCHANGED <<log, starts, rotate, versions, outcomes, frontier, floor,
                 cursors, nextId, namespace, image, consumer>>

(* The newest version of a key at the floor stays.                         *)
KeepVersion(s, low) ==
  s > low \/ ~\E t \in versions : log[t] = log[s] /\ s < t /\ t <= low

Collect(floors) ==
  /\ floor' = floors.history
  /\ versions' = {s \in versions : KeepVersion(s, floors.history)}
  /\ outcomes' = {s \in outcomes : s > floors.history}
  /\ starts' = {s \in starts : SegmentEnd(s) >= floors.log}

(* A drained coordinator publishes its frontier and collects to the floors *)
(* of that moment.                                                         *)
Maintain(collect, rotation) ==
  /\ frontier = Durable
  /\ checkpoint' = frontier
  /\ IF collect THEN Collect(RetentionFloors(frontier))
                ELSE UNCHANGED <<floor, versions, outcomes, starts>>
  /\ rotate' = (rotate \/ rotation)
  /\ UNCHANGED <<log, frontier, cursors, nextId, namespace, image, consumer>>

(* Recovery replays the records after the checkpoint and publishes.        *)
Recovered ==
  /\ frontier' = Len(log') /\ checkpoint' = Len(log')

(* Without its process a consumer is left with what it committed.          *)
AfterCrash(m) ==
  IF m.saved THEN [m EXCEPT !.claim = NoClaim, !.at = 0, !.batch = NoBatch] ELSE Fresh

(* Close revokes every snapshot; consumers keep what they hold.            *)
AfterClose(m) == IF m.claim.held THEN [m EXCEPT !.claim = Revoked(@)] ELSE m

(* The database ends, by a crash that takes its consumers with it or by a  *)
(* close, and is opened again.                                             *)
Reopen(crash) ==
  /\ consumer' = [c \in Consumers |->
                    IF crash THEN AfterCrash(consumer[c]) ELSE AfterClose(consumer[c])]
  /\ versions' = versions \cup (checkpoint + 1 .. Durable)
  /\ outcomes' = outcomes \cup (checkpoint + 1 .. Durable)
  /\ rotate' = TRUE
  /\ UNCHANGED <<log, starts, floor, cursors, nextId, namespace, image>>
  /\ Recovered

-----------------------------------------------------------------------------
(* Backup and attach.                                                      *)

(* The image is the durable prefix with the selected checkpoint.           *)
Backup ==
  /\ image = NoImage /\ namespace < MaxNamespace
  /\ image' = [durable |-> Durable, starts |-> starts, checkpoint |-> checkpoint,
               floor |-> floor,
               versions |-> {s \in versions : s <= checkpoint},
               outcomes |-> {s \in outcomes : s <= checkpoint},
               cursors |-> cursors, nextId |-> nextId]
  /\ UNCHANGED <<disk, cursors, nextId, namespace, consumer>>

(* The primary is retired and its last image attached in its place.        *)
(* Registrations are kept under a new namespace.  A consumer goes on only  *)
(* from a watermark that the image still covers.                           *)
Attach ==
  /\ image # NoImage
  /\ namespace' = namespace + 1
  /\ log' = SubSeq(log, 1, image.durable)
  /\ starts' = image.starts /\ rotate' = TRUE /\ floor' = image.floor
  /\ versions' = image.versions \cup (image.checkpoint + 1 .. image.durable)
  /\ outcomes' = image.outcomes \cup (image.checkpoint + 1 .. image.durable)
  /\ Recovered
  /\ cursors' = image.cursors /\ nextId' = image.nextId
  /\ consumer' = [c \in Consumers |->
                    IF consumer[c].mark > image.durable THEN Fresh ELSE AfterCrash(consumer[c])]
  /\ image' = NoImage

-----------------------------------------------------------------------------
(* Snapshots.                                                              *)

Capture == Claim(frontier, versions)

Snapshot(c) ==
  /\ ~consumer[c].saved /\ ~consumer[c].claim.held
  /\ consumer' = [consumer EXCEPT ![c] = [Fresh EXCEPT !.claim = Capture]]
  /\ UNCHANGED <<disk, cursors, nextId, namespace, image>>

Revoke(c) ==
  /\ consumer[c].claim.open
  /\ consumer' = [consumer EXCEPT ![c].claim = Revoked(@)]
  /\ UNCHANGED <<disk, cursors, nextId, namespace, image>>

(* SnapshotScan::next seeks again after the last key it returned.          *)
ScanNext(c) ==
  LET m == consumer[c]
      row(k) == ReadValue(m.claim.view, k, m.claim.sequence)
      rest == {k \in Keys : k > m.at /\ row(k) # 0}
  IN /\ m.claim.open /\ rest # {}
     /\ consumer' = [consumer EXCEPT ![c] =
          [m EXCEPT !.at = Min(rest), !.rows[Min(rest)] = row(Min(rest))]]
     /\ UNCHANGED <<disk, cursors, nextId, namespace, image>>

(* The scan is done: the consumer commits its rows, the watermark of the   *)
(* snapshot and its token, and drops the snapshot.                         *)
ScanDone(c) ==
  LET m == consumer[c] IN
  /\ m.claim.open /\ m.token # NoToken
  /\ \A k \in Keys : k > m.at => ReadValue(m.claim.view, k, m.claim.sequence) = 0
  /\ consumer' = [consumer EXCEPT ![c] =
       [m EXCEPT !.saved = TRUE, !.mark = m.claim.sequence, !.claim = NoClaim, !.at = 0]]
  /\ UNCHANGED <<disk, cursors, nextId, namespace, image>>

(* A revoked scan fails, and the consumer drops the build with it.         *)
ScanRevoked(c) ==
  /\ consumer[c].claim.held /\ ~consumer[c].claim.open
  /\ consumer' = [consumer EXCEPT ![c] = Fresh]
  /\ UNCHANGED <<disk, cursors, nextId, namespace, image>>

-----------------------------------------------------------------------------
(* Cursors.                                                                *)

(* The cursor tree changes under the unchanged checkpoint.                 *)
PublishCursors(tree, next) ==
  /\ cursors' = tree /\ nextId' = next
  /\ UNCHANGED <<disk, namespace, image>>

Register(c, kind, baseline) ==
  /\ nextId < MaxCursorId
  /\ Available(baseline, kind)
  /\ PublishCursors([id \in DOMAIN cursors \cup {nextId} |->
                       IF id = nextId THEN CursorInfo(kind, baseline, c) ELSE cursors[id]],
                    nextId + 1)

SnapshotTail(c, kind) ==
  /\ ~consumer[c].saved /\ ~consumer[c].claim.held
  /\ Register(c, kind, frontier)
  /\ consumer' = [consumer EXCEPT ![c] =
                    [Fresh EXCEPT !.claim = Capture, !.token = Token(nextId, kind)]]

(* A consumer checks out the beginning, and commits that with its token,   *)
(* or the watermark of the snapshot it reads.                              *)
Checkout(c, kind) ==
  LET m == consumer[c] IN
  /\ ~m.saved /\ m.token = NoToken
  /\ Register(c, kind, IF m.claim.held THEN m.claim.sequence ELSE 0)
  /\ consumer' = [consumer EXCEPT ![c] =
                    [m EXCEPT !.token = Token(nextId, kind), !.saved = ~m.claim.held]]

(* The reply of SnapshotTail or Checkout is lost with the caller that      *)
(* waited for it: a snapshot goes with its reply, the registration stays   *)
(* and nobody holds its token.  The caller may be another process of a     *)
(* consumer that has committed rows already.                               *)
LostRegistration(c, kind) ==
  /\ \/ ~consumer[c].claim.held /\ Register(c, kind, frontier)
     \/ consumer[c].token = NoToken /\ Register(c, kind, consumer[c].claim.sequence)
  /\ UNCHANGED consumer

(* An acknowledgement may be late: it names any watermark committed so far.*)
Acknowledge(c, w) ==
  LET id == consumer[c].token.id IN
  /\ consumer[c].saved /\ Lookup(consumer[c].token)
  /\ cursors[id].baseline < w /\ w <= frontier
  /\ PublishCursors([cursors EXCEPT ![id].baseline = w], nextId)
  /\ UNCHANGED consumer

(* A consumer ends, or the reply of its release is lost.                   *)
Release(c, told) ==
  LET id == consumer[c].token.id IN
  /\ consumer[c].saved /\ Lookup(consumer[c].token)
  /\ PublishCursors([i \in DOMAIN cursors \ {id} |-> cursors[i]], nextId)
  /\ consumer' = IF told THEN [consumer EXCEPT ![c] = Fresh] ELSE consumer

(* An operator lists the registrations and releases one that its consumer  *)
(* does not use.                                                           *)
ReleaseListed(id) ==
  /\ id \in DOMAIN cursors
  /\ \A c \in Consumers :
       cursors[id].label = c /\ consumer[c].token # NoToken =>
         consumer[c].token.namespace = namespace /\ consumer[c].token.id # id
  /\ PublishCursors([i \in DOMAIN cursors \ {id} |-> cursors[i]], nextId)
  /\ UNCHANGED consumer

(* After an attach a consumer with a watermark picks its registration by   *)
(* its label and number.                                                   *)
Rebind(c, id) ==
  LET m == consumer[c] IN
  /\ m.saved /\ m.token.namespace # namespace
  /\ 0 < id /\ id < nextId /\ id \in DOMAIN cursors /\ cursors[id].label = c
  /\ cursors[id].baseline <= m.mark /\ m.mark <= frontier
  /\ Available(m.mark, cursors[id].kind)
  /\ consumer' = [consumer EXCEPT ![c].token = Token(id, cursors[id].kind), ![c].batch = NoBatch]
  /\ UNCHANGED <<disk, cursors, nextId, namespace, image>>

(* The token is of another namespace or its registration was released: the *)
(* consumer discards its data.                                             *)
StartOver(c) ==
  /\ consumer[c].saved /\ ~Lookup(consumer[c].token)
  /\ consumer' = [consumer EXCEPT ![c] = Fresh]
  /\ UNCHANGED <<disk, cursors, nextId, namespace, image>>

-----------------------------------------------------------------------------
(* Feeds.                                                                  *)

Bytes(after, end) == MapThenSumSet(LAMBDA s : SizeOf[log[s]], after + 1 .. end)

(* A batch starts empty and takes records as long as they fit.             *)
Fits(after, end, limits) ==
  \/ end = after
  \/ end - after <= limits.records /\ Bytes(after, end) <= limits.bytes

(* The end of a batch of complete records.  A consumer refused for a first *)
(* record that is too large asks for one record of that size.              *)
BatchEnd(after, limits) ==
  IF after < frontier /\ limits.records > 0 /\ SizeOf[log[after + 1]] > limits.bytes
  THEN after + 1
  ELSE Max({end \in after .. frontier : Fits(after, end, limits)})

(* The records a feed examines for a batch, one too large included.        *)
Examined(after, limits) ==
  after + 1 .. Min({frontier, after + limits.records, BatchEnd(after, limits) + 1})

FeedServes(kind, after, limits) ==
  /\ \A s \in Examined(after, limits) : ReadRecord(s)
  /\ kind # Resolved /\ Examined(after, limits) # {} => LogAvailable(after)

(* read_feed or read_logical_feed, by the kind of the cursor.              *)
ReadFeed(c, limits) ==
  LET m == consumer[c] IN
  /\ m.saved /\ m.batch = NoBatch /\ Lookup(m.token)
  /\ cursors[m.token.id].baseline <= m.mark /\ m.mark < frontier
  /\ FeedServes(m.token.kind, m.mark, limits)
  /\ consumer' = [consumer EXCEPT ![c].batch =
       [start |-> m.mark, end |-> BatchEnd(m.mark, limits),
        records |-> SubSeq(log, m.mark + 1, BatchEnd(m.mark, limits))]]
  /\ UNCHANGED <<disk, cursors, nextId, namespace, image>>

(* The consumer commits a batch that continues its watermark, and drops    *)
(* any other.  Not knowing whether it committed, it tries the batch again. *)
Stage(c, again) ==
  LET m == consumer[c]
      rows == [k \in Keys |-> Max({m.rows[k]} \cup
                {m.mark + i : i \in {i \in DOMAIN m.batch.records : m.batch.records[i] = k}})]
  IN /\ m.batch # NoBatch
     /\ consumer' = [consumer EXCEPT ![c] =
          IF m.batch.start # m.mark THEN [m EXCEPT !.batch = NoBatch]
          ELSE [m EXCEPT !.batch = IF again THEN @ ELSE NoBatch,
                         !.mark = m.batch.end, !.rows = rows]]
     /\ UNCHANGED <<disk, cursors, nextId, namespace, image>>

Next ==
  \/ \E key \in Keys : Commit(key)
  \/ \E s \in 1 .. Durable : Resolve(s)
  \/ Publish
  \/ Maintain(TRUE, FALSE) \/ Maintain(FALSE, TRUE)
  \/ \E crash \in BOOLEAN : Reopen(crash)
  \/ Backup
  \/ Attach
  \/ \E c \in Consumers :
       \/ Snapshot(c) \/ Revoke(c) \/ ScanNext(c) \/ ScanDone(c) \/ ScanRevoked(c)
       \/ \E kind \in Kinds : SnapshotTail(c, kind) \/ Checkout(c, kind) \/ LostRegistration(c, kind)
       \/ \E told \in BOOLEAN : Release(c, told)
       \/ \E w \in 1 .. consumer[c].mark : Acknowledge(c, w)
       \/ \E id \in DOMAIN cursors : Rebind(c, id)
       \/ StartOver(c)
       \/ \E limits \in BatchLimits : ReadFeed(c, limits)
       \/ \E again \in BOOLEAN : Stage(c, again)
  \/ \E id \in DOMAIN cursors : ReleaseListed(id)

Spec == Init /\ [][Next]_vars

-----------------------------------------------------------------------------
(* Properties.                                                             *)

(* What is claimed is kept: through acknowledgements, releases, collection *)
(* and segment retirement, restarts and restored images, every record that *)
(* a registration protects can be read from its outcome, its exact version *)
(* and, for a logical cursor, the log; the floors that maintenance derives *)
(* never lie below what was collected, and no live snapshot does.          *)
ClaimsAreKept ==
  /\ \A id \in DOMAIN cursors :
       Decodes(id) /\ Available(cursors[id].baseline, cursors[id].kind)
  /\ \A claim \in OpenClaims : floor <= claim.sequence /\ claim.sequence <= frontier
  /\ frontier = Durable =>
       /\ floor <= RetentionFloors(frontier).history
       /\ LogFloor <= RetentionFloors(frontier).log

(* Derived data is the source's: what a consumer committed from a snapshot *)
(* taken while records resolve out of order, and from batches read, lost   *)
(* and tried again, is exactly the rows of the log up to its watermark,    *)
(* and its token reaches only its own registration, which never claims     *)
(* less than the consumer still has to read.                               *)
DerivedIsSource ==
  \A c \in Consumers : consumer[c].saved =>
    LET m == consumer[c] IN
    /\ m.mark <= Durable
    /\ m.rows = [k \in Keys |-> ReadValue(1 .. Durable, k, m.mark)]
    /\ Lookup(m.token) => /\ cursors[m.token.id].label = c
                          /\ cursors[m.token.id].baseline <= m.mark
=============================================================================
