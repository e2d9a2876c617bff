-------------------------------- MODULE Wal --------------------------------
(***************************************************************************)
(* The write-ahead log of one directory: segment files that hold groups of *)
(* records, the manifest that CURRENT selects, the writes and flushes of   *)
(* an append, retirement and reclamation of segments, and the recovery of  *)
(* the tail after a process crash or a power loss at any point, recovery   *)
(* included.                                                               *)
(*                                                                         *)
(* A file is a sequence of items, one per write of append_group.  A digest *)
(* is the sequence of records it stands for, since every record carries    *)
(* the digest of its predecessor.                                          *)
(***************************************************************************)
EXTENDS Naturals, SequencesExt

CONSTANTS
  Scenarios,      \* the environments and bounds that are explored
  OrderedMetadata,\* whether a truncation reaches the disk before any file
                  \* that is created, or directory flush that is made, later
  MaxMaintains    \* bound: maintenance runs

(* A scenario fixes the policy of StoreOptions, whether unflushed data can *)
(* be lost or torn by a power loss, how many records a group may have, and *)
(* bounds how many appends are started and how often the directory is      *)
(* opened.                                                                 *)
ASSUME WalOptions ==
  /\ OrderedMetadata \in BOOLEAN /\ MaxMaintains \in Nat
  /\ \A s \in Scenarios :
       /\ s.TailRecovery \in {"DiscardInvalid", "Strict"}
       /\ s.PowerLoss \in BOOLEAN
       /\ s.GroupSizes \subseteq Nat \ {0}
       /\ {s.MaxAppends, s.MaxOpens} \subseteq Nat

VARIABLES
  scenario,     \* the member of Scenarios in force; never changes
  files,        \* the segment files as a process sees them: id -> items
  data,         \* the items of each file that are flushed
  named,        \* the segments whose directory entry is flushed
  selected,     \* the manifest that CURRENT selects
  reverts,      \* manifests CURRENT may select again if power is lost
  mode,         \* "down", "recovering", "open", "corrupt"
  manifest,     \* store.manifest
  rotate_next,  \* the next append starts a new segment
  poisoned,     \* the store needs recovery
  op,           \* the append in progress
  flush,        \* what recovery still has to cut and flush
  new_files,    \* recovery has accepted a segment CURRENT does not list
  promised,     \* history: the log that an append or an open has reported
  limbo,        \* history: the group in progress or interrupted
  appends, opens, maintains

current == <<selected, reverts>>
disk == <<files, data, named, current>>
store == <<manifest, rotate_next, poisoned, op>>
recovery == <<flush, new_files>>
history == <<promised, limbo>>
bounds == <<appends, opens, maintains>>
vars == <<scenario, disk, mode, store, recovery, history, bounds>>

TailRecovery == scenario.TailRecovery
PowerLoss == scenario.PowerLoss
GroupSizes == scenario.GroupSizes
MaxAppends == scenario.MaxAppends
MaxOpens == scenario.MaxOpens

-----------------------------------------------------------------------------
(* Items.                                                                  *)

Segment(id, pred) == [kind |-> "segment", id |-> id, pred |-> pred]
Header(pred, g) == [kind |-> "header", pred |-> pred, records |-> g]
Body(r) == [kind |-> "record", record |-> r]
Trailer(pred, g) == [kind |-> "trailer", pred |-> pred, records |-> g]

(* Bytes of the right length that do not validate, and a piece that is     *)
(* physically short.                                                       *)
Junk == [kind |-> "junk"]
Cut == [kind |-> "cut"]

GroupItems(pred, g) ==
  <<Header(pred, g)>> \o [i \in DOMAIN g |-> Body(g[i])] \o <<Trailer(pred, g)>>

None == [kind |-> "none"]

(* A segment's entry in a manifest: the log before it and through it, and  *)
(* how many items are committed.                                           *)
Descriptor(id, pred, last, size) ==
  [id |-> id, pred |-> pred, last |-> last, size |-> size]

Manifest(log, segments, next_id) ==
  [log |-> log, segments |-> segments, next_segment_id |-> next_id]

-----------------------------------------------------------------------------
(* Reading a segment.                                                      *)

(* A group header at o, and the number of items its group takes.           *)
IsHeader(items, o) == o \in DOMAIN items /\ items[o].kind = "header"
Extent(items, o) == Len(items[o].records) + 2

(* The file is physically too short for what starts at o.                  *)
IsShort(items, o) ==
  \/ items[o] = Cut
  \/ /\ IsHeader(items, o)
     /\ \E i \in o .. o + Extent(items, o) - 1 : i \notin DOMAIN items \/ items[i] = Cut

(* A complete group starts at o: header, records and trailer validate.     *)
IsGroup(items, o) ==
  /\ IsHeader(items, o)
  /\ o + Extent(items, o) - 1 <= Len(items)
  /\ SubSeq(items, o, o + Extent(items, o) - 1)
       = GroupItems(items[o].pred, items[o].records)

(* scan_tail: follow the chain of complete groups from o on.               *)
Scan(items, start, log) ==
  LET from[o \in 1 .. Len(items) + 1] ==
        IF IsGroup(items, o)
          THEN LET next == o + Extent(items, o)
                   last == items[o].pred \o items[o].records
               IN IF IsGroup(items, next) /\ items[next].pred = last
                    THEN from[next]
                    ELSE [end |-> next, log |-> last]
          ELSE [end |-> o, log |-> log]
      found == IF IsGroup(items, start) /\ items[start].pred = log
                 THEN from[start]
                 ELSE [end |-> start, log |-> log]
      rest == found.end
  IN [end     |-> rest,
      log     |-> found.log,
      partial |-> rest \in DOMAIN items,
      error   |-> /\ rest \in DOMAIN items
                  /\ \/ IsHeader(items, rest) /\ items[rest].pred # found.log
                     \/ TailRecovery = "Strict" /\ ~IsShort(items, rest)]

(* validate_logs: every selected prefix is there and validates.            *)
ValidPrefix(dir, s) ==
  /\ s.id \in DOMAIN dir
  /\ s.size <= Len(dir[s.id])
  /\ dir[s.id][1] = Segment(s.id, s.pred)
  /\ LET scan == Scan(SubSeq(dir[s.id], 1, s.size), 2, s.pred)
     IN scan.end = s.size + 1 /\ scan.log = s.last

ValidManifest(m) ==
  /\ \A i \in DOMAIN m.segments :
       /\ m.segments[i].id < m.next_segment_id
       /\ Len(m.segments[i].pred) < Len(m.segments[i].last)
  /\ \A i \in 1 .. Len(m.segments) - 1 :
       /\ m.segments[i].id < m.segments[i + 1].id
       /\ m.segments[i].last = m.segments[i + 1].pred
  /\ m.segments # <<>> => Last(m.segments).last = m.log

-----------------------------------------------------------------------------
(* recover_tail as a function of the directory and the selected manifest.  *)

Start(m) ==
  [manifest |-> m, incomplete |-> FALSE, flush |-> <<>>, new |-> FALSE,
   error |-> FALSE]

(* The last selected segment is extended from its recorded end.            *)
ExtendLast(dir, r) ==
  IF r.manifest.segments = <<>> THEN r ELSE
  LET m == r.manifest
      s == Last(m.segments)
      scan == Scan(dir[s.id], s.size + 1, s.last)
      extended == Descriptor(s.id, s.pred, scan.log, scan.end - 1)
  IN [r EXCEPT
        !.manifest = Manifest(scan.log, Front(m.segments) \o <<extended>>, m.next_segment_id),
        !.incomplete = scan.partial,
        !.flush = IF scan.partial \/ extended # s
                    THEN <<[id |-> s.id, size |-> scan.end - 1]>> ELSE <<>>,
        !.error = scan.error]

(* A file that CURRENT does not list is an orphan or continues the log.    *)
Consider(dir, r, id) ==
  LET items == dir[id]
      m == r.manifest
      scan == Scan(items, 2, items[1].pred)
      discard(size) == [r EXCEPT !.flush = Append(@, [id |-> id, size |-> size])]
  IN CASE r.error -> r
       [] items = <<>> \/ items[1] = Cut -> r
       [] items[1] = Junk ->
            IF TailRecovery = "Strict" THEN [r EXCEPT !.error = TRUE] ELSE discard(0)
       [] scan.error -> [r EXCEPT !.error = TRUE]
       [] scan.end = 2 -> IF scan.partial THEN discard(1) ELSE r
       [] r.incomplete \/ items[1].pred # m.log -> [r EXCEPT !.error = TRUE]
       [] OTHER ->
            [discard(scan.end - 1) EXCEPT
               !.manifest = Manifest(scan.log,
                 Append(m.segments, Descriptor(id, items[1].pred, scan.log, scan.end - 1)),
                 id + 1),
               !.new = TRUE,
               !.incomplete = scan.partial]

segment_ids(dir, floor) == SetToSortSeq({id \in DOMAIN dir : id >= floor}, <)

Recovered(dir, m) ==
  LET bad == ~ValidManifest(m) \/ \E i \in DOMAIN m.segments : ~ValidPrefix(dir, m.segments[i])
  IN IF bad THEN [Start(m) EXCEPT !.error = TRUE] ELSE
     LET last == ExtendLast(dir, Start(m))
         all == FoldLeft(LAMBDA r, id : Consider(dir, r, id), last,
                         segment_ids(dir, m.next_segment_id))
     IN [all EXCEPT !.error = @ \/ ~ValidManifest(all.manifest)]

-----------------------------------------------------------------------------
(* Opening.                                                                *)

Closed ==
  /\ op' = None /\ flush' = <<>> /\ new_files' = FALSE
  /\ rotate_next' = FALSE /\ poisoned' = FALSE

Open ==
  /\ mode = "down"
  /\ opens < MaxOpens
  /\ opens' = opens + 1
  /\ \E r \in {Recovered(files, selected)} :
       IF r.error
         THEN mode' = "corrupt" /\ UNCHANGED <<manifest, flush, new_files>>
         ELSE /\ mode' = "recovering"
              /\ manifest' = r.manifest
              /\ flush' = r.flush
              /\ new_files' = r.new
  /\ UNCHANGED <<disk, rotate_next, poisoned, op, history, appends, maintains>>

(* set_len, and then the flush, of one segment.                            *)
SetLength ==
  /\ mode = "recovering" /\ flush # <<>>
  /\ LET f == Head(flush)
     IN /\ Len(files[f.id]) > f.size
        /\ files' = [files EXCEPT ![f.id] = SubSeq(@, 1, f.size)]
  /\ UNCHANGED <<data, named, current, mode, store, recovery, history, bounds>>

(* Mutant: an accepted suffix is replayed from the cache without a flush.  *)
FlushNothing ==
  /\ mode = "recovering" /\ flush # <<>>
  /\ Len(files[Head(flush).id]) = Head(flush).size
  /\ flush' = Tail(flush)
  /\ UNCHANGED <<disk, mode, store, new_files, history, bounds>>

Flush ==
  /\ mode = "recovering" /\ flush # <<>>
  /\ LET id == Head(flush).id
     IN /\ Len(files[id]) = Head(flush).size
        /\ data' = [data EXCEPT ![id] = files[id]]
  /\ flush' = Tail(flush)
  /\ UNCHANGED <<files, named, current, mode, store, new_files, history, bounds>>

(* Flushing the directory flushes its entries; a file system that orders   *)
(* its metadata flushes earlier truncations with them.                     *)
Settled ==
  [id \in DOMAIN data |->
     IF OrderedMetadata /\ id \in DOMAIN files /\ IsPrefix(files[id], data[id])
       THEN files[id] ELSE data[id]]

FlushEntries == named' = DOMAIN files /\ data' = Settled

FlushDirectory == FlushEntries /\ reverts' = {}

(* The directory is flushed when a segment was discovered; a reopened      *)
(* store always starts a new segment.                                      *)
FinishRecovery ==
  /\ mode = "recovering" /\ flush = <<>>
  /\ mode' = "open"
  /\ IF new_files THEN FlushDirectory ELSE UNCHANGED <<data, named, reverts>>
  /\ new_files' = FALSE
  /\ rotate_next' = TRUE
  /\ promised' = manifest.log
  /\ limbo' = <<>>
  /\ UNCHANGED <<files, selected, manifest, poisoned, op, flush, bounds>>

-----------------------------------------------------------------------------
(* append_group, one write or flush at a time.                             *)

Writable == mode = "open" /\ ~poisoned /\ op = None

(* allocate: the first unused file name at or above the next segment ID.   *)
Unused(n) == Min({id \in n .. n + Cardinality(DOMAIN files) : id \notin DOMAIN files})

Group(n) == [i \in 1 .. n |-> [try |-> appends + 1, part |-> i]]

NewSegment(g) ==
  LET id == Unused(manifest.next_segment_id)
      log == manifest.log \o g
      items == <<Segment(id, manifest.log)>> \o GroupItems(manifest.log, g)
  IN /\ files' = files @@ (id :> <<>>)
     /\ data' = (id :> <<>>) @@ data
     /\ op' = [kind |-> "write", id |-> id, new |-> TRUE, items |-> items,
               next |-> Manifest(log,
                 Append(manifest.segments, Descriptor(id, manifest.log, log, Len(items))),
                 id + 1)]
     /\ UNCHANGED poisoned

(* The active file must end where the manifest says.                       *)
SameSegment(g) ==
  LET s == Last(manifest.segments)
      log == manifest.log \o g
      items == GroupItems(manifest.log, g)
  IN IF Len(files[s.id]) = s.size
       THEN /\ op' = [kind |-> "write", id |-> s.id, new |-> FALSE, items |-> items,
                      next |-> Manifest(log,
                        Front(manifest.segments)
                          \o <<Descriptor(s.id, s.pred, log, s.size + Len(items))>>,
                        manifest.next_segment_id)]
            /\ UNCHANGED <<files, data, poisoned>>
       ELSE poisoned' = TRUE /\ UNCHANGED <<files, data, op>>

BeginAppend(n) ==
  /\ Writable
  /\ appends < MaxAppends
  /\ appends' = appends + 1
  /\ limbo' = Group(n)
  /\ IF rotate_next \/ manifest.segments = <<>>
       THEN NewSegment(Group(n)) ELSE SameSegment(Group(n))
  /\ UNCHANGED <<named, current, mode, manifest, rotate_next, recovery,
                 promised, opens, maintains>>

Write ==
  /\ mode = "open" /\ op # None /\ op.kind = "write" /\ op.items # <<>>
  /\ files' = [files EXCEPT ![op.id] = Append(@, Head(op.items))]
  /\ op' = [op EXCEPT !.items = Tail(@)]
  /\ UNCHANGED <<data, named, current, mode, manifest, rotate_next, poisoned,
                 recovery, history, bounds>>

Commit ==
  /\ manifest' = op.next
  /\ rotate_next' = FALSE
  /\ op' = None
  /\ promised' = op.next.log
  /\ limbo' = <<>>

(* Mutant: a new segment's directory entry is not flushed.                 *)
SyncFileOnly ==
  /\ mode = "open" /\ op # None /\ op.kind = "write" /\ op.items = <<>>
  /\ data' = [data EXCEPT ![op.id] = files[op.id]]
  /\ Commit
  /\ UNCHANGED <<files, named, current, mode, poisoned, recovery, bounds>>

SyncFile ==
  /\ mode = "open" /\ op # None /\ op.kind = "write" /\ op.items = <<>>
  /\ data' = [data EXCEPT ![op.id] = files[op.id]]
  /\ IF op.new
       THEN /\ op' = [op EXCEPT !.kind = "entry"]
            /\ UNCHANGED <<manifest, rotate_next, history>>
       ELSE Commit
  /\ UNCHANGED <<files, named, current, mode, poisoned, recovery, bounds>>

SyncDirectory ==
  /\ mode = "open" /\ op # None /\ op.kind = "entry"
  /\ FlushDirectory
  /\ Commit
  /\ UNCHANGED <<files, selected, mode, poisoned, recovery, bounds>>

(* What the file that is being written may look like if a write stops in   *)
(* the middle.                                                             *)
Interrupted ==
  IF op # None /\ op.kind = "write" /\ op.items # <<>>
    THEN {files, [files EXCEPT ![op.id] = Append(@, Cut)]}
    ELSE {files}

(* Mutant: an append that failed does not poison the store.                *)
AppendFailsUnpoisoned ==
  /\ mode = "open" /\ op # None
  /\ files' \in Interrupted
  /\ op' = None
  /\ UNCHANGED <<data, named, current, mode, manifest, rotate_next, poisoned,
                 recovery, history, bounds>>

(* Any write or flush fails: the store refuses everything until reopened.  *)
AppendFails ==
  /\ mode = "open" /\ op # None
  /\ files' \in Interrupted
  /\ op' = None
  /\ poisoned' = TRUE
  /\ UNCHANGED <<data, named, current, mode, manifest, rotate_next,
                 recovery, history, bounds>>

-----------------------------------------------------------------------------
(* Publication and maintenance.                                            *)

(* publish: the new manifest becomes durable before CURRENT is replaced,   *)
(* and the directory is flushed before and after.                          *)
Publish ==
  /\ Writable
  /\ selected # manifest
  /\ selected' = manifest
  /\ FlushDirectory
  /\ UNCHANGED <<files, mode, store, recovery, history, bounds>>

(* publish_files stops before the first flush of the directory, before     *)
(* CURRENT is replaced, before that is flushed, or after it.               *)
PublishFails ==
  /\ Writable
  /\ poisoned' = TRUE
  /\ \/ UNCHANGED <<data, named, current>>
     \/ FlushDirectory /\ selected' \in {selected, manifest}
     \/ FlushEntries /\ selected' = manifest /\ reverts' = {selected}
  /\ UNCHANGED <<files, mode, manifest, rotate_next, op, recovery,
                 history, bounds>>

(* The manifest without its first k segments, and its files.               *)
Retired(k) == [manifest EXCEPT !.segments = SubSeq(@, k + 1, Len(@))]

Obsolete(m) == {id \in DOMAIN files : \A i \in DOMAIN m.segments : m.segments[i].id # id}

(* maintenance of a drained store: publish it, select the shorter          *)
(* manifest, then delete the files that it does not list, unless a reader  *)
(* pins the directory.                                                     *)
Maintain(k, rotate) ==
  /\ Writable
  /\ maintains < MaxMaintains
  /\ maintains' = maintains + 1
  /\ manifest' = Retired(k)
  /\ selected' = Retired(k)
  /\ reverts' = {}
  /\ rotate_next' = (rotate_next \/ rotate)
  /\ \E gone \in {{}, Obsolete(Retired(k))} :
       LET kept == DOMAIN files \ gone
       IN /\ files' = [id \in kept |-> files[id]]
          /\ data' = [id \in kept |-> Settled[id]]
          /\ named' = kept
  /\ UNCHANGED <<mode, poisoned, op, recovery, history, appends, opens>>

(* Maintenance stops, and the engine with it: before the second selection  *)
(* is flushed, or while it deletes, with some entries gone from a          *)
(* directory that is not flushed.                                          *)
MaintainFails(k) ==
  /\ Writable
  /\ maintains < MaxMaintains
  /\ maintains' = maintains + 1
  /\ poisoned' = TRUE
  /\ FlushEntries
  /\ selected' = Retired(k)
  /\ \/ reverts' = {manifest} /\ UNCHANGED files
     \/ /\ reverts' = {}
        /\ \E gone \in SUBSET Obsolete(Retired(k)) :
             files' = [id \in DOMAIN files \ gone |-> files[id]]
  /\ UNCHANGED <<mode, manifest, rotate_next, op, recovery,
                 history, appends, opens>>

-----------------------------------------------------------------------------
(* Crashes.                                                                *)

Stop ==
  /\ mode' = "down"
  /\ manifest' = selected'
  /\ Closed

(* The process ends; the operating system still holds what was written.    *)
Crash ==
  /\ mode \in {"recovering", "open"}
  /\ files' \in Interrupted
  /\ UNCHANGED <<data, named, current, history, bounds>>
  /\ Stop

(* What is left of items that were written but not flushed: a part of      *)
(* them, the last one cut, or all of them with one damaged (recovery reads *)
(* no further than the first damage, so one is enough).                    *)
Torn(items) ==
  LET part(k) == SubSeq(items, 1, k)
  IN {part(k) : k \in 0 .. Len(items)}
     \cup {Append(part(k), Cut) : k \in 0 .. Len(items) - 1}
     \cup {[items EXCEPT ![i] = Junk] : i \in {j \in DOMAIN items : items[j] # Cut}}

(* What is left of a file in a directory that keeps the entries dir.       *)
Survivors(id, dir) ==
  IF IsPrefix(data[id], files[id])
    THEN {data[id] \o t : t \in Torn(SubSeq(files[id], Len(data[id]) + 1, Len(files[id])))}
    ELSE IF OrderedMetadata /\ \E later \in dir \ named : later > id
      THEN {files[id]}
      ELSE {data[id], files[id]}

Dirty == {id \in DOMAIN files : data[id] # files[id]}

(* Power is lost: flushed data stays, directory entries that were not      *)
(* flushed may be missing or come back.  (Losing it after a crash leaves   *)
(* nothing else than losing it at once.)                                   *)
LosePower ==
  /\ PowerLoss
  /\ mode \in {"recovering", "open"}
  /\ \E dir \in {d \in SUBSET (DOMAIN files \cup named) : named \cap DOMAIN files \subseteq d} :
       LET left == [id \in Dirty \cap dir |-> Survivors(id, dir)]
       IN /\ \E torn \in [DOMAIN left -> UNION Range(left)] :
               /\ \A id \in DOMAIN left : torn[id] \in left[id]
               /\ files' = [id \in dir |-> IF id \in Dirty THEN torn[id] ELSE data[id]]
          /\ named' = dir
  /\ data' = files'
  /\ selected' \in {selected} \cup reverts
  /\ reverts' = {}
  /\ Stop
  /\ UNCHANGED <<history, bounds>>

-----------------------------------------------------------------------------
NoFiles == [id \in {} |-> <<>>]

Init ==
  /\ scenario \in Scenarios
  /\ files = NoFiles /\ data = NoFiles /\ named = {}
  /\ selected = Manifest(<<>>, <<>>, 1) /\ reverts = {}
  /\ mode = "down" /\ manifest = selected
  /\ rotate_next = FALSE /\ poisoned = FALSE /\ op = None
  /\ flush = <<>> /\ new_files = FALSE
  /\ promised = <<>> /\ limbo = <<>>
  /\ appends = 0 /\ opens = 0 /\ maintains = 0

Step ==
  \/ Open \/ SetLength \/ Flush \/ FinishRecovery
  \/ \E n \in GroupSizes : BeginAppend(n)
  \/ Write \/ SyncFile \/ SyncDirectory \/ AppendFails
  \/ Publish \/ PublishFails
  \/ \E k \in 0 .. Len(manifest.segments) :
       MaintainFails(k) \/ \E rotate \in BOOLEAN : Maintain(k, rotate)
  \/ Crash \/ LosePower

Next == Step /\ UNCHANGED scenario

Spec == Init /\ [][Next]_vars

-----------------------------------------------------------------------------
(* Properties.                                                             *)

(* No interrupted append_group, recover_tail, publish_files or reclaim     *)
(* leaves a directory that open_directory refuses as corrupt.              *)
RecoveryNeverFails == mode # "corrupt"

(* What a power loss at this moment leaves if everything unflushed is      *)
(* lost.                                                                   *)
Flushed == [id \in named |-> data[id]]

(* What append_group and recover_tail have reported is flushed, with its   *)
(* directory entries: if everything else is lost, whichever manifest       *)
(* CURRENT selects then, recover_tail finds the reported log, or it and    *)
(* the whole group in progress.                                            *)
DurableAtEveryMoment ==
  \A m \in {selected} \cup reverts :
    \E r \in {Recovered(Flushed, m)} :
      ~r.error /\ r.manifest.log \in {promised, promised \o limbo}

(* A recover_tail that ends anywhere between its truncations and flushes   *)
(* finds the same log and the same segments when it is tried again.        *)
RecoveryIsRepeatable ==
  mode = "recovering" =>
    \E again \in {Recovered(files, selected)} :
      ~again.error /\ again.manifest = manifest

(* Whether everything unflushed is lost or nothing is, what was reported   *)
(* can be recovered at every moment, of recover_tail itself too.           *)
RecoverableAtEveryMoment == DurableAtEveryMoment /\ RecoveryIsRepeatable
=============================================================================
