------------------------------ MODULE LogReuse ------------------------------
(***************************************************************************)
(* Reuse of log validation by the live owner of a store                    *)
(* (storage/log_validation.rs): publish of storage/store.rs checks only    *)
(* the part of the log that its last proof does not cover, although its    *)
(* caller may ask for any manifest and may have written any log file.      *)
(*                                                                         *)
(* The digest of a record is the history up to it, a sequence of the       *)
(* records' contents, so that a digest names its sequence and all records  *)
(* before it; the genesis digest is the empty history.  A log file is its  *)
(* header's predecessor and the history that its records reach.            *)
(***************************************************************************)
EXTENDS Naturals, Sequences, SequencesExt

(* The bounds of a scenario:                                               *)
(*   records        records of a history                                   *)
(*   publications   generations                                            *)
(*   files          log files                                              *)
(*   pending        MAX_PENDING_ANCHORS                                    *)
CONSTANT Scenarios

ASSUME LogScenarios ==
  Scenarios \subseteq [records : Nat, publications : Nat, files : Nat, pending : Nat]

VARIABLES
  bounds,     \* the member of Scenarios in force; never changes
  files,      \* segment identifier -> [pred, records]
  manifest,   \* Store::manifest
  proof,      \* RuntimeValidation::logs
  rotate,     \* Store::rotate_next
  runtime,    \* the live database owns the store
  poisoned

logVars == <<bounds, files, manifest, proof, rotate, runtime, poisoned>>

MaxSequence == bounds.records
MaxGeneration == bounds.publications
MaxFiles == bounds.files
MAX_PENDING == bounds.pending

Contents == {0, 1}
Histories == UNION {[1 .. n -> Contents] : n \in 0 .. MaxSequence}
Digest(history, sequence) == SubSeq(history, 1, sequence)

Segment(id, pred, last) == [id |-> id, pred |-> pred, last |-> last]
NoProof == [some |-> FALSE, manifest |-> <<>>, pending |-> <<>>]
Proof(m, pending) == [some |-> TRUE, manifest |-> m, pending |-> pending]

-----------------------------------------------------------------------------
(* Full validation.                                                        *)

ValidSegment(m, i) ==
  LET g == m.segments[i]
      before == IF i = 1 THEN m.floor - 1 ELSE Len(m.segments[i - 1].last)
  IN  /\ g.id < m.next /\ Len(g.pred) = before /\ Len(g.last) > before
      /\ i > 1 => g.id > m.segments[i - 1].id /\ g.pred = m.segments[i - 1].last
      /\ Len(g.pred) = Len(m.checkpoint) => g.pred = m.checkpoint
      /\ Len(g.last) = Len(m.checkpoint) => g.last = m.checkpoint

ValidateManifest(m) ==
  LET count == Len(m.segments)
  IN  /\ Len(m.checkpoint) <= Len(m.durable)
      /\ Len(m.checkpoint) = Len(m.durable) => m.checkpoint = m.durable
      /\ m.floor \in 1 .. Len(m.checkpoint) + 1
      /\ IF count = 0 THEN m.checkpoint = m.durable /\ m.floor = Len(m.durable) + 1
         ELSE m.segments[count].last = m.durable /\ \A i \in 1 .. count : ValidSegment(m, i)

(* Records from the digest reached so far to the segment's end: the header *)
(* agrees, every record follows the one before it, the checkpoint's digest *)
(* is that of its record.                                                  *)
ReadsSuffix(m, g, reached) ==
  /\ g.id \in DOMAIN files
  /\ files[g.id].pred = g.pred
  /\ Len(g.last) <= Len(files[g.id].records)
  /\ LET found == files[g.id].records
     IN  /\ Digest(found, Len(reached)) = reached
         /\ Digest(found, Len(g.last)) = g.last
         /\ Len(m.checkpoint) \in Len(reached) + 1 .. Len(g.last) =>
              Digest(found, Len(m.checkpoint)) = m.checkpoint

ValidateLogs(m) ==
  /\ ValidateManifest(m)
  /\ \A i \in DOMAIN m.segments : ReadsSuffix(m, m.segments[i], m.segments[i].pred)

(* The candidate continues the acknowledged log, and its checkpoint is one *)
(* of the acknowledged records unless it is later than all of them.        *)
ValidateAnchors(old, next) ==
  /\ Len(next.durable) > Len(old.durable) => ValidateLogs([next EXCEPT !.checkpoint = old.durable])
  /\ Len(next.checkpoint) \in Len(old.checkpoint) + 1 .. Len(old.durable) =>
       ValidateLogs([old EXCEPT !.checkpoint = next.checkpoint])

ValidateTransition(old, next) ==
  /\ next.namespace = old.namespace
  /\ Len(next.checkpoint) >= Len(old.checkpoint) /\ Len(next.durable) >= Len(old.durable)
  /\ next.floor >= old.floor /\ next.next >= old.next
  /\ Len(next.checkpoint) = Len(old.checkpoint) => next.checkpoint = old.checkpoint
  /\ Len(next.durable) = Len(old.durable) => next.durable = old.durable
  /\ \A g \in Range(next.segments) :
       IF \E h \in Range(old.segments) : h.id = g.id
       THEN \E i \in DOMAIN old.segments :
              LET h == old.segments[i]
              IN  /\ h.id = g.id /\ g.pred = h.pred /\ Len(g.last) >= Len(h.last)
                  /\ g # h => i = Len(old.segments)
       ELSE g.id >= old.next

-----------------------------------------------------------------------------
(* Validation of an extension: accepted with a new proof, refused, or left *)
(* to full validation.                                                     *)

Refused == [verdict |-> "refused", proof |-> NoProof]
Full == [verdict |-> "full", proof |-> NoProof]

(* The identity, the floors and the identifiers continue the proof's.      *)
Continues(old, next) ==
  /\ proof.manifest = old /\ next.generation = old.generation + 1
  /\ next.namespace = old.namespace /\ next.floor = old.floor /\ next.next >= old.next
  /\ Len(next.checkpoint) >= Len(old.checkpoint) /\ Len(next.durable) >= Len(old.durable)

(* At most the last segment grows and one is new.                          *)
SegmentsExtend(old, next) ==
  LET count == Len(old.segments)
  IN  /\ Len(next.segments) \in count .. count + 1
      /\ \A i \in 1 .. count - 1 : next.segments[i] = old.segments[i]
      /\ count > 0 /\ next.segments[count] # old.segments[count] =>
           /\ next.segments[count].id = old.segments[count].id
           /\ next.segments[count].pred = old.segments[count].pred
           /\ Len(next.segments[count].last) > Len(old.segments[count].last)
      /\ Len(next.segments) > count => next.segments[count + 1].id >= old.next

(* The digest that the log reaches before segment i is read.               *)
Reached(old, next, i) ==
  IF i > Len(old.segments) /\ i > 1 THEN next.segments[i - 1].last ELSE old.durable

ReadsExtension(old, next) ==
  /\ \A i \in DOMAIN next.segments :
       \/ i <= Len(old.segments) /\ next.segments[i] = old.segments[i]
       \/ /\ i > Len(old.segments) => next.segments[i].pred = Reached(old, next, i)
          /\ ReadsSuffix(next, next.segments[i], Reached(old, next, i))
  /\ IF next.segments = old.segments THEN next.durable = old.durable
     ELSE next.segments[Len(next.segments)].last = next.durable

(* Mutant: the anchors that the new checkpoint covers are kept.            *)
UnprunedAfter(old, next) ==
  LET from == IF Len(next.checkpoint) > Len(old.durable) THEN Len(next.checkpoint) ELSE Len(old.durable)
  IN  proof.pending \o [i \in 1 .. Len(next.durable) - from |-> Digest(next.durable, from + i)]

(* The digests after the checkpoint: kept from the proof, then read.       *)
PendingAfter(old, next) ==
  LET least(a, b) == IF a < b THEN a ELSE b
      pruned == least(Len(next.checkpoint), Len(old.durable)) - Len(old.checkpoint)
      from == IF Len(next.checkpoint) > Len(old.durable) THEN Len(next.checkpoint) ELSE Len(old.durable)
  IN  SubSeq(proof.pending, pruned + 1, Len(proof.pending))
        \o [i \in 1 .. Len(next.durable) - from |-> Digest(next.durable, from + i)]

KnownAnchor(old, next) ==
  IF Len(next.checkpoint) > Len(old.durable) THEN next.checkpoint
  ELSE IF Len(next.checkpoint) = Len(old.checkpoint) THEN old.checkpoint
  ELSE proof.pending[Len(next.checkpoint) - Len(old.checkpoint)]

ValidateExtension(old, next) ==
  IF ~ValidateManifest(next) THEN Refused
  ELSE IF ~Continues(old, next) THEN Full
  ELSE IF \/ Len(next.durable) = Len(old.durable) /\ next.durable # old.durable
          \/ next.checkpoint # KnownAnchor(old, next) THEN Refused
  ELSE IF ~SegmentsExtend(old, next) \/ Len(next.durable) - Len(next.checkpoint) > MAX_PENDING
    THEN Full
  ELSE IF ~ReadsExtension(old, next) THEN Refused
  ELSE [verdict |-> "accepted", proof |-> Proof(next, PendingAfter(old, next))]

AtCheckpoint(m) == IF m.checkpoint = m.durable THEN Proof(m, <<>>) ELSE NoProof

(* A proof is carried over a group that its owner appended.                *)
Committed(next, digests) ==
  IF \/ ~proof.some \/ proof.manifest # manifest
     \/ Len(next.durable) - Len(next.checkpoint) > MAX_PENDING
  THEN NoProof
  ELSE Proof(next, proof.pending \o digests)

-----------------------------------------------------------------------------
(* Operations.                                                             *)

LogInit ==
  /\ bounds \in Scenarios
  /\ files = <<>>
  /\ manifest = [generation |-> 1, namespace |-> 1, checkpoint |-> <<>>, durable |-> <<>>,
                 floor |-> 1, next |-> 1, segments |-> <<>>]
  /\ proof = NoProof /\ rotate = FALSE /\ runtime = FALSE /\ poisoned = FALSE

Enable == ~runtime /\ runtime' = TRUE /\ UNCHANGED <<files, manifest, proof, rotate, poisoned>>

(* append_group, of one or two records, to the last file or to a new one,  *)
(* whose identifier is the first that no file has; a failed write or flush *)
(* poisons the store.                                                      *)
AppendGroup(group) ==
  LET new == rotate \/ manifest.segments = <<>>
      durable == manifest.durable \o group
      count == Len(manifest.segments)
      id == Len(files) + 1
      digests == [i \in DOMAIN group |-> Digest(durable, Len(manifest.durable) + i)]
      next == IF new
              THEN [manifest EXCEPT !.durable = durable, !.next = id + 1,
                      !.segments = Append(@, Segment(id, manifest.durable, durable))]
              ELSE [manifest EXCEPT !.durable = durable, !.segments[count].last = durable]
      last == manifest.segments[count].id
  IN  /\ ~poisoned /\ Len(durable) <= MaxSequence
      /\ IF new THEN Len(files) < MaxFiles ELSE files[last].records = manifest.durable
      /\ files' = IF new THEN Append(files, [pred |-> manifest.durable, records |-> durable])
                  ELSE [files EXCEPT ![last].records = durable]
      /\ \/ /\ manifest' = next /\ rotate' = FALSE
            /\ proof' = IF runtime THEN Committed(next, digests) ELSE proof
            /\ UNCHANGED poisoned
         \/ poisoned' = TRUE /\ UNCHANGED <<manifest, proof, rotate>>
      /\ UNCHANGED runtime

(* append_group finds that the last file does not end with the log: it     *)
(* writes nothing, and the store is poisoned.                              *)
RefuseTail ==
  /\ ~poisoned /\ ~rotate /\ manifest.segments # <<>>
  /\ files[manifest.segments[Len(manifest.segments)].id].records # manifest.durable
  /\ poisoned' = TRUE
  /\ UNCHANGED <<files, manifest, proof, rotate, runtime>>

(* A caller of publish writes records itself: to a new file, whatever they *)
(* follow, or behind the last segment's end.                               *)
WriteFile(pred, record) ==
  /\ Len(files) < MaxFiles /\ Len(pred) < MaxSequence
  /\ files' = Append(files, [pred |-> pred, records |-> Append(pred, record)])
  /\ UNCHANGED <<manifest, proof, rotate, runtime, poisoned>>
WriteTail(record) ==
  /\ manifest.segments # <<>> /\ Len(manifest.durable) < MaxSequence
  /\ LET last == manifest.segments[Len(manifest.segments)].id
     IN  /\ files[last].records = manifest.durable
         /\ files' = [files EXCEPT ![last].records = Append(@, record)]
  /\ UNCHANGED <<manifest, proof, rotate, runtime, poisoned>>

(* The manifests a caller may ask for: any checkpoint, and segments        *)
(* dropped, extended or added, with the end that their digests claim.      *)
WithSegments(segments) ==
  LET end == IF segments = <<>> THEN manifest.durable ELSE segments[Len(segments)].last
  IN  {[manifest EXCEPT !.segments = segments, !.durable = end, !.checkpoint = checkpoint,
          !.floor = IF segments = <<>> THEN Len(end) + 1 ELSE Len(segments[1].pred) + 1,
          !.next = IF Len(files) + 1 > @ THEN Len(files) + 1 ELSE @] :
         checkpoint \in {h \in Histories : Len(h) <= Len(end)}}
Dropped ==
  {SubSeq(manifest.segments, n, Len(manifest.segments)) : n \in 1 .. Len(manifest.segments) + 1}
Extended(segments) ==
  {segments}
    \cup {[segments EXCEPT ![Len(segments)].last = h] :
            h \in {h \in Histories : segments # <<>> /\ Len(h) > Len(manifest.durable)}}
    \cup {Append(segments, Segment(id, files[id].pred, h)) :
            id \in DOMAIN files, h \in {h \in Histories : Len(h) > Len(manifest.durable)}}
Proposals == UNION {Extended(d) : d \in Dropped}

(* publish: what is selected when every check passes, and the proof kept.  *)
Numbered(m) == [m EXCEPT !.generation = manifest.generation + 1]
Shortcut(m) == IF proof.some THEN ValidateExtension(manifest, m) ELSE Full
FullyValid(m) == ValidateLogs(m) /\ ValidateAnchors(manifest, m)

(* publish_files: the store has what it selected, or it is poisoned and    *)
(* the disk selects either manifest.                                       *)
PublishFiles(m, kept) ==
  /\ \/ manifest' = m /\ proof' = kept /\ UNCHANGED poisoned
     \/ poisoned' = TRUE /\ manifest' \in {manifest, m} /\ UNCHANGED proof
  /\ UNCHANGED <<files, runtime>>
Kept(logs) == IF runtime THEN logs ELSE proof

Publish(candidate) ==
  LET m == Numbered(candidate)
  IN  /\ ~poisoned /\ manifest.generation < MaxGeneration
      /\ ValidateTransition(manifest, candidate) /\ ValidateManifest(m)
      /\ \E found \in {Shortcut(m)} :
           \/ found.verdict = "accepted" /\ PublishFiles(m, Kept(found.proof))
           \/ found.verdict = "full" /\ FullyValid(m) /\ PublishFiles(m, Kept(AtCheckpoint(m)))
      /\ UNCHANGED rotate

(* adopt, of a drained store: validated in full, and every proof is gone.  *)
Adopt(candidate) ==
  LET m == Numbered(candidate)
  IN  /\ ~poisoned /\ manifest.generation < MaxGeneration
      /\ m.checkpoint = m.durable /\ m.checkpoint = manifest.checkpoint
      /\ ValidateTransition(manifest, candidate) /\ FullyValid(m)
      /\ PublishFiles(m, NoProof)
      /\ \E rotate_log \in BOOLEAN : rotate' = (rotate \/ rotate_log)

(* renew_namespace changes the manifest and leaves the proof as it was.    *)
RenewNamespace ==
  /\ ~poisoned /\ manifest.generation < MaxGeneration
  /\ PublishFiles([Numbered(manifest) EXCEPT !.namespace = @ + 1], proof)
  /\ UNCHANGED rotate

(* The process ends; recovery keeps what follows the last segment's end,   *)
(* and the new owner starts a new segment.                                 *)
Reopen ==
  /\ runtime \/ poisoned
  /\ LET count == Len(manifest.segments)
         found == files[manifest.segments[count].id].records
     IN  manifest' = IF count = 0 THEN manifest
                     ELSE [manifest EXCEPT !.durable = found, !.segments[count].last = found]
  /\ proof' = NoProof /\ runtime' = FALSE /\ poisoned' = FALSE
  /\ rotate' = TRUE /\ UNCHANGED files

LogSteps ==
  \/ Enable
  \/ \E group \in {<<0>>, <<0, 0>>} : AppendGroup(group)
  \/ RefuseTail
  \/ \E pred \in Histories : WriteFile(pred, 1)
  \/ WriteTail(1)
  \/ \E segments \in Proposals : \E candidate \in WithSegments(segments) :
       Publish(candidate) \/ Adopt(candidate)
  \/ RenewNamespace
  \/ Reopen

LogNext == LogSteps /\ UNCHANGED bounds

LogSpec == LogInit /\ [][LogNext]_logVars

-----------------------------------------------------------------------------
(* A usable proof has the digest of every record after the checkpoint.     *)
PendingIsExact ==
  proof.some /\ proof.manifest = manifest =>
    LET from == Len(manifest.checkpoint)
    IN  /\ Len(proof.pending) = Len(manifest.durable) - from
        /\ \A i \in DOMAIN proof.pending : proof.pending[i] = Digest(manifest.durable, from + i)

(* What the shortcut and full validation say of a manifest: neither        *)
(* accepts what the other refuses, and what is accepted continues the      *)
(* acknowledged history and has its checkpoint in it.                      *)
DecidesAsFull(m) ==
  LET found == Shortcut(m).verdict
      full == FullyValid(m)
  IN  /\ found = "accepted" => full
      /\ found = "refused" => ~full
      /\ full => IsPrefix(manifest.durable, m.durable) /\ IsPrefix(m.checkpoint, m.durable)

(* The shortcut decides as reading every log file would, for whatever      *)
(* manifest and files the caller supplies; and every manifest that was     *)
(* selected or extended on the strength of it is one that recovery, which  *)
(* has no proof, accepts.                                                  *)
ShortcutIsSound ==
  /\ ValidateLogs(manifest)
  /\ PendingIsExact
  /\ ~poisoned =>
       \A segments \in Proposals : \A candidate \in WithSegments(segments) :
         ValidateTransition(manifest, candidate) => DecidesAsFull(Numbered(candidate))
=============================================================================
