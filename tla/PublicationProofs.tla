------------------------- MODULE PublicationProofs -------------------------
(***************************************************************************)
(* CURRENT always names a complete generation, for every number of         *)
(* publications, compactions, attachments and faults.                      *)
(*                                                                         *)
(* The invariant says of every CURRENT that a power loss may leave that    *)
(* its manifest and its page file are settled and its pages flushed, and   *)
(* of a publication in progress, by the steps it has still to do, how much *)
(* of that holds of its own manifest.                                      *)
(***************************************************************************)
EXTENDS Publication, TLAPS, SequenceTheorems, WellFoundedInduction

-----------------------------------------------------------------------------
(* What is left of a job.                                                  *)

Steps ==
  {"sync_directory", "sync_pages", "sync_new_pages", "copy_pages",
   "write_manifest", "flush_manifest", "rename_manifest", "copy_manifest",
   "flush_manifest_file", "write_current", "flush_current", "rename_current",
   "write_marker", "remove_marker", "write_role", "remove_role", "reclaim"}

SyncSelection(z) == <<"sync_directory">> \o z
RenameCurrent(z) == <<"rename_current">> \o SyncSelection(z)
FlushCurrent(z) == <<"flush_current">> \o RenameCurrent(z)
WriteCurrent(z) == <<"write_current">> \o FlushCurrent(z)
SyncManifest(z) == <<"sync_directory">> \o WriteCurrent(z)
RenameManifest(z) == <<"rename_manifest">> \o SyncManifest(z)
FlushManifest(z) == <<"flush_manifest">> \o RenameManifest(z)
WriteManifest(z) == <<"write_manifest">> \o FlushManifest(z)
SyncFiles(z) == <<"sync_directory">> \o WriteManifest(z)
FlushBoth(z) == <<"sync_pages">> \o SyncFiles(z)
FlushOnly(z) == <<"sync_pages">> \o WriteManifest(z)
FlushNew(z) == <<"sync_new_pages">> \o FlushBoth(z)
SyncMarker(z) == <<"sync_directory">> \o FlushBoth(z)
WriteMarker(z) == <<"write_marker">> \o SyncMarker(z)

Unmarked == <<"sync_directory">>
RemoveMarker == <<"remove_marker">> \o Unmarked
SyncRole == <<"sync_directory">> \o RemoveMarker
RoleStep(read_only) == IF read_only THEN "write_role" ELSE "remove_role"
WriteRole(read_only) == <<RoleStep(read_only)>> \o SyncRole

SyncCopy == <<"sync_directory">> \o WriteCurrent(<<>>)
FlushCopy == <<"flush_manifest_file">> \o SyncCopy
CopyManifest == <<"copy_manifest">> \o FlushCopy
FlushCopied == <<"sync_pages">> \o CopyManifest
CopyPages == <<"copy_pages">> \o FlushCopied
SyncCopyMarker == <<"sync_directory">> \o CopyPages
WriteCopyMarker == <<"write_marker">> \o SyncCopyMarker

Reclaim == <<"reclaim">>

(* What follows the selection.                                             *)
End ==
  IF job.kind = "adopt" THEN Reclaim
  ELSE IF job.kind = "attach" THEN WriteRole(roles[Len(roles)]) ELSE <<>>

-----------------------------------------------------------------------------
(* The invariant.                                                          *)

Manifests ==
  [generation : Nat, page_file_id : Nat, page_count : Nat, checkpoint_sequence : Nat,
   root : Nat, namespace : Nat]
Kinds == {"absent", "torn", "metadata", "marker", "role", "pages"}
Entries == [kind : Kinds, body : Manifests, flushed : BOOLEAN]
Selected(m) == [kind |-> "metadata", body |-> m, flushed |-> TRUE]

JobKinds == {"none", "create", "copy", "attach", "publish", "adopt"}

TypeOK ==
  /\ scenario \in Scenarios
  /\ dir \in [Names -> Entries] /\ past \in [Names -> SUBSET Entries]
  /\ pages \in [1 .. MaxFile -> Seq(Nat)] /\ synced \in [1 .. MaxFile -> Nat]
  /\ logged \in Nat /\ mode \in {"new", "creating", "down", "recovering", "serving"}
  /\ manifest \in Manifests /\ root \in Nat /\ poisoned \in BOOLEAN
  /\ job \in [kind : JobKinds, todo : Seq(Steps), manifest : Manifests]
  /\ pins \in SUBSET Manifests /\ acked \in Manifests /\ roles \in Seq(BOOLEAN)

(* Which values an entry may have.                                         *)
EntriesInv ==
  /\ \A n \in Names : dir[n] \in past[n]
  /\ past[ATTACH_REQUIRED] \subseteq {Absent, Mark("marker")}
  /\ past[READ_ONLY] \subseteq {Absent, Mark("role")}
  /\ \A f \in 1 .. MaxFile : past[PagesFile(f)] \subseteq {Absent, Mark("pages")}
  /\ \A f \in 1 .. MaxFile : synced[f] <= Len(pages[f])

InRange(m) ==
  m \in Manifests /\ m.generation \in 1 .. MaxGeneration /\ m.page_file_id \in 1 .. MaxFile

(* The pages of a manifest are written; flushed; and their file named.     *)
Contents(m) == CompletePages(m, pages[m.page_file_id])
Flushed(m) == Contents(m) /\ m.page_count <= synced[m.page_file_id]
Settled(m) == past[PagesFile(m.page_file_id)] = {Mark("pages")}
Named(m) == dir[PagesFile(m.page_file_id)] = Mark("pages")

Complete(m) ==
  InRange(m) /\ Flushed(m) /\ Settled(m) /\ past[ManifestFile(m.generation)] = {Selected(m)}

Recent(m) ==
  m.generation >= acked.generation /\ m.checkpoint_sequence >= acked.checkpoint_sequence

(* A manifest of the same page file has no more pages.                     *)
Within(m, n) == m.page_file_id = n.page_file_id => m.page_count <= n.page_count

(* Every CURRENT that may be left names a complete manifest.               *)
SelectInv ==
  \A c \in past[CURRENT] :
    \/ c = Absent /\ acked = NoManifest
    \/ /\ c = Selected(c.body) /\ Complete(c.body) /\ Recent(c.body)
       /\ IsFile(dir[CURRENT]) /\ Within(c.body, dir[CURRENT].body)

(* An open store.                                                          *)
StoreInv ==
  mode \in {"recovering", "serving"} =>
    /\ InRange(manifest) /\ root \in 1 .. Len(pages[manifest.page_file_id])
    /\ job.kind # "attach" => Selected(manifest) \in past[CURRENT]
    /\ job = NoJob /\ ~poisoned => dir[CURRENT] = Selected(manifest)

PinInv ==
  /\ mode # "serving" => pins = {}
  /\ \A m \in pins : m.page_file_id \in 1 .. MaxFile /\ Named(m) /\ Contents(m)

AttachInv ==
  Copied /\ Absent \in past[ATTACH_REQUIRED] =>
    \A c \in past[CURRENT] : IsFile(c) =>
      /\ c.body.namespace \in 1 .. Len(roles)
      /\ \A e \in past[READ_ONLY] : IsFile(e) = roles[c.body.namespace]

(* Nothing is there before the directory is made.                          *)
NewInv ==
  /\ mode = "new" =>
       /\ past[CURRENT] = {Absent} /\ synced[1] = 0 /\ job = NoJob /\ acked = NoManifest
       /\ ~poisoned
  /\ mode = "down" => job = NoJob
  /\ job.kind = "none" => job = NoJob

-----------------------------------------------------------------------------
(* A job in progress.                                                      *)

(* Its manifest is not selected yet.                                       *)
Before(m) ==
  /\ IF mode = "creating" THEN past[CURRENT] = {Absent} ELSE dir[CURRENT] = Selected(manifest)
  /\ \A c \in past[CURRENT] : IsFile(c) => Within(c.body, m)
  /\ job.kind \in {"publish", "adopt"} => m.namespace = manifest.namespace

Preparing(m) ==
  /\ Before(m) /\ Contents(m)
  /\ \/ job.todo = FlushNew(End) /\ Named(m) /\ job.kind = "adopt"
     \/ /\ job.todo = FlushBoth(End) /\ Named(m)
        /\ m.page_file_id = manifest.page_file_id \/ Flushed(m)
     \/ job.todo = FlushOnly(End) /\ Settled(m) /\ m.page_file_id = manifest.page_file_id
     \/ job.todo = SyncFiles(End) /\ Named(m) /\ Flushed(m)

Writing(m) ==
  /\ Before(m) /\ Flushed(m) /\ Settled(m)
  /\ \/ job.todo = WriteManifest(End)
     \/ job.todo = FlushManifest(End) /\ dir[manifest_pending] = Written(m)
     \/ job.todo = RenameManifest(End) /\ dir[manifest_pending] = Selected(m)
     \/ job.todo = SyncManifest(End) /\ dir[ManifestFile(m.generation)] = Selected(m)

Choosing(m) ==
  /\ Before(m) /\ Complete(m)
  /\ \/ job.todo = WriteCurrent(End)
     \/ job.todo = FlushCurrent(End) /\ dir[CURRENT_pending] = Written(m)
     \/ job.todo = RenameCurrent(End) /\ dir[CURRENT_pending] = Selected(m)

Chosen(m) ==
  /\ job.todo = SyncSelection(End)
  /\ Complete(m) /\ dir[CURRENT] = Selected(m)

(* publish_files.                                                          *)
Running(m) == Preparing(m) \/ Writing(m) \/ Choosing(m) \/ Chosen(m)

Marked == past[ATTACH_REQUIRED] = {Mark("marker")}

(* The first steps of an attachment, and its last ones.                    *)
Marking(m) ==
  /\ Before(m) /\ Contents(m) /\ Named(m)
  /\ \/ job.todo = WriteMarker(End)
     \/ job.todo = SyncMarker(End) /\ dir[ATTACH_REQUIRED] = Mark("marker")

Finishing(m) ==
  /\ past[CURRENT] = {Selected(m)} /\ Complete(m)
  /\ \/ job.todo = End /\ Marked
     \/ job.todo = SyncRole /\ Marked /\ IsFile(dir[READ_ONLY]) = roles[Len(roles)]
     \/ /\ job.todo = RemoveMarker /\ Marked
        /\ \A e \in past[READ_ONLY] : IsFile(e) = roles[Len(roles)]
     \/ job.todo = Unmarked

Attaching(m) ==
  /\ mode = "recovering" /\ Copied
  /\ roles # <<>> /\ m.namespace = Len(roles)
  /\ m.page_file_id = manifest.page_file_id
  /\ Marking(m) \/ Finishing(m) \/ (Running(m) /\ Marked)

Copying(m) ==
  /\ mode = "creating" /\ Copied /\ m = Manifest(1, 1, 1, logged, 1, 0) /\ manifest = m
  /\ \/ /\ past[CURRENT] = {Absent}
        /\ \/ job.todo = WriteCopyMarker /\ synced[1] = 0
           \/ job.todo = SyncCopyMarker /\ synced[1] = 0 /\ dir[ATTACH_REQUIRED] = Mark("marker")
           \/ job.todo = CopyPages /\ synced[1] = 0 /\ Marked
           \/ job.todo = FlushCopied /\ Marked /\ Named(m) /\ Contents(m)
           \/ job.todo = CopyManifest /\ Marked /\ Named(m) /\ Flushed(m)
           \/ /\ job.todo = FlushCopy /\ Marked /\ Named(m) /\ Flushed(m)
              /\ dir[ManifestFile(1)] = Written(m)
           \/ /\ job.todo = SyncCopy /\ Marked /\ Named(m) /\ Flushed(m)
              /\ dir[ManifestFile(1)] = Selected(m)
     \/ Marked /\ (Choosing(m) \/ Chosen(m))

Creating(m) ==
  /\ mode = "creating" /\ ~Copied
  /\ m.page_file_id = manifest.page_file_id /\ root \in 1 .. Len(pages[m.page_file_id])
  /\ Running(m)

Publishing(m) ==
  /\ mode \in {"recovering", "serving"}
  /\ m.page_file_id = manifest.page_file_id
  /\ Running(m)

Adopting(m) ==
  /\ mode = "serving"
  /\ \/ Running(m)
     \/ job.todo = Reclaim /\ manifest = m /\ past[CURRENT] = {Selected(m)} /\ Complete(m)

JobInv ==
  job # NoJob =>
    /\ ~poisoned /\ InRange(job.manifest) /\ Recent(job.manifest)
    /\ \/ job.kind = "create" /\ Creating(job.manifest)
       \/ job.kind = "copy" /\ Copying(job.manifest)
       \/ job.kind = "attach" /\ Attaching(job.manifest)
       \/ job.kind = "publish" /\ Publishing(job.manifest)
       \/ job.kind = "adopt" /\ Adopting(job.manifest)

PublicationInv ==
  /\ TypeOK /\ EntriesInv /\ SelectInv /\ StoreInv /\ PinInv /\ AttachInv /\ NewInv /\ JobInv

-----------------------------------------------------------------------------
(* Names and sequences.                                                    *)

(* The bounds of the scenario in force.                                    *)
LEMMA Bounds ==
  ASSUME scenario \in Scenarios
  PROVE  /\ MaxGeneration \in Nat \ {0} /\ MaxFile \in Nat \ {0} /\ MaxSequence \in Nat
         /\ Copied \in BOOLEAN
BY PublicationBounds DEF MaxGeneration, MaxFile, MaxSequence, Copied

Single == {CURRENT, CURRENT_pending, manifest_pending, ATTACH_REQUIRED, READ_ONLY}

(* Different files have different names.                                   *)
LEMMA NamesDiffer ==
  /\ CURRENT # CURRENT_pending /\ CURRENT # manifest_pending
  /\ CURRENT # ATTACH_REQUIRED /\ CURRENT # READ_ONLY
  /\ CURRENT_pending # manifest_pending /\ CURRENT_pending # ATTACH_REQUIRED
  /\ CURRENT_pending # READ_ONLY /\ manifest_pending # ATTACH_REQUIRED
  /\ manifest_pending # READ_ONLY /\ ATTACH_REQUIRED # READ_ONLY
  /\ \A g : ManifestFile(g) \notin Single
  /\ \A f : PagesFile(f) \notin Single
  /\ \A f, g : PagesFile(f) # ManifestFile(g)
  /\ \A g, h : ManifestFile(g) = ManifestFile(h) => g = h
  /\ \A f, h : PagesFile(f) = PagesFile(h) => f = h
BY DEF CURRENT, CURRENT_pending, manifest_pending, ATTACH_REQUIRED, READ_ONLY, Single,
       ManifestFile, PagesFile

(* The names of a directory.                                               *)
LEMMA NamesHold ==
  /\ Single \subseteq Names
  /\ \A g \in 1 .. MaxGeneration : ManifestFile(g) \in Names
  /\ \A f \in 1 .. MaxFile : PagesFile(f) \in Names
BY DEF Names, Single

(* A sequence that begins with a step.                                     *)
LEMMA FirstStep ==
  ASSUME NEW S, NEW x \in S, NEW s \in Seq(S)
  PROVE  /\ <<x>> \o s \in Seq(S) /\ Len(<<x>> \o s) = Len(s) + 1
         /\ Head(<<x>> \o s) = x /\ Tail(<<x>> \o s) = s /\ Len(s) \in Nat
<1>1. <<x>> \in Seq(S) /\ Len(<<x>>) = 1 /\ <<x>>[1] = x
  OBVIOUS
<1>2. Len(s) \in Nat
  BY LenProperties
<1> PICK t : t = <<x>> \o s
  OBVIOUS
<1>3. /\ t \in Seq(S) /\ Len(t) = Len(s) + 1
      /\ \A i \in 1 .. 1 + Len(s) : t[i] = IF i <= 1 THEN <<x>>[i] ELSE s[i - 1]
  BY <1>1, <1>2, ConcatProperties
<1>4. t[1] = x /\ \A i \in 1 .. Len(s) : t[i + 1] = s[i]
  BY <1>1, <1>2, <1>3
<1>5. t # <<>> /\ Head(t) = t[1]
  BY <1>2, <1>3
<1>6. /\ Tail(t) \in Seq(S) /\ Len(Tail(t)) = Len(t) - 1
      /\ \A i \in 1 .. Len(Tail(t)) : Tail(t)[i] = t[i + 1]
  BY <1>3, <1>5, HeadTailProperties
<1>7. Tail(t) = s
  <2>1. Len(Tail(t)) = Len(s)
    BY <1>2, <1>3, <1>6
  <2>2. \A i \in 1 .. Len(Tail(t)) : Tail(t)[i] = s[i]
    BY <1>4, <1>6, <2>1
  <2> QED
    BY <1>6, <2>1, <2>2, SeqEqual
<1> QED
  BY <1>2, <1>3, <1>4, <1>5, <1>7

(* A list of steps that begins with a step and goes on with others.        *)
Goes(s, step, next) ==
  /\ s \in Seq(Steps) /\ Head(s) = step /\ Tail(s) = next
  /\ Len(s) = Len(next) + 1 /\ Len(next) \in Nat

(* A step before others.                                                   *)
LEMMA Prepend ==
  ASSUME NEW x \in Steps, NEW s \in Seq(Steps)
  PROVE  Goes(<<x>> \o s, x, s)
BY FirstStep DEF Goes

(* The steps that publish_files has before others.                         *)
LEMMA PublishSteps ==
  ASSUME NEW z \in Seq(Steps)
  PROVE  /\ Goes(SyncSelection(z), "sync_directory", z)
         /\ Goes(RenameCurrent(z), "rename_current", SyncSelection(z))
         /\ Goes(FlushCurrent(z), "flush_current", RenameCurrent(z))
         /\ Goes(WriteCurrent(z), "write_current", FlushCurrent(z))
         /\ Goes(SyncManifest(z), "sync_directory", WriteCurrent(z))
         /\ Goes(RenameManifest(z), "rename_manifest", SyncManifest(z))
         /\ Goes(FlushManifest(z), "flush_manifest", RenameManifest(z))
         /\ Goes(WriteManifest(z), "write_manifest", FlushManifest(z))
         /\ Goes(SyncFiles(z), "sync_directory", WriteManifest(z))
         /\ Goes(FlushBoth(z), "sync_pages", SyncFiles(z))
         /\ Goes(FlushOnly(z), "sync_pages", WriteManifest(z))
         /\ Goes(FlushNew(z), "sync_new_pages", FlushBoth(z))
         /\ Goes(SyncMarker(z), "sync_directory", FlushBoth(z))
         /\ Goes(WriteMarker(z), "write_marker", SyncMarker(z))
<1>1. Goes(SyncSelection(z), "sync_directory", z)
  BY Prepend DEF SyncSelection, Steps
<1>2. Goes(RenameCurrent(z), "rename_current", SyncSelection(z))
  BY <1>1, Prepend DEF RenameCurrent, Steps, Goes
<1>3. Goes(FlushCurrent(z), "flush_current", RenameCurrent(z))
  BY <1>2, Prepend DEF FlushCurrent, Steps, Goes
<1>4. Goes(WriteCurrent(z), "write_current", FlushCurrent(z))
  BY <1>3, Prepend DEF WriteCurrent, Steps, Goes
<1>5. Goes(SyncManifest(z), "sync_directory", WriteCurrent(z))
  BY <1>4, Prepend DEF SyncManifest, Steps, Goes
<1>6. Goes(RenameManifest(z), "rename_manifest", SyncManifest(z))
  BY <1>5, Prepend DEF RenameManifest, Steps, Goes
<1>7. Goes(FlushManifest(z), "flush_manifest", RenameManifest(z))
  BY <1>6, Prepend DEF FlushManifest, Steps, Goes
<1>8. Goes(WriteManifest(z), "write_manifest", FlushManifest(z))
  BY <1>7, Prepend DEF WriteManifest, Steps, Goes
<1>9. Goes(SyncFiles(z), "sync_directory", WriteManifest(z))
  BY <1>8, Prepend DEF SyncFiles, Steps, Goes
<1>10. Goes(FlushBoth(z), "sync_pages", SyncFiles(z))
  BY <1>9, Prepend DEF FlushBoth, Steps, Goes
<1>11. Goes(FlushOnly(z), "sync_pages", WriteManifest(z))
  BY <1>8, Prepend DEF FlushOnly, Steps, Goes
<1>12. Goes(FlushNew(z), "sync_new_pages", FlushBoth(z))
  BY <1>10, Prepend DEF FlushNew, Steps, Goes
<1>13. Goes(SyncMarker(z), "sync_directory", FlushBoth(z))
  BY <1>10, Prepend DEF SyncMarker, Steps, Goes
<1>14. Goes(WriteMarker(z), "write_marker", SyncMarker(z))
  BY <1>13, Prepend DEF WriteMarker, Steps, Goes
<1> QED
  BY <1>1, <1>2, <1>3, <1>4, <1>5, <1>6, <1>7, <1>8, <1>9, <1>10, <1>11, <1>12, <1>13, <1>14

(* The steps at the end of a job.                                          *)
LEMMA EndSteps ==
  /\ <<>> \in Seq(Steps) /\ Len(<<>>) = 0 /\ Unmarked = SyncSelection(<<>>)
  /\ Goes(Reclaim, "reclaim", <<>>) /\ Goes(Unmarked, "sync_directory", <<>>)
  /\ Goes(RemoveMarker, "remove_marker", Unmarked)
  /\ Goes(SyncRole, "sync_directory", RemoveMarker)
  /\ \A r \in BOOLEAN : Goes(WriteRole(r), RoleStep(r), SyncRole)
<1>1. <<>> \in Seq(Steps) /\ Len(<<>>) = 0
  OBVIOUS
<1>2. \A x \in Steps : <<x>> \in Seq(Steps) /\ <<x>> = <<x>> \o <<>>
  <2> TAKE x \in Steps
  <2>1. <<x>> \in Seq(Steps)
    OBVIOUS
  <2> QED
    BY <2>1, ConcatEmptySeq
<1>3. Goes(Reclaim, "reclaim", <<>>) /\ Goes(Unmarked, "sync_directory", <<>>)
  <2>1. "reclaim" \in Steps /\ "sync_directory" \in Steps
    BY DEF Steps
  <2>2. Reclaim = <<"reclaim">> \o <<>> /\ Unmarked = <<"sync_directory">> \o <<>>
    BY <1>2, <2>1 DEF Reclaim, Unmarked
  <2> QED
    BY <1>1, <2>1, <2>2, Prepend
<1>4. Goes(RemoveMarker, "remove_marker", Unmarked)
  BY <1>3, Prepend DEF RemoveMarker, Steps, Goes
<1>5. Goes(SyncRole, "sync_directory", RemoveMarker)
  BY <1>4, Prepend DEF SyncRole, Steps, Goes
<1>6. \A r \in BOOLEAN : Goes(WriteRole(r), RoleStep(r), SyncRole)
  <2> TAKE r \in BOOLEAN
  <2>1. RoleStep(r) \in Steps
    BY DEF RoleStep, Steps
  <2>2. SyncRole \in Seq(Steps)
    BY <1>5 DEF Goes
  <2> QED
    BY <2>1, <2>2, Prepend DEF WriteRole
<1>7. Unmarked = SyncSelection(<<>>)
  BY <1>2 DEF Unmarked, SyncSelection, Steps
<1> QED
  BY <1>1, <1>3, <1>4, <1>5, <1>6, <1>7

(* The steps that copy has before it selects.                              *)
LEMMA CopyChain ==
  /\ Goes(SyncCopy, "sync_directory", WriteCurrent(<<>>))
  /\ Goes(FlushCopy, "flush_manifest_file", SyncCopy)
  /\ Goes(CopyManifest, "copy_manifest", FlushCopy)
  /\ Goes(FlushCopied, "sync_pages", CopyManifest)
  /\ Goes(CopyPages, "copy_pages", FlushCopied)
  /\ Goes(SyncCopyMarker, "sync_directory", CopyPages)
  /\ Goes(WriteCopyMarker, "write_marker", SyncCopyMarker)
<1>1. Goes(SyncCopy, "sync_directory", WriteCurrent(<<>>))
  <2>1. WriteCurrent(<<>>) \in Seq(Steps) /\ "sync_directory" \in Steps
    BY EndSteps, PublishSteps DEF Steps, Goes
  <2> QED
    BY <2>1, Prepend DEF SyncCopy
<1>2. Goes(FlushCopy, "flush_manifest_file", SyncCopy)
  BY <1>1, Prepend DEF FlushCopy, Steps, Goes
<1>3. Goes(CopyManifest, "copy_manifest", FlushCopy)
  BY <1>2, Prepend DEF CopyManifest, Steps, Goes
<1>4. Goes(FlushCopied, "sync_pages", CopyManifest)
  BY <1>3, Prepend DEF FlushCopied, Steps, Goes
<1>5. Goes(CopyPages, "copy_pages", FlushCopied)
  BY <1>4, Prepend DEF CopyPages, Steps, Goes
<1>6. Goes(SyncCopyMarker, "sync_directory", CopyPages)
  BY <1>5, Prepend DEF SyncCopyMarker, Steps, Goes
<1>7. Goes(WriteCopyMarker, "write_marker", SyncCopyMarker)
  BY <1>6, Prepend DEF WriteCopyMarker, Steps, Goes
<1> QED
  BY <1>1, <1>2, <1>3, <1>4, <1>5, <1>6, <1>7

-----------------------------------------------------------------------------
(* The lists of steps that a job begins with.                              *)

(* The steps of the operations.                                            *)
LEMMA Plans ==
  /\ PublishFiles(FALSE, FALSE, FALSE) = FlushBoth(<<>>)
  /\ PublishFiles(TRUE, TRUE, FALSE) = FlushOnly(<<>>)
  /\ PublishFiles(TRUE, FALSE, FALSE) = WriteManifest(<<>>)
  /\ CopySteps = WriteCopyMarker
  /\ \A r \in BOOLEAN : AttachSteps(r) = WriteMarker(WriteRole(r))
  /\ <<"sync_new_pages">> \o PublishFiles(TRUE, TRUE, TRUE) \o <<"reclaim">> = FlushNew(Reclaim)
  /\ <<>> \o PublishFiles(TRUE, TRUE, FALSE) \o <<"reclaim">> = FlushOnly(Reclaim)
  /\ <<>> \o PublishFiles(TRUE, FALSE, FALSE) \o <<"reclaim">> = WriteManifest(Reclaim)
<1> USE DEF PublishFiles, SyncSelection, RenameCurrent, FlushCurrent, WriteCurrent, SyncManifest,
       RenameManifest, FlushManifest, WriteManifest, SyncFiles, FlushBoth, FlushOnly
<1>1. PublishFiles(FALSE, FALSE, FALSE) = FlushBoth(<<>>)
  OBVIOUS
<1>2. PublishFiles(TRUE, TRUE, FALSE) = FlushOnly(<<>>)
  OBVIOUS
<1>3. PublishFiles(TRUE, FALSE, FALSE) = WriteManifest(<<>>)
  OBVIOUS
<1>4. CopySteps = WriteCopyMarker
  BY DEF CopySteps, WriteCopyMarker, SyncCopyMarker, CopyPages, FlushCopied, CopyManifest,
     FlushCopy, SyncCopy
<1>5. \A r \in BOOLEAN : AttachSteps(r) = WriteMarker(WriteRole(r))
  <2>1. AttachSteps(TRUE) = WriteMarker(WriteRole(TRUE))
    BY DEF AttachSteps, Role, WriteMarker, SyncMarker, WriteRole, RoleStep, SyncRole,
       RemoveMarker, Unmarked
  <2>2. AttachSteps(FALSE) = WriteMarker(WriteRole(FALSE))
    BY DEF AttachSteps, Role, WriteMarker, SyncMarker, WriteRole, RoleStep, SyncRole,
       RemoveMarker, Unmarked
  <2> QED
    BY ONLY <2>1, <2>2
<1>6. <<"sync_new_pages">> \o PublishFiles(TRUE, TRUE, TRUE) \o <<"reclaim">> = FlushNew(Reclaim)
  BY DEF FlushNew, Reclaim
<1>7. <<>> \o PublishFiles(TRUE, TRUE, FALSE) \o <<"reclaim">> = FlushOnly(Reclaim)
  BY DEF Reclaim
<1>8. <<>> \o PublishFiles(TRUE, FALSE, FALSE) \o <<"reclaim">> = WriteManifest(Reclaim)
  BY DEF Reclaim
<1> QED
  BY ONLY <1>1, <1>2, <1>3, <1>4, <1>5, <1>6, <1>7, <1>8

-----------------------------------------------------------------------------
(* Entries and the operations on the directory.                            *)

(* The entries that are written.                                           *)
LEMMA EntryFacts ==
  /\ NoManifest \in Manifests /\ Absent \in Entries /\ Absent.flushed = TRUE
  /\ \A k \in {"pages", "marker", "role"} :
       Mark(k) \in Entries /\ Mark(k) # Absent /\ Mark(k).flushed = TRUE
  /\ \A m \in Manifests :
       /\ Selected(m) \in Entries /\ Written(m) \in Entries
       /\ [Written(m) EXCEPT !.flushed = TRUE] = Selected(m)
  /\ \A m : Selected(m).body = m /\ Selected(m) # Absent /\ Selected(m) # Torn /\ Selected(m).flushed = TRUE
<1>1. NoManifest \in Manifests
  BY DEF NoManifest, Manifest, Manifests
<1>2. Absent \in Entries /\ Absent.flushed = TRUE
  <2>1. Absent \in Entries
    BY <1>1 DEF Absent, Entries, Kinds
  <2> QED
    BY <2>1 DEF Absent
<1>5. \A k \in {"pages", "marker", "role"} :
        Mark(k) \in Entries /\ Mark(k) # Absent /\ Mark(k).flushed = TRUE
  <2> TAKE k \in {"pages", "marker", "role"}
  <2>1. Mark(k) \in Entries
    BY <1>1 DEF Mark, Entries, Kinds
  <2>3. Mark(k).flushed = TRUE /\ Mark(k).kind = k
    BY DEF Mark
  <2>2. Absent.kind = "absent"
    BY DEF Absent
  <2> QED
    BY <2>1, <2>2, <2>3
<1>3. \A m \in Manifests :
        /\ Selected(m) \in Entries /\ Written(m) \in Entries
        /\ [Written(m) EXCEPT !.flushed = TRUE] = Selected(m)
  <2> TAKE m \in Manifests
  <2>1. Selected(m) \in Entries
    BY DEF Selected, Entries, Kinds
  <2>2. Written(m) \in Entries
    BY DEF Written, Entries, Kinds
  <2>3. [Written(m) EXCEPT !.flushed = TRUE] = Selected(m)
    <3> PICK e : e = [Written(m) EXCEPT !.flushed = TRUE]
      OBVIOUS
    <3>1. e \in Entries /\ e.kind = "metadata" /\ e.body = m /\ e.flushed = TRUE
      BY <2>2 DEF Written, Entries
    <3>2. e = [kind |-> e.kind, body |-> e.body, flushed |-> e.flushed]
      BY <3>1 DEF Entries
    <3> QED
      BY <3>1, <3>2 DEF Selected
  <2> QED
    BY <2>1, <2>2, <2>3
<1>4. \A m : Selected(m).body = m /\ Selected(m) # Absent /\ Selected(m) # Torn /\ Selected(m).flushed = TRUE
  <2> TAKE m
  <2>1. Selected(m).kind = "metadata" /\ Selected(m).body = m /\ Selected(m).flushed = TRUE
    BY DEF Selected
  <2>2. Absent.kind = "absent" /\ Torn.kind = "torn"
    BY DEF Absent, Torn
  <2> QED
    BY <2>1, <2>2
<1> QED
  BY <1>1, <1>2, <1>3, <1>4, <1>5

(* A step leaves every name but those of S as it is; a flush of the        *)
(* directory settles it.                                                   *)
Touches(S) ==
  /\ dir' \in [Names -> Entries] /\ past' \in [Names -> SUBSET Entries]
  /\ \A n \in Names : dir'[n] \in past'[n]
  /\ \A n \in Names : n \notin S => dir'[n] = dir[n] /\ past'[n] \subseteq past[n]

Directory ==
  /\ dir \in [Names -> Entries] /\ past \in [Names -> SUBSET Entries]
  /\ \A n \in Names : dir[n] \in past[n]

(* sync_directory settles every entry.                                     *)
LEMMA SyncTouches ==
  ASSUME Directory, SyncDirectory
  PROVE  Touches({}) /\ \A n \in Names : past'[n] = {dir[n]}
BY DEF Directory, SyncDirectory, Touches

(* A name is given an entry.                                               *)
LEMMA PutTouches ==
  ASSUME Directory, NEW n \in Names, NEW e \in Entries, PutEntry(n, e)
  PROVE  Touches({n}) /\ dir'[n] = e /\ past'[n] = past[n] \cup {e}
BY DEF Directory, PutEntry, Touches

(* The contents behind a name are flushed.                                 *)
LEMMA FlushTouches ==
  ASSUME Directory, NEW n \in Names, FlushEntry(n)
  PROVE  Touches({n}) /\ dir'[n] = [dir[n] EXCEPT !.flushed = TRUE]
<1> DEFINE flush(e) == IF e = dir[n] THEN [e EXCEPT !.flushed = TRUE] ELSE e
<1>1. \A e \in Entries : [e EXCEPT !.flushed = TRUE] \in Entries
  BY DEF Entries
<1>2. dir' = [dir EXCEPT ![n] = [dir[n] EXCEPT !.flushed = TRUE]]
  BY DEF FlushEntry, Directory
<1>3. past' = [past EXCEPT ![n] = {flush(e) : e \in past[n]}]
  BY DEF FlushEntry, Directory
<1>4. dir'[n] = flush(dir[n]) /\ dir[n] \in past[n] /\ dir[n] \in Entries /\ past[n] \subseteq Entries
  BY <1>2 DEF Directory
<1>5. past'[n] = {flush(e) : e \in past[n]}
  BY <1>3 DEF Directory
<1>6. dir'[n] \in past'[n]
  BY <1>4, <1>5
<1>7. \A e \in past[n] : flush(e) \in Entries
  BY <1>1, <1>4
<1>8. past'[n] \subseteq Entries /\ dir'[n] \in Entries
  BY <1>4, <1>5, <1>7
<1>9. \A k \in Names : k # n => dir'[k] = dir[k] /\ past'[k] = past[k]
  BY <1>2, <1>3 DEF Directory
<1>10. dir' \in [Names -> Entries] /\ past' \in [Names -> SUBSET Entries]
  <2>1. dir' = [k \in Names |-> dir'[k]] /\ past' = [k \in Names |-> past'[k]]
    BY <1>2, <1>3 DEF Directory
  <2> HIDE DEF flush
  <2>2. \A k \in Names : dir'[k] \in Entries /\ past'[k] \in SUBSET Entries
    BY <1>8, <1>9 DEF Directory
  <2> QED
    BY <2>1, <2>2
<1> HIDE DEF flush
<1> QED
  BY <1>2, <1>6, <1>9, <1>10 DEF Directory, Touches

(* An entry takes another name.                                            *)
LEMMA RenameTouches ==
  ASSUME Directory, NEW a \in Names, NEW b \in Names, a # b, Absent \in Entries, Rename(a, b)
  PROVE  /\ Touches({a, b}) /\ dir'[b] = dir[a] /\ past'[b] = past[b] \cup {dir[a]}
         /\ dir'[a] = Absent
BY DEF Directory, Rename, Touches

-----------------------------------------------------------------------------
(* What a step leaves as it is.                                            *)

(* The bounds do not change.                                               *)
LEMMA Rigid ==
  ASSUME scenario' = scenario
  PROVE  /\ Names' = Names /\ MaxFile' = MaxFile /\ MaxGeneration' = MaxGeneration
         /\ MaxSequence' = MaxSequence /\ Copied' = Copied
         /\ \A m : InRange(m)' = InRange(m)
<1>1. /\ MaxFile' = MaxFile /\ MaxGeneration' = MaxGeneration
      /\ MaxSequence' = MaxSequence /\ Copied' = Copied
  BY DEF MaxFile, MaxGeneration, MaxSequence, Copied
<1>2. Names' = Names
  BY <1>1 DEF Names, ManifestFile, PagesFile
<1> QED
  BY <1>1, <1>2 DEF InRange

(* What is known of the directory.                                         *)
LEMMA KnownDirectory ==
  ASSUME TypeOK, EntriesInv
  PROVE  Directory
BY DEF TypeOK, EntriesInv, Directory

(* A settled entry that a step does not touch stays settled.               *)
LEMMA KeepSingle ==
  ASSUME NEW S, Touches(S), NEW n \in Names, n \notin S, NEW v, past[n] = {v}
  PROVE  past'[n] = {v} /\ dir'[n] = v
BY DEF Touches

(* A complete manifest stays complete when its files are not touched.      *)
LEMMA KeepComplete ==
  ASSUME NEW S, Touches(S), scenario' = scenario, NEW m, Complete(m), Flushed(m)',
         PagesFile(m.page_file_id) \notin S, ManifestFile(m.generation) \notin S
  PROVE  Complete(m)'
<1>1. PagesFile(m.page_file_id) \in Names /\ ManifestFile(m.generation) \in Names /\ InRange(m)
  BY NamesHold DEF Complete, InRange
<1>2. past'[PagesFile(m.page_file_id)] = {Mark("pages")}
  BY <1>1, KeepSingle DEF Complete, Settled
<1>3. past'[ManifestFile(m.generation)] = {Selected(m)}
  BY <1>1, KeepSingle DEF Complete
<1> QED
  BY <1>1, <1>2, <1>3, Rigid DEF Complete, Settled

(* A CURRENT that may be left, by what it names.                           *)
LEMMA ChoiceIs ==
  ASSUME SelectInv, NEW c \in past[CURRENT], IsFile(c)
  PROVE  /\ c = Selected(c.body) /\ Complete(c.body) /\ Recent(c.body)
         /\ IsFile(dir[CURRENT]) /\ Within(c.body, dir[CURRENT].body)
BY DEF SelectInv, IsFile

(* A step that leaves CURRENT alone and its manifests complete.            *)
LEMMA KeepSelect ==
  ASSUME SelectInv, NEW S, Touches(S), CURRENT \notin S, UNCHANGED <<scenario, acked>>,
         \A c \in past[CURRENT] : IsFile(c) => Complete(c.body)'
  PROVE  SelectInv'
<1>1. dir'[CURRENT] = dir[CURRENT] /\ past'[CURRENT] \subseteq past[CURRENT]
  BY NamesHold DEF Touches, Single
<1>2. SUFFICES ASSUME NEW c \in past'[CURRENT]
               PROVE  \/ c = Absent /\ acked' = NoManifest
                      \/ /\ c = Selected(c.body) /\ Complete(c.body)' /\ Recent(c.body)'
                         /\ IsFile(dir'[CURRENT]) /\ Within(c.body, dir'[CURRENT].body)
  BY DEF SelectInv, IsFile, Within, Selected, Absent, NoManifest, Manifest
<1>3. c \in past[CURRENT]
  BY <1>1
<1>4. CASE c = Absent
  <2>1. acked = NoManifest
    BY <1>3, <1>4, EntryFacts DEF SelectInv
  <2> QED
    BY <1>4, <2>1
<1>5. CASE IsFile(c)
  <2>1. Recent(c.body)'
    BY <1>3, <1>5, ChoiceIs DEF Recent
  <2> QED
    BY <1>1, <1>3, <1>5, <2>1, ChoiceIs
<1> QED
  BY <1>4, <1>5 DEF IsFile

(* A step that leaves CURRENT, the marker and the role alone.              *)
LEMMA KeepAttach ==
  ASSUME AttachInv, NEW S, Touches(S), S \cap {CURRENT, ATTACH_REQUIRED, READ_ONLY} = {},
         UNCHANGED <<scenario, roles>>
  PROVE  AttachInv'
<1>1. /\ past'[CURRENT] \subseteq past[CURRENT]
      /\ past'[ATTACH_REQUIRED] \subseteq past[ATTACH_REQUIRED]
      /\ past'[READ_ONLY] \subseteq past[READ_ONLY]
  BY NamesHold DEF Touches, Single
<1> QED
  BY <1>1, Rigid DEF AttachInv, IsFile, Absent, NoManifest, Manifest, CURRENT, ATTACH_REQUIRED, READ_ONLY

(* The files are of their types, and no page is flushed that is not there. *)
FilesOK ==
  /\ pages \in [1 .. MaxFile -> Seq(Nat)] /\ synced \in [1 .. MaxFile -> Nat]
  /\ \A f \in 1 .. MaxFile : synced[f] <= Len(pages[f])

(* Nothing that a manifest relies on is lost from the files.               *)
FilesKept ==
  /\ FilesOK'
  /\ \A m \in Manifests : m.page_file_id \in 1 .. MaxFile =>
       (Contents(m) => Contents(m)') /\ (Flushed(m) => Flushed(m)')

(* The page files do not change.                                           *)
LEMMA SameFiles ==
  ASSUME TypeOK, EntriesInv, UNCHANGED <<scenario, files>>
  PROVE  FilesKept
<1>1. FilesOK
  BY DEF TypeOK, EntriesInv, FilesOK
<1>2. pages' = pages /\ synced' = synced /\ MaxFile' = MaxFile
  BY Rigid DEF files
<1>3. FilesOK'
  BY <1>1, <1>2 DEF FilesOK
<1>4. \A m : Contents(m)' = Contents(m) /\ Flushed(m)' = Flushed(m)
  BY <1>2 DEF Contents, Flushed
<1> QED
  BY <1>3, <1>4 DEF FilesKept

(* An append to a file.                                                    *)
LEMMA GrownFiles ==
  ASSUME TypeOK, EntriesInv, scenario' = scenario, synced' = synced,
         NEW f \in 1 .. MaxFile, NEW s \in Nat, AppendPage(f, s)
  PROVE  FilesKept
<1>1. FilesOK
  BY DEF TypeOK, EntriesInv, FilesOK
<1>2. MaxFile' = MaxFile /\ pages[f] \in Seq(Nat)
  BY <1>1, Rigid DEF FilesOK
<1> PICK t : t = Append(pages[f], s)
  OBVIOUS
<1>3. /\ t \in Seq(Nat) /\ Len(t) = Len(pages[f]) + 1 /\ Len(pages[f]) \in Nat
      /\ \A i \in 1 .. Len(pages[f]) : t[i] = pages[f][i]
  BY <1>2, AppendProperties, LenProperties
<1>4. pages' = [pages EXCEPT ![f] = t]
  BY <1>1 DEF AppendPage, FilesOK
<1>5. pages' \in [1 .. MaxFile -> Seq(Nat)] /\ pages'[f] = t
  BY <1>1, <1>3, <1>4 DEF FilesOK
<1>6. \A g \in 1 .. MaxFile : g # f => pages'[g] = pages[g]
  BY <1>1, <1>4 DEF FilesOK
<1>7. \A g \in 1 .. MaxFile : synced[g] \in Nat /\ synced[g] <= Len(pages[g]) /\ Len(pages[g]) \in Nat
  BY <1>1, LenProperties DEF FilesOK
<1>8. FilesOK'
  <2>1. \A g \in 1 .. MaxFile : synced'[g] <= Len(pages'[g])
    BY <1>3, <1>5, <1>6, <1>7
  <2> QED
    BY <1>1, <1>2, <1>5, <2>1 DEF FilesOK
<1>9. ASSUME NEW m \in Manifests, m.page_file_id \in 1 .. MaxFile, Contents(m)
      PROVE  Contents(m)'
  <2>1. CASE m.page_file_id # f
    BY <1>6, <1>9, <2>1 DEF Contents
  <2>2. CASE m.page_file_id = f
    <3>1. m.page_count <= Len(pages[f]) /\ m.root \in 1 .. m.page_count
          /\ pages[f][m.root] = m.checkpoint_sequence
      BY <1>9, <2>2 DEF Contents, CompletePages
    <3>2. m.root \in 1 .. Len(pages[f]) /\ m.page_count <= Len(t)
      <4> PICK k \in Nat : k = m.page_count
        BY DEF Manifests
      <4> QED
        BY <1>3, <3>1
    <3> QED
      BY <1>3, <1>5, <2>2, <3>1, <3>2 DEF Contents, CompletePages
  <2> QED
    BY <2>1, <2>2
<1> QED
  BY <1>8, <1>9 DEF FilesKept, Flushed

(* A flush of a file.                                                      *)
LEMMA FlushedFiles ==
  ASSUME TypeOK, EntriesInv, UNCHANGED <<scenario, pages>>, NEW f \in 1 .. MaxFile, SyncPages(f)
  PROVE  FilesKept /\ \A m \in Manifests : m.page_file_id = f /\ Contents(m) => Flushed(m)'
<1>1. FilesOK
  BY DEF TypeOK, EntriesInv, FilesOK
<1>2. MaxFile' = MaxFile
  BY Rigid
<1>3. \A g \in 1 .. MaxFile : synced[g] \in Nat /\ synced[g] <= Len(pages[g]) /\ Len(pages[g]) \in Nat
  BY <1>1, LenProperties DEF FilesOK
<1>4. /\ synced' \in [1 .. MaxFile -> Nat] /\ synced'[f] = Len(pages[f])
      /\ \A g \in 1 .. MaxFile : g # f => synced'[g] = synced[g]
  BY <1>1, <1>3 DEF SyncPages, FilesOK
<1>5. FilesOK'
  BY <1>1, <1>2, <1>3, <1>4 DEF FilesOK
<1>6. \A m : Contents(m)' = Contents(m)
  BY DEF Contents
<1>7. ASSUME NEW m \in Manifests, m.page_file_id \in 1 .. MaxFile, Flushed(m)
      PROVE  Flushed(m)'
  BY <1>3, <1>4, <1>6, <1>7 DEF Flushed, Manifests
<1>8. ASSUME NEW m \in Manifests, m.page_file_id = f, Contents(m)
      PROVE  Flushed(m)'
  BY <1>3, <1>4, <1>6, <1>8 DEF Flushed, Contents, CompletePages, Manifests
<1> QED
  BY <1>5, <1>6, <1>7, <1>8 DEF FilesKept

(* A step on manifests or on CURRENT.                                      *)
LEMMA KeepEntries ==
  ASSUME TypeOK, EntriesInv, scenario' = scenario, NEW S, Touches(S), FilesOK',
         ATTACH_REQUIRED \notin S, READ_ONLY \notin S, \A f \in 1 .. MaxFile : PagesFile(f) \notin S
  PROVE  EntriesInv'
<1>1. /\ past'[ATTACH_REQUIRED] \subseteq past[ATTACH_REQUIRED]
      /\ past'[READ_ONLY] \subseteq past[READ_ONLY]
      /\ \A f \in 1 .. MaxFile : past'[PagesFile(f)] \subseteq past[PagesFile(f)]
  BY NamesHold DEF Touches, Single
<1>2. \A n \in Names : dir'[n] \in past'[n]
  BY DEF Touches
<1>3. MaxFile' = MaxFile /\ Names' = Names
  BY Rigid
<1>4. \A f \in 1 .. MaxFile : synced'[f] <= Len(pages'[f])
  BY <1>3 DEF FilesOK
<1>5. /\ past'[ATTACH_REQUIRED] \subseteq {Absent, Mark("marker")}
      /\ past'[READ_ONLY] \subseteq {Absent, Mark("role")}
      /\ \A f \in 1 .. MaxFile : past'[PagesFile(f)] \subseteq {Absent, Mark("pages")}
  BY <1>1 DEF EntriesInv
<1> QED
  BY <1>2, <1>3, <1>4, <1>5 DEF EntriesInv, PagesFile, ATTACH_REQUIRED, READ_ONLY, Absent, Mark,
     NoManifest, Manifest

(* A step that leaves the page files to the views that share them.         *)
LEMMA KeepPins ==
  ASSUME TypeOK, EntriesInv, PinInv, scenario' = scenario, NEW S, Touches(S), FilesKept,
         \A f \in 1 .. MaxFile : PagesFile(f) \notin S,
         pins' \subseteq pins, mode' # "serving" => pins' = {}
  PROVE  PinInv'
<1>1. SUFFICES ASSUME NEW m \in pins'
               PROVE  m.page_file_id \in 1 .. MaxFile /\ Named(m)' /\ Contents(m)'
  BY Rigid DEF PinInv
<1>2. m \in Manifests /\ m.page_file_id \in 1 .. MaxFile /\ Named(m) /\ Contents(m)
  BY DEF TypeOK, PinInv
<1>3. dir'[PagesFile(m.page_file_id)] = dir[PagesFile(m.page_file_id)]
  BY <1>2, NamesHold DEF Touches
<1> QED
  BY <1>2, <1>3 DEF Named, FilesKept

(* A step that touches none of the files a selection or a lease rests on.  *)
LEMMA Undisturbed ==
  ASSUME TypeOK, EntriesInv, SelectInv, PinInv, AttachInv, NEW S, Touches(S), FilesKept,
         S \cap {CURRENT, ATTACH_REQUIRED, READ_ONLY} = {},
         \A f \in 1 .. MaxFile : PagesFile(f) \notin S,
         \A c \in past[CURRENT] : IsFile(c) => ManifestFile(c.body.generation) \notin S,
         UNCHANGED <<scenario, acked, roles>>, pins' \subseteq pins,
         mode' # "serving" => pins' = {}
  PROVE  EntriesInv' /\ SelectInv' /\ PinInv' /\ AttachInv'
<1>1. EntriesInv'
  BY KeepEntries DEF FilesKept
<1>2. ASSUME NEW c \in past[CURRENT], IsFile(c)
      PROVE  Complete(c.body)'
  <2>1. Complete(c.body)
    BY <1>2, ChoiceIs
  <2>2. Flushed(c.body)' /\ PagesFile(c.body.page_file_id) \notin S
    BY <2>1 DEF FilesKept, Complete, InRange
  <2> QED
    BY <1>2, <2>1, <2>2, KeepComplete
<1>3. SelectInv'
  BY <1>2, KeepSelect
<1>4. PinInv'
  BY KeepPins
<1>5. AttachInv'
  BY KeepAttach
<1> QED
  BY <1>1, <1>3, <1>4, <1>5

(* The manifest of a job is still not selected.                            *)
LEMMA KeepBefore ==
  ASSUME NEW S, Touches(S), CURRENT \notin S, UNCHANGED <<mode, manifest>>, job'.kind = job.kind,
         NEW m, Before(m)
  PROVE  Before(m)'
<1>1. /\ dir'[CURRENT] = dir[CURRENT] /\ past'[CURRENT] \subseteq past[CURRENT]
      /\ past[CURRENT] = {Absent} => past'[CURRENT] = {Absent}
  BY NamesHold, KeepSingle DEF Touches, Single
<1> QED
  BY <1>1 DEF Before, Within, Selected, Absent, IsFile, CURRENT, NoManifest, Manifest

-----------------------------------------------------------------------------
(* Steps of a job.                                                         *)

(* Which operation a step is.                                              *)
LEMMA DirectorySteps ==
  ASSUME NEW m, m = job.manifest
  PROVE  /\ DirectoryStep("sync_directory") => SyncDirectory
         /\ DirectoryStep("write_manifest") => PutEntry(manifest_pending, Written(m))
         /\ DirectoryStep("flush_manifest") => FlushEntry(manifest_pending)
         /\ DirectoryStep("rename_manifest") =>
              /\ ~IsFile(dir[ManifestFile(m.generation)])
              /\ Rename(manifest_pending, ManifestFile(m.generation))
         /\ DirectoryStep("copy_manifest") => PutEntry(ManifestFile(m.generation), Written(m))
         /\ DirectoryStep("flush_manifest_file") => FlushEntry(ManifestFile(m.generation))
         /\ DirectoryStep("write_current") => PutEntry(CURRENT_pending, Written(m))
         /\ DirectoryStep("flush_current") => FlushEntry(CURRENT_pending)
         /\ DirectoryStep("rename_current") => Rename(CURRENT_pending, CURRENT)
         /\ DirectoryStep("write_marker") => PutEntry(ATTACH_REQUIRED, Mark("marker"))
         /\ DirectoryStep("write_role") => PutEntry(READ_ONLY, Mark("role"))
         /\ DirectoryStep("remove_role") => PutEntry(READ_ONLY, Absent)
         /\ DirectoryStep("remove_marker") => PutEntry(ATTACH_REQUIRED, Absent)
         /\ ~DirectoryStep("sync_pages") /\ ~DirectoryStep("sync_new_pages")
         /\ ~DirectoryStep("copy_pages") /\ ~DirectoryStep("reclaim")
BY DEF DirectoryStep, Unlink

(* A step of a job that neither begins nor ends it.                        *)
JobMoves ==
  /\ job.todo # <<>> /\ ~poisoned
  /\ job' = [job EXCEPT !.todo = Tail(@)]
  /\ UNCHANGED <<scenario, logged, mode, store, pins, acked, roles>>

(* A job does one of its steps.                                            *)
LEMMA JobMovesOn ==
  ASSUME scenario' = scenario, JobDirectory \/ JobPages
  PROVE  JobMoves
BY DEF JobDirectory, JobPages, JobMoves

(* It touches nothing that a selection, a lease or the role rests on.      *)
Calm(S) ==
  /\ Touches(S) /\ FilesKept
  /\ S \cap {CURRENT, ATTACH_REQUIRED, READ_ONLY} = {}
  /\ \A f \in 1 .. MaxFile : PagesFile(f) \notin S
  /\ \A c \in past[CURRENT] : IsFile(c) => ManifestFile(c.body.generation) \notin S

(* What a step leaves of the job.                                          *)
LEMMA JobGoes ==
  ASSUME TypeOK, NewInv, JobMoves
  PROVE  /\ job'.kind = job.kind /\ job'.manifest = job.manifest /\ job'.todo = Tail(job.todo)
         /\ job # NoJob /\ job' # NoJob /\ job.kind # "none" /\ End' = End
         /\ job' \in [kind : JobKinds, todo : Seq(Steps), manifest : Manifests]
         /\ mode # "new" /\ mode # "down" /\ NewInv'
<1>1. job \in [kind : JobKinds, todo : Seq(Steps), manifest : Manifests]
  BY DEF TypeOK
<1>2. Tail(job.todo) \in Seq(Steps)
  BY <1>1, HeadTailProperties DEF JobMoves
<1>3. /\ job'.kind = job.kind /\ job'.manifest = job.manifest /\ job'.todo = Tail(job.todo)
      /\ job' \in [kind : JobKinds, todo : Seq(Steps), manifest : Manifests]
  BY <1>1, <1>2 DEF JobMoves
<1>4. job # NoJob /\ job.kind # "none"
  BY DEF JobMoves, NoJob, NewInv
<1>5. job' # NoJob
  BY <1>3, <1>4 DEF NoJob
<1>6. End' = End
  BY <1>3 DEF End, JobMoves, Reclaim, WriteRole, RoleStep, SyncRole, RemoveMarker, Unmarked
<1>7. mode # "new" /\ mode # "down"
  BY <1>4 DEF NewInv
<1>8. NewInv'
  BY <1>3, <1>4, <1>7 DEF NewInv, JobMoves
<1> QED
  BY <1>3, <1>4, <1>5, <1>6, <1>7, <1>8

(* A step of a job keeps the types.                                        *)
LEMMA KeepTypes ==
  ASSUME TypeOK, NewInv, JobMoves, NEW S, Touches(S), FilesOK'
  PROVE  TypeOK'
<1>1. /\ scenario' \in Scenarios /\ logged' \in Nat
      /\ mode' \in {"new", "creating", "down", "recovering", "serving"}
      /\ manifest' \in Manifests /\ root' \in Nat /\ poisoned' \in BOOLEAN
      /\ pins' \in SUBSET Manifests /\ acked' \in Manifests /\ roles' \in Seq(BOOLEAN)
  BY DEF TypeOK, JobMoves, store
<1>2. Names' = Names /\ MaxFile' = MaxFile
  BY Rigid DEF JobMoves
<1>3. dir' \in [Names' -> Entries] /\ past' \in [Names' -> SUBSET Entries]
  BY <1>2 DEF Touches
<1>4. pages' \in [1 .. MaxFile' -> Seq(Nat)] /\ synced' \in [1 .. MaxFile' -> Nat]
  BY DEF FilesOK
<1>5. job' \in [kind : JobKinds, todo : Seq(Steps), manifest : Manifests]
  BY JobGoes
<1> QED
  BY <1>1, <1>3, <1>4, <1>5 DEF TypeOK

(* A step of a job leaves the open store as it is.                         *)
LEMMA KeepStore ==
  ASSUME StoreInv, UNCHANGED <<scenario, mode, store, pages>>, job' # NoJob, job'.kind = job.kind,
         CURRENT \in Names => dir'[CURRENT] \in past'[CURRENT],
         job.kind = "attach" \/ mode = "creating" \/ dir'[CURRENT] = Selected(manifest)
           \/ (Selected(manifest) \in past[CURRENT] => Selected(manifest) \in past'[CURRENT])
  PROVE  StoreInv'
<1>1. CASE mode \notin {"recovering", "serving"}
  BY <1>1 DEF StoreInv
<1>2. CASE mode \in {"recovering", "serving"}
  <2>1. InRange(manifest) /\ root \in 1 .. Len(pages[manifest.page_file_id])
        /\ (job.kind # "attach" => Selected(manifest) \in past[CURRENT])
    BY <1>2 DEF StoreInv
  <2>2. manifest' = manifest /\ root' = root
    BY DEF store
  <2>3. InRange(manifest)' /\ root' \in 1 .. Len(pages'[manifest'.page_file_id])
    BY <2>1, <2>2, Rigid DEF InRange
  <2>4. job.kind # "attach" => Selected(manifest) \in past'[CURRENT]
    BY <1>2, <2>1, NamesHold DEF Single
  <2>5. job'.kind # "attach" => Selected(manifest') \in past'[CURRENT]
    BY <2>2, <2>4
  <2> QED
    BY <1>2, <2>3, <2>5 DEF StoreInv, Selected, CURRENT
<1> QED
  BY <1>1, <1>2

(* All but the job itself, after a calm step.                              *)
Rest == TypeOK /\ EntriesInv /\ SelectInv /\ StoreInv /\ PinInv /\ AttachInv /\ NewInv

(* A calm step keeps everything that is not about the job.                 *)
LEMMA CalmStep ==
  ASSUME Rest, JobMoves, pages' = pages, NEW S, Calm(S),
         job.kind = "attach" \/ mode = "creating" \/ dir[CURRENT] = Selected(manifest)
  PROVE  Rest' /\ \A m : Before(m) => Before(m)'
<1> USE DEF Rest
<1>1. /\ job'.kind = job.kind /\ job' # NoJob /\ NewInv' /\ UNCHANGED <<scenario, mode, manifest>>
      /\ UNCHANGED <<scenario, acked, roles>> /\ pins' = pins
  BY JobGoes DEF JobMoves, store
<1>2. TypeOK'
  BY KeepTypes DEF Calm, FilesKept
<1>3. EntriesInv' /\ SelectInv' /\ PinInv' /\ AttachInv'
  <2>1. mode' # "serving" => pins' = {}
    BY <1>1 DEF PinInv
  <2> QED
    BY <1>1, <2>1, Undisturbed DEF Calm
<1>4. dir'[CURRENT] \in past'[CURRENT] /\ dir'[CURRENT] = dir[CURRENT] /\ CURRENT \notin S
  BY NamesHold DEF Calm, Touches, Single
<1>5. StoreInv'
  <2>1. UNCHANGED <<scenario, mode, store, pages>>
    BY DEF JobMoves
  <2> QED
    BY <1>1, <1>4, <2>1, KeepStore
<1>6. \A m : Before(m) => Before(m)'
  BY <1>1, <1>4, KeepBefore DEF Calm
<1> QED
  BY <1>1, <1>2, <1>3, <1>5, <1>6

(* The directory does not change.                                          *)
LEMMA SameDirectory ==
  ASSUME Directory, UNCHANGED directory
  PROVE  Touches({})
BY DEF Directory, Touches, directory

(* What stays true of a manifest during a calm step.                       *)
LEMMA CalmKeeps ==
  ASSUME NEW S, Calm(S), scenario' = scenario, NEW m, InRange(m)
  PROVE  /\ (Settled(m) => Settled(m)') /\ (Named(m) => Named(m)') /\ (Marked => Marked')
         /\ (Contents(m) => Contents(m)') /\ (Flushed(m) => Flushed(m)')
         /\ (Complete(m) /\ ManifestFile(m.generation) \notin S => Complete(m)')
         /\ (past[CURRENT] = {Selected(m)} => past'[CURRENT] = {Selected(m)})
<1>1. PagesFile(m.page_file_id) \in Names /\ PagesFile(m.page_file_id) \notin S /\ Touches(S)
  BY NamesHold DEF InRange, Calm
<1>2. (Settled(m) => Settled(m)') /\ (Named(m) => Named(m)')
  BY <1>1, KeepSingle DEF Settled, Named, Touches
<1>3. Marked => Marked'
  BY <1>1, KeepSingle, NamesHold DEF Marked, Calm, Single
<1>4. (Contents(m) => Contents(m)') /\ (Flushed(m) => Flushed(m)')
  BY DEF Calm, FilesKept, InRange
<1>5. Complete(m) /\ ManifestFile(m.generation) \notin S => Complete(m)'
  BY <1>1, <1>4, KeepComplete DEF Complete
<1>6. past[CURRENT] = {Selected(m)} => past'[CURRENT] = {Selected(m)}
  BY <1>1, KeepSingle, NamesHold DEF Calm, Single
<1> QED
  BY <1>2, <1>3, <1>4, <1>5, <1>6

(* Whether a set of names is calm.                                         *)
LEMMA CalmNames ==
  ASSUME NEW S, Touches(S), FilesKept,
         S \subseteq {CURRENT_pending, manifest_pending}
  PROVE  Calm(S)
BY NamesDiffer DEF Calm, Single

(* A job is in progress and takes one of its steps, with m to be selected. *)
Working(m) ==
  /\ Rest /\ scenario' = scenario /\ (JobDirectory \/ JobPages)
  /\ m = job.manifest /\ InRange(m) /\ manifest.page_file_id \in 1 .. MaxFile

(* The next step of the job is x, and y is left after it.                  *)
LEMMA StepIs ==
  ASSUME NEW m, Working(m), NEW x, NEW y, Goes(job.todo, x, y)
  PROVE  /\ JobMoves /\ job'.todo = y /\ job'.kind = job.kind /\ job'.manifest = m /\ job' # NoJob
         /\ End' = End /\ Directory
         /\ x = "sync_pages" =>
              SyncPages(manifest.page_file_id) /\ UNCHANGED <<directory, pages>>
         /\ x = "sync_new_pages" => SyncPages(m.page_file_id) /\ UNCHANGED <<directory, pages>>
         /\ x = "copy_pages" =>
              /\ PutEntry(PagesFile(1), Mark("pages"))
              /\ pages' = [pages EXCEPT ![1] = <<logged>>] /\ synced' = synced
         /\ x \notin {"sync_pages", "sync_new_pages", "copy_pages"} =>
              DirectoryStep(x) /\ UNCHANGED files /\ FilesKept /\ pages' = pages
<1>1. JobMoves /\ TypeOK /\ EntriesInv /\ NewInv /\ scenario' = scenario /\ m = job.manifest
  BY JobMovesOn DEF Working, Rest
<1>2. Head(job.todo) = x /\ Tail(job.todo) = y
  BY DEF Goes
<1>3. /\ job'.todo = y /\ job'.kind = job.kind /\ job'.manifest = m /\ job' # NoJob /\ End' = End
  BY <1>1, <1>2, JobGoes
<1>4. Directory
  BY <1>1, KnownDirectory
<1>5. CASE JobDirectory
  <2>1. DirectoryStep(x) /\ UNCHANGED files
    BY <1>2, <1>5 DEF JobDirectory
  <2>2. x \notin {"sync_pages", "sync_new_pages", "copy_pages"}
    BY <1>1, <2>1, DirectorySteps
  <2>3. FilesKept /\ pages' = pages
    BY <1>1, <2>1, SameFiles DEF files
  <2> QED
    BY <1>1, <1>3, <1>4, <2>1, <2>2, <2>3
<1>6. CASE JobPages
  BY <1>1, <1>2, <1>3, <1>4, <1>6 DEF JobPages
<1> QED
  BY <1>5, <1>6 DEF Working

(* The job's manifest is not selected: the store's is.                     *)
LEMMA BeforeSelects ==
  ASSUME NEW m, Before(m)
  PROVE  mode = "creating" \/ dir[CURRENT] = Selected(manifest)
BY DEF Before

(* publish_files: the page files are flushed.                              *)
LEMMA RunPreparing ==
  ASSUME NEW m, Working(m), Preparing(m), End \in Seq(Steps)
  PROVE  Rest' /\ (Preparing(m)' \/ Writing(m)') /\ (Marked => Marked') /\ pages' = pages
<1>1. /\ TypeOK /\ EntriesInv /\ Rest /\ scenario' = scenario /\ InRange(m) /\ m \in Manifests
      /\ m.page_file_id \in 1 .. MaxFile /\ manifest.page_file_id \in 1 .. MaxFile
  BY DEF Working, Rest, InRange
<1>2. mode = "creating" \/ dir[CURRENT] = Selected(manifest)
  BY BeforeSelects DEF Preparing
<1>3. ASSUME NEW x, NEW y, Goes(job.todo, x, y), Calm({}), pages' = pages
      PROVE  /\ Rest' /\ Before(m)' /\ Contents(m)' /\ (Marked => Marked')
             /\ (Settled(m) => Settled(m)') /\ (Named(m) => Named(m)') /\ (Flushed(m) => Flushed(m)')
             /\ job'.todo = y /\ job'.kind = job.kind /\ End' = End
  <2>1. JobMoves
    BY <1>3, StepIs
  <2> QED
    BY <1>1, <1>2, <1>3, <2>1, CalmStep, CalmKeeps, StepIs DEF Preparing
<1>4. CASE job.todo = FlushNew(End) /\ Named(m) /\ job.kind = "adopt"
  <2>1. Goes(job.todo, "sync_new_pages", FlushBoth(End))
    BY <1>4, PublishSteps
  <2>2. SyncPages(m.page_file_id) /\ UNCHANGED <<directory, pages>> /\ Directory
    BY <2>1, StepIs
  <2>3. Calm({}) /\ Flushed(m)'
    BY <1>1, <2>2, FlushedFiles, SameDirectory, CalmNames DEF Preparing
  <2> QED
    BY <1>3, <1>4, <2>1, <2>2, <2>3 DEF Preparing, FlushBoth, SyncFiles
<1>5. CASE /\ job.todo = FlushBoth(End) /\ Named(m)
           /\ m.page_file_id = manifest.page_file_id \/ Flushed(m)
  <2>1. Goes(job.todo, "sync_pages", SyncFiles(End))
    BY <1>5, PublishSteps
  <2>2. SyncPages(manifest.page_file_id) /\ UNCHANGED <<directory, pages>> /\ Directory
    BY <2>1, StepIs
  <2>3. Calm({}) /\ Flushed(m)'
    <3>1. FilesKept /\ (m.page_file_id = manifest.page_file_id => Flushed(m)')
      BY <1>1, <2>2, FlushedFiles DEF Preparing
    <3> QED
      BY <1>1, <1>5, <2>2, <3>1, SameDirectory, CalmNames DEF FilesKept
  <2> QED
    BY <1>3, <1>5, <2>1, <2>2, <2>3 DEF Preparing
<1>6. CASE job.todo = FlushOnly(End) /\ Settled(m) /\ m.page_file_id = manifest.page_file_id
  <2>1. Goes(job.todo, "sync_pages", WriteManifest(End))
    BY <1>6, PublishSteps
  <2>2. SyncPages(manifest.page_file_id) /\ UNCHANGED <<directory, pages>> /\ Directory
    BY <2>1, StepIs
  <2>3. Calm({}) /\ Flushed(m)'
    BY <1>1, <1>6, <2>2, FlushedFiles, SameDirectory, CalmNames DEF Preparing
  <2> QED
    BY <1>3, <1>6, <2>1, <2>2, <2>3 DEF Writing
<1>7. CASE job.todo = SyncFiles(End) /\ Named(m) /\ Flushed(m)
  <2>1. Goes(job.todo, "sync_directory", WriteManifest(End))
    BY <1>7, PublishSteps
  <2>2. SyncDirectory /\ Directory /\ FilesKept /\ pages' = pages
    BY <2>1, StepIs, DirectorySteps
  <2>3. Calm({}) /\ \A n \in Names : past'[n] = {dir[n]}
    BY <2>2, SyncTouches, CalmNames
  <2>4. Settled(m)'
    BY <1>1, <1>7, <2>3, NamesHold DEF Settled, Named
  <2> QED
    BY <1>3, <1>7, <2>1, <2>2, <2>3, <2>4 DEF Writing
<1> QED
  BY <1>4, <1>5, <1>6, <1>7 DEF Preparing

(* A calm step of a publication whose manifest is not selected yet.        *)
LEMMA CalmRun ==
  ASSUME NEW m, Working(m), Before(m), Contents(m), NEW x, NEW y, Goes(job.todo, x, y),
         NEW S, Calm(S), pages' = pages
  PROVE  /\ Rest' /\ Before(m)' /\ (Marked => Marked') /\ Contents(m)'
         /\ (Settled(m) => Settled(m)') /\ (Named(m) => Named(m)') /\ (Flushed(m) => Flushed(m)')
         /\ (Complete(m) /\ ManifestFile(m.generation) \notin S => Complete(m)')
         /\ job'.todo = y /\ job'.kind = job.kind /\ End' = End /\ InRange(m)'
<1>1. Rest /\ scenario' = scenario /\ InRange(m) /\ JobMoves
  BY StepIs DEF Working
<1>2. mode = "creating" \/ dir[CURRENT] = Selected(manifest)
  BY BeforeSelects
<1>3. Rest' /\ Before(m)'
  BY <1>1, <1>2, CalmStep
<1> QED
  BY <1>1, <1>3, CalmKeeps, StepIs, Rigid

(* publish_files: the manifest is written, flushed, named and settled.     *)
LEMMA RunWriting ==
  ASSUME NEW m, Working(m), Writing(m), End \in Seq(Steps)
  PROVE  Rest' /\ (Writing(m)' \/ Choosing(m)') /\ (Marked => Marked') /\ pages' = pages
<1>1. /\ Rest /\ scenario' = scenario /\ InRange(m) /\ m \in Manifests /\ SelectInv
      /\ m = job.manifest /\ ManifestFile(m.generation) \in Names /\ manifest_pending \in Names
      /\ Before(m) /\ Flushed(m) /\ Settled(m) /\ Contents(m)
  BY NamesHold DEF Working, Rest, InRange, Single, Writing, Flushed
<1>2. CASE job.todo = WriteManifest(End)
  <2>1. Goes(job.todo, "write_manifest", FlushManifest(End))
    BY <1>2, PublishSteps
  <2>2. PutEntry(manifest_pending, Written(m)) /\ Directory /\ FilesKept /\ pages' = pages
    BY <1>1, <2>1, StepIs, DirectorySteps
  <2>3. Touches({manifest_pending}) /\ dir'[manifest_pending] = Written(m)
    BY <1>1, <2>2, PutTouches, EntryFacts
  <2>4. Calm({manifest_pending})
    BY <2>2, <2>3, CalmNames
  <2> QED
    BY <1>1, <2>1, <2>2, <2>3, <2>4, CalmRun DEF Writing, Written
<1>3. CASE job.todo = FlushManifest(End) /\ dir[manifest_pending] = Written(m)
  <2>1. Goes(job.todo, "flush_manifest", RenameManifest(End))
    BY <1>3, PublishSteps
  <2>2. FlushEntry(manifest_pending) /\ Directory /\ FilesKept /\ pages' = pages
    BY <1>1, <2>1, StepIs, DirectorySteps
  <2>3. Touches({manifest_pending}) /\ dir'[manifest_pending] = Selected(m)
    BY <1>1, <1>3, <2>2, FlushTouches, EntryFacts
  <2>4. Calm({manifest_pending})
    BY <2>2, <2>3, CalmNames
  <2> QED
    BY <1>1, <2>1, <2>2, <2>3, <2>4, CalmRun DEF Writing, Selected
<1>4. CASE job.todo = RenameManifest(End) /\ dir[manifest_pending] = Selected(m)
  <2>1. Goes(job.todo, "rename_manifest", SyncManifest(End))
    BY <1>4, PublishSteps
  <2>2. /\ ~IsFile(dir[ManifestFile(m.generation)])
        /\ Rename(manifest_pending, ManifestFile(m.generation))
        /\ Directory /\ FilesKept /\ pages' = pages
    BY <1>1, <2>1, StepIs, DirectorySteps
  <2> DEFINE S == {manifest_pending, ManifestFile(m.generation)}
  <2>3. Touches(S) /\ dir'[ManifestFile(m.generation)] = Selected(m)
    <3>1. manifest_pending # ManifestFile(m.generation)
      BY NamesDiffer DEF Single
    <3> QED
      BY <1>1, <1>4, <2>2, <3>1, RenameTouches, EntryFacts
  <2>4. ASSUME NEW c \in past[CURRENT], IsFile(c)
        PROVE  ManifestFile(c.body.generation) \notin S
    <3>1. Complete(c.body)
      BY <1>1, <2>4, ChoiceIs
    <3>2. ManifestFile(c.body.generation) \in Names
      BY <3>1, NamesHold DEF Complete, InRange
    <3>3. dir[ManifestFile(c.body.generation)] = Selected(c.body)
      BY <2>2, <3>1, <3>2 DEF Complete, Directory
    <3>4. ManifestFile(c.body.generation) # ManifestFile(m.generation)
      BY <2>2, <3>3, EntryFacts DEF IsFile
    <3> QED
      BY <3>4, NamesDiffer DEF Single
  <2>5. Calm(S)
    BY <2>2, <2>3, <2>4, NamesDiffer DEF Calm, Single
  <2> QED
    BY <1>1, <2>1, <2>2, <2>3, <2>5, CalmRun DEF Writing, Selected
<1>5. CASE job.todo = SyncManifest(End) /\ dir[ManifestFile(m.generation)] = Selected(m)
  <2>1. Goes(job.todo, "sync_directory", WriteCurrent(End))
    BY <1>5, PublishSteps
  <2>2. SyncDirectory /\ Directory /\ FilesKept /\ pages' = pages
    BY <1>1, <2>1, StepIs, DirectorySteps
  <2>3. Calm({}) /\ \A n \in Names : past'[n] = {dir[n]}
    BY <2>2, SyncTouches, CalmNames
  <2>4. past'[ManifestFile(m.generation)] = {Selected(m)}
    BY <1>1, <1>5, <2>3
  <2>5. /\ Rest' /\ Before(m)' /\ (Marked => Marked') /\ Settled(m)' /\ Flushed(m)' /\ InRange(m)'
        /\ job'.todo = WriteCurrent(End) /\ End' = End
    BY <1>1, <2>1, <2>2, <2>3, CalmRun
  <2>6. Complete(m)'
    BY <2>4, <2>5 DEF Complete, Selected, ManifestFile
  <2> QED
    BY <2>2, <2>5, <2>6 DEF Choosing
<1> QED
  BY <1>2, <1>3, <1>4, <1>5 DEF Writing

(* publish_files: CURRENT.pending is written and flushed.                  *)
LEMMA RunChoosing ==
  ASSUME NEW m, Working(m), Choosing(m), End \in Seq(Steps), job.todo # RenameCurrent(End)
  PROVE  Rest' /\ Choosing(m)' /\ (Marked => Marked') /\ pages' = pages
<1>1. /\ Rest /\ scenario' = scenario /\ InRange(m) /\ m \in Manifests
      /\ m = job.manifest /\ CURRENT_pending \in Names
      /\ Before(m) /\ Complete(m) /\ Contents(m)
      /\ ManifestFile(m.generation) \notin {CURRENT_pending}
  BY NamesHold, NamesDiffer DEF Working, Rest, InRange, Single, Choosing, Complete, Flushed
<1>2. CASE job.todo = WriteCurrent(End)
  <2>1. Goes(job.todo, "write_current", FlushCurrent(End))
    BY <1>2, PublishSteps
  <2>2. PutEntry(CURRENT_pending, Written(m)) /\ Directory /\ FilesKept /\ pages' = pages
    BY <1>1, <2>1, StepIs, DirectorySteps
  <2>3. Touches({CURRENT_pending}) /\ dir'[CURRENT_pending] = Written(m)
    BY <1>1, <2>2, PutTouches, EntryFacts
  <2>4. Calm({CURRENT_pending})
    BY <2>2, <2>3, CalmNames
  <2> QED
    BY <1>1, <2>1, <2>2, <2>3, <2>4, CalmRun DEF Choosing, Written
<1>3. CASE job.todo = FlushCurrent(End) /\ dir[CURRENT_pending] = Written(m)
  <2>1. Goes(job.todo, "flush_current", RenameCurrent(End))
    BY <1>3, PublishSteps
  <2>2. FlushEntry(CURRENT_pending) /\ Directory /\ FilesKept /\ pages' = pages
    BY <1>1, <2>1, StepIs, DirectorySteps
  <2>3. Touches({CURRENT_pending}) /\ dir'[CURRENT_pending] = Selected(m)
    BY <1>1, <1>3, <2>2, FlushTouches, EntryFacts
  <2>4. Calm({CURRENT_pending})
    BY <2>2, <2>3, CalmNames
  <2> QED
    BY <1>1, <2>1, <2>2, <2>3, <2>4, CalmRun DEF Choosing, Selected
<1> QED
  BY <1>2, <1>3 DEF Choosing

(* A copy is marked while its first selections are made.                   *)
Covered == Copied => Marked \/ (job.kind \in {"publish", "adopt"} /\ mode # "creating")

(* publish_files: the rename selects the manifest.                         *)
LEMMA RunChoose ==
  ASSUME NEW m, Working(m), Before(m), Complete(m), Recent(m), Covered, End \in Seq(Steps),
         job.todo = RenameCurrent(End), dir[CURRENT_pending] = Selected(m)
  PROVE  Rest' /\ Chosen(m)' /\ (Marked => Marked') /\ pages' = pages
<1> DEFINE S == {CURRENT_pending, CURRENT}
<1>1. /\ TypeOK /\ EntriesInv /\ SelectInv /\ StoreInv /\ PinInv /\ AttachInv /\ NewInv
      /\ scenario' = scenario /\ InRange(m) /\ m = job.manifest
      /\ CURRENT_pending \in Names /\ CURRENT \in Names
      /\ ATTACH_REQUIRED \in Names /\ READ_ONLY \in Names
  BY NamesHold DEF Working, Rest, Single
<1>2. Goes(job.todo, "rename_current", SyncSelection(End))
  BY PublishSteps
<1>3. /\ Rename(CURRENT_pending, CURRENT) /\ Directory /\ FilesKept /\ pages' = pages /\ JobMoves
      /\ job'.todo = SyncSelection(End) /\ End' = End /\ job' # NoJob /\ job'.kind = job.kind
  BY <1>1, <1>2, StepIs, DirectorySteps
<1>4. /\ Touches(S) /\ dir'[CURRENT] = Selected(m)
      /\ past'[CURRENT] = past[CURRENT] \cup {Selected(m)}
  <2>1. CURRENT_pending # CURRENT
    BY NamesDiffer
  <2>2. /\ Touches({CURRENT_pending, CURRENT}) /\ dir'[CURRENT] = dir[CURRENT_pending]
        /\ past'[CURRENT] = past[CURRENT] \cup {dir[CURRENT_pending]}
    BY ONLY <1>1, <1>3, <2>1, RenameTouches, EntryFacts
  <2> QED
    BY <2>2
<1>5. /\ ATTACH_REQUIRED \notin S /\ READ_ONLY \notin S
      /\ \A f : PagesFile(f) \notin S
      /\ \A g : ManifestFile(g) \notin S
  BY NamesDiffer DEF Single
<1>6. UNCHANGED <<mode, store, pins, acked, roles>>
  BY <1>3 DEF JobMoves
<1> HIDE DEF S
<1>7. TypeOK' /\ NewInv'
  BY <1>1, <1>3, <1>4, KeepTypes, JobGoes DEF FilesKept
<1>8. EntriesInv'
  BY <1>1, <1>3, <1>4, <1>5, KeepEntries DEF FilesKept
<1>9. PinInv'
  <2>1. pins' \subseteq pins /\ (mode' # "serving" => pins' = {})
    BY <1>1, <1>6 DEF PinInv
  <2> QED
    BY <1>1, <1>3, <1>4, <1>5, <2>1, KeepPins
<1>10. StoreInv'
  <2>1. UNCHANGED <<scenario, mode, store, pages>>
    BY <1>1, <1>3, <1>6
  <2>2. dir'[CURRENT] \in past'[CURRENT]
    BY <1>4
  <2>3. Selected(manifest) \in past[CURRENT] => Selected(manifest) \in past'[CURRENT]
    BY <1>4
  <2> QED
    BY ONLY <1>1, <1>3, <2>1, <2>2, <2>3, KeepStore
<1>11. \A c : Complete(c) => Complete(c)'
  <2> SUFFICES ASSUME NEW c, Complete(c)
               PROVE  Complete(c)'
    OBVIOUS
  <2>1. Flushed(c)'
    BY <1>3 DEF FilesKept, Complete, InRange
  <2> QED
    BY <1>1, <1>4, <1>5, <2>1, KeepComplete
<1>12. SelectInv'
  <2>1. SUFFICES ASSUME NEW c \in past'[CURRENT]
                 PROVE  \/ c = Absent /\ acked' = NoManifest
                        \/ /\ c = Selected(c.body) /\ Complete(c.body)' /\ Recent(c.body)'
                           /\ IsFile(dir'[CURRENT]) /\ Within(c.body, dir'[CURRENT].body)
    BY DEF SelectInv, IsFile, Within, Selected, Absent, NoManifest, Manifest
  <2>2. IsFile(dir'[CURRENT]) /\ dir'[CURRENT].body = m
    BY <1>4, EntryFacts DEF IsFile
  <2>3. CASE c = Selected(m)
    <3>1. c.body = m
      BY <2>3, EntryFacts
    <3>2. Recent(c.body)'
      BY <1>6, <3>1 DEF Recent
    <3>3. Within(c.body, dir'[CURRENT].body)
      BY <1>1, <2>2, <3>1 DEF Within, InRange, Manifests
    <3> QED
      BY <1>11, <2>2, <2>3, <3>1, <3>2, <3>3
  <2>4. CASE c \in past[CURRENT] /\ c = Absent
    <3>1. acked = NoManifest
      BY <1>1, <2>4, EntryFacts DEF SelectInv
    <3> QED
      BY <1>6, <2>4, <3>1
  <2>5. CASE c \in past[CURRENT] /\ IsFile(c)
    <3>1. c = Selected(c.body) /\ Complete(c.body)' /\ Recent(c.body)
      BY <1>1, <1>11, <2>5, ChoiceIs
    <3>2. Recent(c.body)'
      BY <1>6, <3>1 DEF Recent
    <3>3. Within(c.body, dir'[CURRENT].body)
      BY <2>2, <2>5 DEF Before
    <3> QED
      BY <2>2, <3>1, <3>2, <3>3
  <2> QED
    BY <1>4, <2>3, <2>4, <2>5 DEF IsFile
<1>13. Marked => Marked'
  BY <1>1, <1>4, <1>5, KeepSingle DEF Marked
<1>14. AttachInv'
  <2>1. /\ past'[ATTACH_REQUIRED] \subseteq past[ATTACH_REQUIRED]
        /\ past'[READ_ONLY] \subseteq past[READ_ONLY] /\ Copied' = Copied /\ roles' = roles
    BY <1>1, <1>4, <1>5, <1>6, Rigid DEF Touches
  <2>2. CASE ~Copied \/ Absent \notin past[ATTACH_REQUIRED]
    BY <2>1, <2>2 DEF AttachInv, Absent, NoManifest, Manifest, ATTACH_REQUIRED
  <2>3. CASE Copied /\ Absent \in past[ATTACH_REQUIRED]
    <3>1. ~Marked
      BY <2>3, EntryFacts DEF Marked
    <3>2. job.kind \in {"publish", "adopt"} /\ mode # "creating"
      BY <2>3, <3>1 DEF Covered
    <3>3. Selected(manifest) \in past[CURRENT] /\ m.namespace = manifest.namespace
      BY <1>1, <3>2 DEF Before, EntriesInv
    <3>4. \A c \in past[CURRENT] : IsFile(c) =>
            /\ c.body.namespace \in 1 .. Len(roles)
            /\ \A e \in past[READ_ONLY] : IsFile(e) = roles[c.body.namespace]
      BY <1>1, <2>3 DEF AttachInv
    <3>5. /\ m.namespace \in 1 .. Len(roles)
          /\ \A e \in past[READ_ONLY] : IsFile(e) = roles[m.namespace]
      BY <3>3, <3>4, EntryFacts DEF IsFile
    <3>6. \A c \in past'[CURRENT] : IsFile(c) =>
            /\ c.body.namespace \in 1 .. Len(roles)
            /\ \A e \in past[READ_ONLY] : IsFile(e) = roles[c.body.namespace]
      BY <1>4, <3>4, <3>5, EntryFacts
    <3> QED
      BY <2>1, <3>6 DEF AttachInv, IsFile, Absent, NoManifest, Manifest, CURRENT, READ_ONLY
  <2> QED
    BY <2>2, <2>3
<1>15. Chosen(m)'
  BY <1>3, <1>4, <1>11 DEF Chosen, Selected, CURRENT
<1> QED
  BY <1>3, <1>7, <1>8, <1>9, <1>10, <1>12, <1>13, <1>14, <1>15 DEF Rest

(* A step of publish_files, up to the flush of the selection.              *)
LEMMA RunStep ==
  ASSUME NEW m, Working(m), Running(m), Recent(m), Covered, End \in Seq(Steps),
         job.todo # SyncSelection(End)
  PROVE  Rest' /\ Running(m)' /\ (Marked => Marked') /\ pages' = pages
<1>1. CASE Preparing(m)
  BY <1>1, RunPreparing DEF Running
<1>2. CASE Writing(m)
  BY <1>2, RunWriting DEF Running
<1>3. CASE Choosing(m) /\ job.todo # RenameCurrent(End)
  BY <1>3, RunChoosing DEF Running
<1>4. CASE Choosing(m) /\ job.todo = RenameCurrent(End)
  <2>1. Before(m) /\ Complete(m)
    BY <1>4 DEF Choosing
  <2>2. dir[CURRENT_pending] = Selected(m)
    <3>1. /\ Goes(RenameCurrent(End), "rename_current", SyncSelection(End))
          /\ Goes(FlushCurrent(End), "flush_current", RenameCurrent(End))
          /\ Goes(WriteCurrent(End), "write_current", FlushCurrent(End))
      BY PublishSteps
    <3>2. RenameCurrent(End) # FlushCurrent(End) /\ RenameCurrent(End) # WriteCurrent(End)
      BY <3>1 DEF Goes
    <3> QED
      BY <1>4, <3>2 DEF Choosing
  <2> QED
    BY <1>4, <2>1, <2>2, RunChoose DEF Running
<1>5. ~Chosen(m)
  BY DEF Chosen
<1> QED
  BY <1>1, <1>2, <1>3, <1>4, <1>5 DEF Running

(* What is left after the selection.                                       *)
LEMMA EndIs ==
  ASSUME TypeOK
  PROVE  /\ job.kind \in {"none", "create", "copy", "publish"} => End = <<>> /\ End \in Seq(Steps)
         /\ job.kind = "adopt" => End = Reclaim /\ End \in Seq(Steps)
         /\ job.kind = "attach" /\ roles # <<>> =>
              /\ roles[Len(roles)] \in BOOLEAN /\ End = WriteRole(roles[Len(roles)])
              /\ End \in Seq(Steps)
<1>1. <<>> \in Seq(Steps) /\ Reclaim \in Seq(Steps) /\ \A r \in BOOLEAN : WriteRole(r) \in Seq(Steps)
  BY EndSteps DEF Goes
<1>2. roles # <<>> => roles[Len(roles)] \in BOOLEAN
  <2>1. roles \in Seq(BOOLEAN) /\ Len(roles) \in Nat
    BY LenProperties DEF TypeOK
  <2>2. roles # <<>> => Len(roles) \in 1 .. Len(roles)
    BY <2>1, EmptySeq
  <2> QED
    BY <2>1, <2>2, ElementOfSeq
<1> QED
  BY <1>1, <1>2 DEF End

(* The end of a handover.                                                  *)
LEMMA SelectAndReclaim ==
  SyncSelection(Reclaim) = <<"sync_directory", "reclaim">>
<1>1. "sync_directory" \in Steps /\ "reclaim" \in Steps
  BY DEF Steps
<1> PICK t : t = <<"sync_directory", "reclaim">>
  OBVIOUS
<1>2. t \in Seq(Steps) /\ Len(t) = 2 /\ t[1] = "sync_directory" /\ t[2] = "reclaim"
  BY <1>1
<1>3. <<"sync_directory">> \in Seq(Steps) /\ <<"reclaim">> \in Seq(Steps)
  BY <1>1
<1> PICK u : u = <<"sync_directory">> \o <<"reclaim">>
  OBVIOUS
<1>4. u \in Seq(Steps) /\ Len(u) = 2 /\ u[1] = "sync_directory" /\ u[2] = "reclaim"
  <2>1. /\ Len(<<"sync_directory">>) = 1 /\ Len(<<"reclaim">>) = 1
        /\ <<"sync_directory">>[1] = "sync_directory" /\ <<"reclaim">>[1] = "reclaim"
    OBVIOUS
  <2>2. /\ u \in Seq(Steps) /\ Len(u) = 1 + 1
        /\ \A i \in 1 .. 1 + 1 : u[i] = IF i <= 1 THEN <<"sync_directory">>[i] ELSE <<"reclaim">>[i - 1]
    BY <1>3, <2>1, ConcatProperties
  <2> QED
    BY <2>1, <2>2
<1>5. \A i \in 1 .. Len(t) : t[i] = u[i]
  BY <1>2, <1>4
<1>6. u = t
  BY <1>2, <1>4, <1>5, SeqEqual
<1> QED
  BY <1>6 DEF SyncSelection, Reclaim

(* The last steps of a job are not among those that move it on.            *)
LEMMA NotLast ==
  ASSUME NEW m, Working(m)
  PROVE  /\ job.todo # SyncSelection(<<>>) /\ job.todo # SyncSelection(Reclaim)
         /\ job.todo # Reclaim
<1>1. /\ Goes(SyncSelection(<<>>), "sync_directory", <<>>)
      /\ Goes(SyncSelection(Reclaim), "sync_directory", Reclaim) /\ Goes(Reclaim, "reclaim", <<>>)
      /\ Len(<<>>) = 0
  <2>1. <<>> \in Seq(Steps) /\ Reclaim \in Seq(Steps) /\ Goes(Reclaim, "reclaim", <<>>) /\ Len(<<>>) = 0
    BY EndSteps DEF Goes
  <2> QED
    BY <2>1, PublishSteps
<1>2. SyncSelection(Reclaim) = <<"sync_directory", "reclaim">>
  BY SelectAndReclaim
<1>3. CASE JobPages
  BY <1>1, <1>3 DEF JobPages, Goes
<1>4. CASE JobDirectory
  <2>1. Len(job.todo) > 1 /\ job.todo # SyncSelection(Reclaim)
    BY <1>2, <1>4 DEF JobDirectory, Selecting
  <2> QED
    BY <1>1, <2>1 DEF Goes
<1> QED
  BY <1>3, <1>4 DEF Working

(* How many steps are left.                                                *)
LEMMA StepCounts ==
  ASSUME NEW z \in Seq(Steps)
  PROVE  /\ Len(z) \in Nat /\ Len(SyncSelection(z)) = Len(z) + 1
         /\ Len(RenameCurrent(z)) = Len(z) + 2 /\ Len(FlushCurrent(z)) = Len(z) + 3
         /\ Len(WriteCurrent(z)) = Len(z) + 4 /\ Len(SyncManifest(z)) = Len(z) + 5
         /\ Len(RenameManifest(z)) = Len(z) + 6 /\ Len(FlushManifest(z)) = Len(z) + 7
         /\ Len(WriteManifest(z)) = Len(z) + 8 /\ Len(SyncFiles(z)) = Len(z) + 9
         /\ Len(FlushBoth(z)) = Len(z) + 10 /\ Len(FlushOnly(z)) = Len(z) + 9
         /\ Len(FlushNew(z)) = Len(z) + 11 /\ Len(SyncMarker(z)) = Len(z) + 11
         /\ Len(WriteMarker(z)) = Len(z) + 12
<1>1. /\ Goes(SyncSelection(z), "sync_directory", z)
      /\ Goes(RenameCurrent(z), "rename_current", SyncSelection(z))
      /\ Goes(FlushCurrent(z), "flush_current", RenameCurrent(z))
      /\ Goes(WriteCurrent(z), "write_current", FlushCurrent(z))
      /\ Goes(SyncManifest(z), "sync_directory", WriteCurrent(z))
      /\ Goes(RenameManifest(z), "rename_manifest", SyncManifest(z))
      /\ Goes(FlushManifest(z), "flush_manifest", RenameManifest(z))
      /\ Goes(WriteManifest(z), "write_manifest", FlushManifest(z))
      /\ Goes(SyncFiles(z), "sync_directory", WriteManifest(z))
      /\ Goes(FlushBoth(z), "sync_pages", SyncFiles(z))
      /\ Goes(FlushOnly(z), "sync_pages", WriteManifest(z))
      /\ Goes(FlushNew(z), "sync_new_pages", FlushBoth(z))
      /\ Goes(SyncMarker(z), "sync_directory", FlushBoth(z))
      /\ Goes(WriteMarker(z), "write_marker", SyncMarker(z))
  BY PublishSteps
<1>2. \A s, x, t : Goes(s, x, t) => Len(s) = Len(t) + 1 /\ Len(t) \in Nat
  BY DEF Goes
<1>3. /\ Len(z) \in Nat /\ Len(SyncSelection(z)) = Len(z) + 1
      /\ Len(RenameCurrent(z)) = Len(SyncSelection(z)) + 1
      /\ Len(FlushCurrent(z)) = Len(RenameCurrent(z)) + 1
      /\ Len(WriteCurrent(z)) = Len(FlushCurrent(z)) + 1
      /\ Len(SyncManifest(z)) = Len(WriteCurrent(z)) + 1
      /\ Len(RenameManifest(z)) = Len(SyncManifest(z)) + 1
  BY ONLY <1>1, <1>2, Zenon
<1>4. /\ Len(FlushManifest(z)) = Len(RenameManifest(z)) + 1
      /\ Len(WriteManifest(z)) = Len(FlushManifest(z)) + 1
      /\ Len(SyncFiles(z)) = Len(WriteManifest(z)) + 1
      /\ Len(FlushBoth(z)) = Len(SyncFiles(z)) + 1
      /\ Len(FlushOnly(z)) = Len(WriteManifest(z)) + 1
      /\ Len(FlushNew(z)) = Len(FlushBoth(z)) + 1
      /\ Len(SyncMarker(z)) = Len(FlushBoth(z)) + 1
      /\ Len(WriteMarker(z)) = Len(SyncMarker(z)) + 1
  BY ONLY <1>1, <1>2, Zenon
<1> QED
  BY ONLY <1>3, <1>4

(* The last step of publish_files.                                         *)
LEMMA RunningLast ==
  ASSUME NEW m, Running(m), End \in Seq(Steps), job.todo = SyncSelection(End)
  PROVE  Chosen(m)
BY StepCounts DEF Running, Preparing, Writing, Choosing

(* A step of store::create.                                                *)
LEMMA StepCreate ==
  ASSUME NEW m, Working(m), Recent(m), job.kind = "create", Creating(m)
  PROVE  Rest' /\ Creating(m)' /\ job'.kind = "create"
<1>1. TypeOK /\ NewInv /\ JobMoves /\ scenario' = scenario
  BY JobMovesOn DEF Working, Rest
<1>2. End = <<>> /\ End \in Seq(Steps)
  BY <1>1, EndIs
<1>3. job.todo # SyncSelection(End)
  BY <1>2, NotLast
<1>4. Covered
  BY DEF Covered, Creating
<1>5. Rest' /\ Running(m)' /\ pages' = pages
  BY <1>2, <1>3, <1>4, RunStep DEF Creating
<1> QED
  BY <1>1, <1>5, JobGoes, Rigid DEF Creating, JobMoves, store

(* A step of publish.                                                      *)
LEMMA StepPublish ==
  ASSUME NEW m, Working(m), Recent(m), job.kind = "publish", Publishing(m)
  PROVE  Rest' /\ Publishing(m)' /\ job'.kind = "publish"
<1>1. TypeOK /\ NewInv /\ JobMoves /\ scenario' = scenario
  BY JobMovesOn DEF Working, Rest
<1>2. End = <<>> /\ End \in Seq(Steps)
  BY <1>1, EndIs
<1>3. job.todo # SyncSelection(End)
  BY <1>2, NotLast
<1>4. Covered
  BY DEF Covered, Publishing
<1>5. Rest' /\ Running(m)' /\ pages' = pages
  BY <1>2, <1>3, <1>4, RunStep DEF Publishing
<1> QED
  BY <1>1, <1>5, JobGoes, Rigid DEF Publishing, JobMoves, store

(* A step of adopt.                                                        *)
LEMMA StepAdopt ==
  ASSUME NEW m, Working(m), Recent(m), job.kind = "adopt", Adopting(m)
  PROVE  Rest' /\ Adopting(m)' /\ job'.kind = "adopt"
<1>1. TypeOK /\ NewInv /\ JobMoves /\ scenario' = scenario
  BY JobMovesOn DEF Working, Rest
<1>2. End = Reclaim /\ End \in Seq(Steps)
  BY <1>1, EndIs
<1>3. job.todo # SyncSelection(End) /\ job.todo # Reclaim
  BY <1>2, NotLast
<1>4. Covered
  BY DEF Covered, Adopting
<1>5. Rest' /\ Running(m)' /\ pages' = pages
  BY <1>2, <1>3, <1>4, RunStep DEF Adopting
<1> QED
  BY <1>1, <1>5, JobGoes, Rigid DEF Adopting, JobMoves, store

(* A marker is put or removed.                                             *)
LEMMA MarkStep ==
  ASSUME Rest, JobMoves, UNCHANGED files, job.kind = "attach" \/ mode = "creating",
         NEW n \in {ATTACH_REQUIRED, READ_ONLY}, NEW e \in Entries, PutEntry(n, e),
         n = ATTACH_REQUIRED => e \in {Absent, Mark("marker")},
         n = READ_ONLY => e \in {Absent, Mark("role")}
  PROVE  /\ TypeOK' /\ EntriesInv' /\ SelectInv' /\ StoreInv' /\ PinInv' /\ NewInv'
         /\ Touches({n}) /\ dir'[n] = e /\ past'[n] = past[n] \cup {e}
         /\ (\A m : Complete(m) => Complete(m)') /\ (\A m : Before(m) => Before(m)')
         /\ (\A m : Contents(m) => Contents(m)')
         /\ (\A m : InRange(m) /\ Named(m) => Named(m)')
<1>1. /\ TypeOK /\ EntriesInv /\ SelectInv /\ StoreInv /\ PinInv /\ NewInv
      /\ scenario' = scenario /\ UNCHANGED <<mode, store, pins, acked, roles>> /\ manifest' = manifest
      /\ CURRENT \in Names
      /\ ATTACH_REQUIRED \in Names /\ READ_ONLY \in Names /\ n \in Names
  BY NamesHold DEF Rest, JobMoves, Single, store
<1>2. Touches({n}) /\ dir'[n] = e /\ past'[n] = past[n] \cup {e}
  BY <1>1, KnownDirectory, PutTouches
<1>3. /\ CURRENT # n /\ (\A f : PagesFile(f) # n) /\ (\A g : ManifestFile(g) # n)
      /\ ATTACH_REQUIRED # READ_ONLY
  BY NamesDiffer DEF Single
<1>4. FilesKept /\ pages' = pages
  BY <1>1, SameFiles DEF files
<1>5. TypeOK' /\ NewInv' /\ job' # NoJob /\ job'.kind = job.kind
  BY <1>1, <1>2, <1>4, KeepTypes, JobGoes DEF FilesKept
<1>6. EntriesInv'
  <2>1. \A k \in {ATTACH_REQUIRED, READ_ONLY} : k # n => past'[k] \subseteq past[k]
    BY <1>1, <1>2 DEF Touches
  <2>2. \A f \in 1 .. MaxFile : past'[PagesFile(f)] \subseteq past[PagesFile(f)]
    BY <1>2, <1>3, NamesHold DEF Touches
  <2>3. past'[ATTACH_REQUIRED] \subseteq {Absent, Mark("marker")}
    BY <1>1, <1>2, <2>1 DEF EntriesInv
  <2>4. past'[READ_ONLY] \subseteq {Absent, Mark("role")}
    BY <1>1, <1>2, <2>1 DEF EntriesInv
  <2>5. \A f \in 1 .. MaxFile : past'[PagesFile(f)] \subseteq {Absent, Mark("pages")}
    BY <1>1, <2>2 DEF EntriesInv
  <2>6. MaxFile' = MaxFile /\ Names' = Names
    BY <1>1, Rigid
  <2>7. \A f \in 1 .. MaxFile : synced'[f] <= Len(pages'[f])
    BY <1>4, <2>6 DEF FilesKept, FilesOK
  <2>8. \A k \in Names : dir'[k] \in past'[k]
    BY <1>2 DEF Touches
  <2> QED
    BY <2>3, <2>4, <2>5, <2>6, <2>7, <2>8 DEF EntriesInv, PagesFile, ATTACH_REQUIRED, READ_ONLY,
       Absent, Mark, NoManifest, Manifest
<1>7. \A m : Contents(m) => Contents(m)'
  BY DEF files, Contents
<1>8. \A m : Flushed(m) => Flushed(m)'
  BY <1>7 DEF files, Flushed
<1>9. \A m : Complete(m) => Complete(m)'
  BY <1>1, <1>2, <1>3, <1>8, KeepComplete DEF Complete
<1>10. SelectInv'
  BY <1>1, <1>2, <1>3, <1>9, ChoiceIs, KeepSelect
<1>11. PinInv'
  <2>1. pins' \subseteq pins /\ (mode' # "serving" => pins' = {})
    BY <1>1 DEF PinInv
  <2> QED
    BY <1>1, <1>2, <1>3, <1>4, <2>1, KeepPins
<1>12. StoreInv'
  <2>1. UNCHANGED <<scenario, mode, store, pages>> /\ dir'[CURRENT] \in past'[CURRENT]
    BY <1>1, <1>2, <1>4 DEF Touches
  <2> QED
    BY ONLY <1>1, <1>5, <2>1, KeepStore, job.kind = "attach" \/ mode = "creating"
<1>13. \A m : Before(m) => Before(m)'
  BY <1>1, <1>2, <1>3, <1>5, KeepBefore
<1>14. \A m : InRange(m) /\ Named(m) => Named(m)'
  BY <1>2, <1>3, NamesHold DEF InRange, Named, Touches
<1> QED
  BY <1>2, <1>5, <1>6, <1>7, <1>9, <1>10, <1>11, <1>12, <1>13, <1>14

(* A role does not matter while the copy is marked; a marker never does    *)
(* harm.                                                                   *)
LEMMA MarkedAttach ==
  ASSUME Marked'
  PROVE  AttachInv'
BY EntryFacts DEF AttachInv, Marked, Absent, Mark, NoManifest, Manifest, ATTACH_REQUIRED

(* attach: the marker is written and settled.                              *)
LEMMA StepMarking ==
  ASSUME NEW m, Working(m), job.kind = "attach", End \in Seq(Steps), Marking(m),
         m.page_file_id = manifest.page_file_id
  PROVE  Rest' /\ (Marking(m)' \/ (Running(m)' /\ Marked'))
<1>1. /\ Rest /\ scenario' = scenario /\ m = job.manifest /\ InRange(m)
      /\ ATTACH_REQUIRED \in Names /\ Before(m) /\ Contents(m) /\ Named(m)
  BY NamesHold DEF Working, Single, Marking
<1>2. CASE job.todo = WriteMarker(End)
  <2>1. Goes(job.todo, "write_marker", SyncMarker(End))
    BY <1>2, PublishSteps
  <2>2. /\ PutEntry(ATTACH_REQUIRED, Mark("marker")) /\ UNCHANGED files /\ JobMoves
        /\ job'.todo = SyncMarker(End) /\ End' = End
    BY <1>1, <2>1, StepIs, DirectorySteps
  <2>3. Mark("marker") \in Entries /\ Mark("marker") # Absent
    BY EntryFacts
  <2>4. /\ TypeOK' /\ EntriesInv' /\ SelectInv' /\ StoreInv' /\ PinInv' /\ NewInv'
        /\ Touches({ATTACH_REQUIRED}) /\ dir'[ATTACH_REQUIRED] = Mark("marker")
        /\ past'[ATTACH_REQUIRED] = past[ATTACH_REQUIRED] \cup {Mark("marker")}
        /\ Before(m)' /\ Contents(m)' /\ Named(m)'
    <3>1. ATTACH_REQUIRED # READ_ONLY
      BY NamesDiffer
    <3> QED
      BY <1>1, <2>2, <2>3, <3>1, MarkStep
  <2>5. AttachInv'
    <3>1. past'[CURRENT] \subseteq past[CURRENT] /\ past'[READ_ONLY] \subseteq past[READ_ONLY]
      BY <2>4, NamesHold, NamesDiffer DEF Touches, Single
    <3>2. Absent \in past'[ATTACH_REQUIRED] => Absent \in past[ATTACH_REQUIRED]
      BY <2>3, <2>4
    <3>3. Copied' = Copied /\ roles' = roles /\ AttachInv
      BY <1>1, <2>2, Rigid DEF JobMoves, Rest
    <3> QED
      BY <3>1, <3>2, <3>3 DEF AttachInv, IsFile, Absent, NoManifest, Manifest, CURRENT,
         ATTACH_REQUIRED, READ_ONLY
  <2> QED
    BY <2>2, <2>4, <2>5 DEF Rest, Marking, Mark, NoManifest, Manifest, ATTACH_REQUIRED
<1>3. CASE job.todo = SyncMarker(End) /\ dir[ATTACH_REQUIRED] = Mark("marker")
  <2>1. Goes(job.todo, "sync_directory", FlushBoth(End))
    BY <1>3, PublishSteps
  <2>2. SyncDirectory /\ Directory /\ FilesKept /\ pages' = pages /\ JobMoves
    BY <1>1, <2>1, StepIs, DirectorySteps
  <2>3. Calm({}) /\ \A n \in Names : past'[n] = {dir[n]}
    BY <2>2, SyncTouches, CalmNames
  <2>4. Marked'
    BY <1>1, <1>3, <2>3 DEF Marked, Mark, NoManifest, Manifest, ATTACH_REQUIRED
  <2>5. /\ Rest' /\ Before(m)' /\ Contents(m)' /\ Named(m)' /\ job'.todo = FlushBoth(End)
        /\ End' = End
    BY <1>1, <2>1, <2>2, <2>3, CalmRun
  <2>6. manifest' = manifest
    BY <2>2 DEF JobMoves, store
  <2> QED
    BY <2>4, <2>5, <2>6 DEF Running, Preparing
<1> QED
  BY <1>2, <1>3 DEF Marking

(* Its selection is flushed.                                               *)
LEMMA StepChosen ==
  ASSUME NEW m, Working(m), job.kind = "attach", End \in Seq(Steps), Chosen(m), Marked
  PROVE  Rest' /\ Finishing(m)'
<1>1. /\ Rest /\ scenario' = scenario /\ m = job.manifest /\ InRange(m) /\ CURRENT \in Names
  BY NamesHold DEF Working, Single
<1>2. Goes(job.todo, "sync_directory", End)
  BY PublishSteps DEF Chosen
<1>3. /\ SyncDirectory /\ Directory /\ FilesKept /\ pages' = pages /\ JobMoves
      /\ job'.todo = End /\ End' = End
  BY <1>1, <1>2, StepIs, DirectorySteps
<1>4. Calm({}) /\ \A n \in Names : past'[n] = {dir[n]}
  BY <1>3, SyncTouches, CalmNames
<1>5. Rest'
  BY <1>1, <1>3, <1>4, CalmStep
<1>6. past'[CURRENT] = {Selected(m)}
  BY <1>1, <1>4 DEF Chosen
<1>7. Complete(m)' /\ Marked'
  BY <1>1, <1>4, CalmKeeps DEF Chosen
<1> QED
  BY <1>3, <1>5, <1>6, <1>7 DEF Finishing, Selected, CURRENT

(* attach: the role is recorded and the marker goes.                       *)
LEMMA StepFinishing ==
  ASSUME NEW m, Working(m), job.kind = "attach", Finishing(m), Copied,
         roles # <<>>, m.namespace = Len(roles)
  PROVE  Rest' /\ Finishing(m)'
<1>1. /\ Rest /\ scenario' = scenario /\ m = job.manifest /\ InRange(m) /\ CURRENT \in Names
      /\ ATTACH_REQUIRED \in Names /\ READ_ONLY \in Names /\ TypeOK
      /\ past[CURRENT] = {Selected(m)} /\ Complete(m)
  BY NamesHold DEF Working, Single, Finishing, Rest
<1>2. End = WriteRole(roles[Len(roles)]) /\ roles[Len(roles)] \in BOOLEAN
  BY <1>1, EndIs
<1>3. JobMoves /\ roles' = roles
  BY JobMovesOn DEF Working, JobMoves
<1>4. CASE job.todo = End /\ Marked
  <2>1. PICK r \in BOOLEAN : r = roles[Len(roles)]
    BY <1>2
  <2>2. Goes(job.todo, RoleStep(r), SyncRole)
    BY <1>2, <1>4, <2>1, EndSteps
  <2>3. DirectoryStep(RoleStep(r)) /\ UNCHANGED files /\ job'.todo = SyncRole
    <3>1. RoleStep(r) \notin {"sync_pages", "sync_new_pages", "copy_pages"}
      BY DEF RoleStep
    <3> QED
      BY <2>2, <3>1, StepIs
  <2>4. PICK e \in {Absent, Mark("role")} : PutEntry(READ_ONLY, e) /\ IsFile(e) = r
    <3>1. CASE r = TRUE
      <4>1. PutEntry(READ_ONLY, Mark("role"))
        BY <1>1, <2>3, <3>1, DirectorySteps DEF RoleStep
      <4>2. IsFile(Mark("role")) = r
        BY <3>1, EntryFacts DEF IsFile
      <4> QED
        BY <4>1, <4>2
    <3>2. CASE r = FALSE
      <4>1. PutEntry(READ_ONLY, Absent)
        BY <1>1, <2>3, <3>2, DirectorySteps DEF RoleStep
      <4>2. IsFile(Absent) = r
        BY <3>2 DEF IsFile
      <4> QED
        BY <4>1, <4>2
    <3> QED
      BY <3>1, <3>2
  <2>5. /\ TypeOK' /\ EntriesInv' /\ SelectInv' /\ StoreInv' /\ PinInv' /\ NewInv'
        /\ Touches({READ_ONLY}) /\ dir'[READ_ONLY] = e /\ Complete(m)'
    <3>1. ATTACH_REQUIRED # READ_ONLY /\ e \in Entries
      BY NamesDiffer, EntryFacts
    <3> QED
      BY <1>1, <1>3, <2>3, <2>4, <3>1, MarkStep
  <2>6. past'[CURRENT] = {Selected(m)} /\ Marked'
    <3>1. CURRENT \notin {READ_ONLY} /\ ATTACH_REQUIRED \notin {READ_ONLY}
      BY NamesDiffer
    <3>2. past'[CURRENT] = {Selected(m)}
      BY ONLY <1>1, <2>5, <3>1, KeepSingle
    <3>3. past'[ATTACH_REQUIRED] = {Mark("marker")}
      <4>1. past[ATTACH_REQUIRED] = {Mark("marker")}
        BY <1>4 DEF Marked
      <4> QED
        BY ONLY <1>1, <2>5, <3>1, <4>1, KeepSingle
    <3> QED
      BY <3>2, <3>3 DEF Marked, Mark, NoManifest, Manifest, ATTACH_REQUIRED
  <2>7. AttachInv'
    BY <2>6, MarkedAttach
  <2>8. IsFile(dir'[READ_ONLY]) = roles'[Len(roles')]
    BY <1>3, <2>1, <2>4, <2>5
  <2> QED
    BY <2>3, <2>5, <2>6, <2>7, <2>8 DEF Rest, Finishing, Selected, CURRENT, IsFile, Absent,
       NoManifest, Manifest, READ_ONLY, SyncRole, RemoveMarker, Unmarked
<1>5. CASE job.todo = SyncRole /\ Marked /\ IsFile(dir[READ_ONLY]) = roles[Len(roles)]
  <2>1. Goes(job.todo, "sync_directory", RemoveMarker)
    BY <1>5, EndSteps
  <2>2. SyncDirectory /\ Directory /\ FilesKept /\ pages' = pages /\ job'.todo = RemoveMarker
    BY <1>1, <2>1, StepIs, DirectorySteps
  <2>3. Calm({}) /\ \A n \in Names : past'[n] = {dir[n]}
    BY <2>2, SyncTouches, CalmNames
  <2>4. Rest'
    BY <1>1, <1>3, <2>2, <2>3, CalmStep
  <2>5. past'[CURRENT] = {Selected(m)} /\ Marked' /\ Complete(m)'
    BY <1>1, <1>5, <2>3, CalmKeeps
  <2>6. \A e \in past'[READ_ONLY] : IsFile(e) = roles'[Len(roles')]
    BY <1>1, <1>3, <1>5, <2>3
  <2> QED
    BY <2>2, <2>4, <2>5, <2>6 DEF Finishing, Selected, CURRENT, IsFile, Absent,
       NoManifest, Manifest, READ_ONLY, RemoveMarker, Unmarked
<1>6. CASE /\ job.todo = RemoveMarker /\ Marked
           /\ \A e \in past[READ_ONLY] : IsFile(e) = roles[Len(roles)]
  <2>1. Goes(job.todo, "remove_marker", Unmarked)
    BY <1>6, EndSteps
  <2>2. PutEntry(ATTACH_REQUIRED, Absent) /\ UNCHANGED files /\ job'.todo = Unmarked
    BY <1>1, <2>1, StepIs, DirectorySteps
  <2>3. /\ TypeOK' /\ EntriesInv' /\ SelectInv' /\ StoreInv' /\ PinInv' /\ NewInv'
        /\ Touches({ATTACH_REQUIRED}) /\ Complete(m)'
    <3>1. ATTACH_REQUIRED # READ_ONLY /\ Absent \in Entries
      BY NamesDiffer, EntryFacts
    <3> QED
      BY <1>1, <1>3, <2>2, <3>1, MarkStep
  <2>4. past'[CURRENT] = {Selected(m)} /\ past'[READ_ONLY] \subseteq past[READ_ONLY]
    BY <1>1, <2>3, NamesDiffer, KeepSingle DEF Touches
  <2>5. AttachInv'
    <3>1. Len(roles) \in Nat /\ Len(roles) # 0
      BY <1>1, LenProperties, EmptySeq DEF TypeOK
    <3>2. \A c \in past'[CURRENT] :
            /\ c.body.namespace \in 1 .. Len(roles')
            /\ \A e \in past'[READ_ONLY] : IsFile(e) = roles'[c.body.namespace]
      BY <1>3, <1>6, <2>4, <3>1, EntryFacts
    <3> QED
      BY <3>2 DEF AttachInv, IsFile, Absent, NoManifest, Manifest, CURRENT, READ_ONLY
  <2> QED
    BY <2>2, <2>3, <2>4, <2>5 DEF Rest, Finishing, Selected, CURRENT, Unmarked
<1>7. CASE job.todo = Unmarked
  BY <1>7, EndSteps, NotLast
<1> QED
  BY <1>1, <1>4, <1>5, <1>6, <1>7 DEF Finishing

(* A step of an attachment.                                                *)
LEMMA StepAttach ==
  ASSUME NEW m, Working(m), Recent(m), job.kind = "attach", Attaching(m)
  PROVE  Rest' /\ Attaching(m)' /\ job'.kind = "attach"
<1>1. TypeOK /\ NewInv /\ JobMoves /\ scenario' = scenario
  BY JobMovesOn DEF Working, Rest
<1>2. End \in Seq(Steps)
  BY <1>1, EndIs DEF Attaching
<1>3. /\ job'.kind = "attach" /\ mode' = mode /\ roles' = roles /\ manifest' = manifest
      /\ Copied' = Copied
  BY <1>1, JobGoes, Rigid DEF JobMoves, store
<1>4. Rest' /\ (Marking(m)' \/ Finishing(m)' \/ (Running(m)' /\ Marked'))
  <2>1. CASE Marking(m)
    BY <1>2, <2>1, StepMarking DEF Attaching
  <2>2. CASE Finishing(m)
    BY <2>2, StepFinishing DEF Attaching
  <2>3. CASE Running(m) /\ Marked /\ job.todo # SyncSelection(End)
    <3>1. Covered
      BY <2>3 DEF Covered
    <3> QED
      BY <1>2, <2>3, <3>1, RunStep
  <2>4. CASE Running(m) /\ Marked /\ job.todo = SyncSelection(End)
    <3>1. Chosen(m)
      BY <1>2, <2>4, RunningLast
    <3> QED
      BY <1>2, <2>4, <3>1, StepChosen
  <2> QED
    BY <2>1, <2>2, <2>3, <2>4 DEF Attaching
<1> QED
  BY <1>3, <1>4 DEF Attaching

(* Nothing is selected before a copy is complete.                          *)
LEMMA CopyBefore ==
  ASSUME mode = "creating", past[CURRENT] = {Absent}, job.kind = "copy", NEW m
  PROVE  Before(m)
BY DEF Before, IsFile

(* A calm step of a copy before its selection.                             *)
LEMMA CalmCopy ==
  ASSUME NEW m, Working(m), mode = "creating", past[CURRENT] = {Absent}, job.kind = "copy",
         NEW x, NEW y, Goes(job.todo, x, y), NEW S, Calm(S), pages' = pages
  PROVE  /\ Rest' /\ past'[CURRENT] = {Absent} /\ (Marked => Marked') /\ job'.todo = y
         /\ (Named(m) => Named(m)') /\ (Flushed(m) => Flushed(m)') /\ (Contents(m) => Contents(m)')
         /\ (Settled(m) => Settled(m)') /\ Before(m)' /\ End' = End
<1>1. Rest /\ scenario' = scenario /\ InRange(m) /\ JobMoves /\ CURRENT \in Names
  BY StepIs, NamesHold DEF Working, Single
<1>2. Rest' /\ \A k : Before(k) => Before(k)'
  BY <1>1, CalmStep
<1>3. Before(m)'
  BY <1>2, CopyBefore
<1>4. past'[CURRENT] = {Absent}
  BY <1>1, KeepSingle DEF Calm
<1> QED
  BY <1>1, <1>2, <1>3, <1>4, CalmKeeps, StepIs

(* The names a copy writes before its selection.                           *)
LEMMA CalmCopyNames ==
  ASSUME Touches({ManifestFile(1)}), FilesKept, past[CURRENT] = {Absent}
  PROVE  Calm({ManifestFile(1)})
BY NamesDiffer DEF Calm, Single, IsFile

(* What a copy begins with.                                                *)
LEMMA CopyManifestFacts ==
  ASSUME NEW s \in Nat, NEW m, m = Manifest(1, 1, 1, s, 1, 0)
  PROVE  /\ m \in Manifests /\ m.generation = 1 /\ m.page_file_id = 1 /\ m.page_count = 1
         /\ m.checkpoint_sequence = s /\ m.root = 1 /\ m.namespace = 0
BY DEF Manifest, Manifests

(* The first steps of a copy, up to its selection.                         *)
LEMMA CopyFirst ==
  ASSUME NEW m, Working(m), job.kind = "copy", Copying(m), past[CURRENT] = {Absent},
         job.todo \in {WriteCopyMarker, SyncCopyMarker}, synced[1] = 0,
         job.todo = SyncCopyMarker => dir[ATTACH_REQUIRED] = Mark("marker")
  PROVE  /\ Rest' /\ past'[CURRENT] = {Absent} /\ synced'[1] = 0
         /\ \/ job'.todo = SyncCopyMarker /\ dir'[ATTACH_REQUIRED] = Mark("marker")
            \/ job'.todo = CopyPages /\ Marked'
<1>1. /\ Rest /\ scenario' = scenario /\ m = job.manifest /\ InRange(m) /\ mode = "creating"
      /\ ATTACH_REQUIRED \in Names /\ CURRENT \in Names /\ Directory
  BY NamesHold, KnownDirectory DEF Working, Single, Copying, Rest
<1>2. CASE job.todo = WriteCopyMarker
  <2>1. Goes(job.todo, "write_marker", SyncCopyMarker)
    BY <1>2, CopyChain
  <2>2. /\ PutEntry(ATTACH_REQUIRED, Mark("marker")) /\ UNCHANGED files /\ JobMoves
        /\ job'.todo = SyncCopyMarker
    BY <1>1, <2>1, StepIs, DirectorySteps
  <2>3. Mark("marker") \in Entries /\ Mark("marker") # Absent
    BY EntryFacts
  <2>4. /\ TypeOK' /\ EntriesInv' /\ SelectInv' /\ StoreInv' /\ PinInv' /\ NewInv'
        /\ Touches({ATTACH_REQUIRED}) /\ dir'[ATTACH_REQUIRED] = Mark("marker")
    <3>1. ATTACH_REQUIRED # READ_ONLY
      BY NamesDiffer
    <3> QED
      BY <1>1, <2>2, <2>3, <3>1, MarkStep
  <2>5. past'[CURRENT] = {Absent}
    <3>1. CURRENT \notin {ATTACH_REQUIRED}
      BY NamesDiffer
    <3> QED
      BY <1>1, <2>4, <3>1, KeepSingle
  <2>6. AttachInv'
    BY <2>5 DEF AttachInv, IsFile, Absent, NoManifest, Manifest, CURRENT
  <2> QED
    BY <2>2, <2>4, <2>5, <2>6 DEF Rest, files
<1>3. CASE job.todo = SyncCopyMarker
  <2>1. Goes(job.todo, "sync_directory", CopyPages)
    BY <1>3, CopyChain
  <2>2. SyncDirectory /\ FilesKept /\ pages' = pages /\ UNCHANGED files
    BY <1>1, <2>1, StepIs, DirectorySteps
  <2>3. Calm({}) /\ \A n \in Names : past'[n] = {dir[n]}
    BY <1>1, <2>2, SyncTouches, CalmNames
  <2>4. Marked'
    BY <1>1, <1>3, <2>3 DEF Marked, Mark, NoManifest, Manifest, ATTACH_REQUIRED
  <2> QED
    BY <1>1, <2>1, <2>2, <2>3, <2>4, CalmCopy DEF files
<1> QED
  BY <1>2, <1>3

(* The first pages of a directory are written: nothing relies on the file. *)
LEMMA FirstPages ==
  ASSUME TypeOK, EntriesInv, scenario' = scenario, 1 \in 1 .. MaxFile, NEW s \in Nat,
         synced[1] = 0, past[CURRENT] = {Absent}, PutEntry(PagesFile(1), Mark("pages")),
         pages' = [pages EXCEPT ![1] = <<s>>], synced' = synced
  PROVE  /\ EntriesInv' /\ FilesOK' /\ Touches({PagesFile(1)}) /\ past'[CURRENT] = {Absent}
         /\ pages'[1] = <<s>> /\ dir'[PagesFile(1)] = Mark("pages")
         /\ past'[ATTACH_REQUIRED] \subseteq past[ATTACH_REQUIRED]
         /\ past'[READ_ONLY] \subseteq past[READ_ONLY]
<1>1. /\ ATTACH_REQUIRED \in Names /\ READ_ONLY \in Names /\ CURRENT \in Names /\ Directory
      /\ PagesFile(1) \in Names
  BY NamesHold, KnownDirectory DEF Single
<1>2. /\ Touches({PagesFile(1)}) /\ dir'[PagesFile(1)] = Mark("pages")
      /\ past'[PagesFile(1)] = past[PagesFile(1)] \cup {Mark("pages")}
  <2>1. Mark("pages") \in Entries
    BY EntryFacts
  <2> QED
    BY ONLY <1>1, <2>1, PutEntry(PagesFile(1), Mark("pages")), PutTouches
<1>3. /\ CURRENT \notin {PagesFile(1)} /\ ATTACH_REQUIRED \notin {PagesFile(1)}
      /\ READ_ONLY \notin {PagesFile(1)}
      /\ \A f : f # 1 => PagesFile(f) \notin {PagesFile(1)}
  BY NamesDiffer DEF Single
<1>4. FilesOK' /\ pages'[1] = <<s>>
  <2>1. MaxFile' = MaxFile
    BY Rigid
  <2>2. <<s>> \in Seq(Nat) /\ Len(<<s>>) = 1
    OBVIOUS
  <2>3. pages \in [1 .. MaxFile -> Seq(Nat)] /\ synced \in [1 .. MaxFile -> Nat]
    BY DEF TypeOK
  <2>4. pages' \in [1 .. MaxFile -> Seq(Nat)] /\ pages'[1] = <<s>>
        /\ \A f \in 1 .. MaxFile : f # 1 => pages'[f] = pages[f]
    BY <2>2, <2>3
  <2>5. \A f \in 1 .. MaxFile : synced'[f] <= Len(pages'[f])
    BY <2>2, <2>4 DEF EntriesInv
  <2> QED
    BY <2>1, <2>3, <2>4, <2>5 DEF FilesOK
<1>5. past'[CURRENT] = {Absent}
  BY ONLY <1>1, <1>2, <1>3, past[CURRENT] = {Absent}, KeepSingle
<1>6. /\ past'[ATTACH_REQUIRED] \subseteq past[ATTACH_REQUIRED]
      /\ past'[READ_ONLY] \subseteq past[READ_ONLY]
  BY <1>1, <1>2, <1>3 DEF Touches
<1>7. EntriesInv'
  <2>1. \A f \in 1 .. MaxFile : past'[PagesFile(f)] \subseteq {Absent, Mark("pages")}
    <3> TAKE f \in 1 .. MaxFile
    <3>1. past[PagesFile(f)] \subseteq {Absent, Mark("pages")}
      BY DEF EntriesInv
    <3>2. CASE f # 1
      BY <1>2, <1>3, <3>1, <3>2, NamesHold DEF Touches
    <3>3. CASE f = 1
      BY <1>2, <3>1, <3>3
    <3> QED
      BY <3>2, <3>3
  <2>2. past'[ATTACH_REQUIRED] \subseteq {Absent, Mark("marker")}
        /\ past'[READ_ONLY] \subseteq {Absent, Mark("role")}
    BY <1>6 DEF EntriesInv
  <2>3. MaxFile' = MaxFile /\ Names' = Names
    BY Rigid
  <2>4. \A f \in 1 .. MaxFile : synced'[f] <= Len(pages'[f])
    BY <1>4, <2>3 DEF FilesOK
  <2>5. \A n \in Names : dir'[n] \in past'[n]
    BY <1>2 DEF Touches
  <2> QED
    BY <2>1, <2>2, <2>3, <2>4, <2>5 DEF EntriesInv, PagesFile, ATTACH_REQUIRED, READ_ONLY,
       Absent, Mark, NoManifest, Manifest
<1> QED
  BY <1>2, <1>4, <1>5, <1>6, <1>7

(* The pages of a copy are written.                                        *)
LEMMA CopyWrites ==
  ASSUME NEW m, Working(m), job.kind = "copy", Copying(m), past[CURRENT] = {Absent},
         job.todo = CopyPages, synced[1] = 0, Marked
  PROVE  /\ Rest' /\ past'[CURRENT] = {Absent} /\ job'.todo = FlushCopied /\ Marked'
         /\ Named(m)' /\ Contents(m)'
<1>1. /\ TypeOK /\ EntriesInv /\ SelectInv /\ StoreInv /\ PinInv /\ NewInv
      /\ scenario' = scenario /\ m = job.manifest /\ InRange(m) /\ mode = "creating"
      /\ ATTACH_REQUIRED \in Names /\ logged \in Nat /\ m.page_file_id = 1 /\ m.page_count = 1
      /\ m.checkpoint_sequence = logged /\ m.root = 1
  BY NamesHold, CopyManifestFacts DEF Working, Single, Copying, Rest, TypeOK
<1>2. Goes(job.todo, "copy_pages", FlushCopied)
  BY CopyChain
<1>3. /\ PutEntry(PagesFile(1), Mark("pages")) /\ pages' = [pages EXCEPT ![1] = <<logged>>]
      /\ synced' = synced /\ JobMoves /\ job'.todo = FlushCopied
  BY <1>2, StepIs
<1>4. /\ EntriesInv' /\ FilesOK' /\ Touches({PagesFile(1)}) /\ past'[CURRENT] = {Absent}
      /\ pages'[1] = <<logged>> /\ dir'[PagesFile(1)] = Mark("pages")
      /\ past'[ATTACH_REQUIRED] \subseteq past[ATTACH_REQUIRED]
  <2>1. 1 \in 1 .. MaxFile
    BY <1>1 DEF InRange
  <2> QED
    BY <1>1, <1>3, <2>1, FirstPages
<1>5. UNCHANGED <<mode, store, pins, acked, roles>>
  BY <1>3 DEF JobMoves
<1>6. TypeOK' /\ NewInv'
  BY <1>1, <1>3, <1>4, KeepTypes, JobGoes
<1>7. Marked'
  <2>1. past[ATTACH_REQUIRED] = {Mark("marker")}
    BY DEF Marked
  <2>2. dir'[ATTACH_REQUIRED] \in past'[ATTACH_REQUIRED]
    BY <1>1, <1>4 DEF Touches
  <2>3. past'[ATTACH_REQUIRED] = {Mark("marker")}
    BY <1>4, <2>1, <2>2
  <2> QED
    BY <2>3 DEF Marked, Mark, NoManifest, Manifest, ATTACH_REQUIRED
<1>8. SelectInv'
  BY <1>1, <1>4, <1>5, EntryFacts DEF SelectInv, CURRENT, Absent, NoManifest, Manifest
<1>9. PinInv' /\ StoreInv' /\ AttachInv'
  BY <1>1, <1>5, <1>7, MarkedAttach DEF PinInv, StoreInv
<1>10. Named(m)'
  BY <1>1, <1>4 DEF Named, PagesFile, Mark, NoManifest, Manifest
<1>11. Contents(m)'
  <2>1. Len(<<logged>>) = 1 /\ <<logged>>[1] = logged
    OBVIOUS
  <2> QED
    BY <1>1, <1>4, <2>1 DEF Contents, CompletePages
<1> QED
  BY <1>3, <1>4, <1>6, <1>7, <1>8, <1>9, <1>10, <1>11 DEF Rest

(* The flush of a copy's pages, and its manifest.                          *)
LEMMA CopySettles ==
  ASSUME NEW m, Working(m), job.kind = "copy", Copying(m), past[CURRENT] = {Absent}, Marked,
         Named(m), Contents(m), job.todo = FlushCopied \/ Flushed(m),
         \/ job.todo \in {FlushCopied, CopyManifest}
         \/ job.todo = FlushCopy /\ dir[ManifestFile(1)] = Written(m)
  PROVE  /\ Rest' /\ past'[CURRENT] = {Absent} /\ Marked' /\ Named(m)' /\ Flushed(m)'
         /\ \/ job'.todo = CopyManifest
            \/ job'.todo = FlushCopy /\ dir'[ManifestFile(1)] = Written(m)
            \/ job'.todo = SyncCopy /\ dir'[ManifestFile(1)] = Selected(m)
<1>1. /\ Rest /\ TypeOK /\ EntriesInv /\ scenario' = scenario /\ m = job.manifest /\ InRange(m)
      /\ m \in Manifests /\ mode = "creating" /\ Directory /\ manifest = m
      /\ m.page_file_id \in 1 .. MaxFile /\ m.generation = 1 /\ ManifestFile(1) \in Names
  <2>1. /\ Rest /\ TypeOK /\ EntriesInv /\ scenario' = scenario /\ m = job.manifest /\ InRange(m)
        /\ mode = "creating" /\ Directory /\ manifest = m /\ m = Manifest(1, 1, 1, logged, 1, 0)
        /\ logged \in Nat
    BY KnownDirectory DEF Working, Copying, Rest, TypeOK
  <2> QED
    BY <2>1, NamesHold, CopyManifestFacts DEF InRange
<1>2. CASE job.todo = FlushCopied
  <2>1. Goes(job.todo, "sync_pages", CopyManifest)
    BY <1>2, CopyChain
  <2>2. SyncPages(m.page_file_id) /\ UNCHANGED <<directory, pages>>
    BY <1>1, <2>1, StepIs
  <2>3. Calm({}) /\ Flushed(m)'
    BY <1>1, <2>2, FlushedFiles, SameDirectory, CalmNames
  <2> QED
    BY <1>1, <2>1, <2>2, <2>3, CalmCopy
<1>3. CASE job.todo = CopyManifest /\ Flushed(m)
  <2>1. Goes(job.todo, "copy_manifest", FlushCopy)
    BY <1>3, CopyChain
  <2>2. PutEntry(ManifestFile(1), Written(m)) /\ FilesKept /\ pages' = pages
    BY <1>1, <2>1, StepIs, DirectorySteps
  <2>3. Touches({ManifestFile(1)}) /\ dir'[ManifestFile(1)] = Written(m)
    <3>1. Written(m) \in Entries
      BY <1>1, EntryFacts
    <3> QED
      BY ONLY <1>1, <2>2, <3>1, PutTouches
  <2>4. Calm({ManifestFile(1)})
    BY <2>2, <2>3, CalmCopyNames
  <2> QED
    BY <1>1, <1>3, <2>1, <2>2, <2>3, <2>4, CalmCopy
<1>4. CASE job.todo = FlushCopy /\ dir[ManifestFile(1)] = Written(m) /\ Flushed(m)
  <2>1. Goes(job.todo, "flush_manifest_file", SyncCopy)
    BY <1>4, CopyChain
  <2>2. FlushEntry(ManifestFile(1)) /\ FilesKept /\ pages' = pages
    BY <1>1, <2>1, StepIs, DirectorySteps
  <2>3. Touches({ManifestFile(1)}) /\ dir'[ManifestFile(1)] = Selected(m)
    <3>1. Touches({ManifestFile(1)}) /\ dir'[ManifestFile(1)] = [dir[ManifestFile(1)] EXCEPT !.flushed = TRUE]
      BY ONLY <1>1, <2>2, FlushTouches
    <3> QED
      BY <1>1, <1>4, <3>1, EntryFacts
  <2>4. Calm({ManifestFile(1)})
    BY <2>2, <2>3, CalmCopyNames
  <2> QED
    BY <1>1, <1>4, <2>1, <2>2, <2>3, <2>4, CalmCopy
<1>5. FlushCopied # CopyManifest /\ FlushCopied # FlushCopy
  BY CopyChain DEF Goes
<1> QED
  BY <1>2, <1>3, <1>4, <1>5

(* A copy is complete when the directory is flushed.                       *)
LEMMA CopySelects ==
  ASSUME NEW m, Working(m), job.kind = "copy", Copying(m), past[CURRENT] = {Absent}, Marked,
         Named(m), Flushed(m), job.todo = SyncCopy, dir[ManifestFile(1)] = Selected(m), End = <<>>
  PROVE  Rest' /\ Marked' /\ Choosing(m)'
<1>1. /\ Rest /\ scenario' = scenario /\ m = job.manifest /\ InRange(m) /\ Contents(m)
      /\ mode = "creating" /\ Directory /\ PagesFile(m.page_file_id) \in Names
      /\ m.generation = 1 /\ ManifestFile(1) \in Names
  <2>1. /\ Rest /\ TypeOK /\ EntriesInv /\ scenario' = scenario /\ m = job.manifest /\ InRange(m)
        /\ mode = "creating" /\ Directory /\ m = Manifest(1, 1, 1, logged, 1, 0)
        /\ logged \in Nat /\ Contents(m)
    BY KnownDirectory DEF Working, Copying, Rest, TypeOK, Flushed
  <2> QED
    BY <2>1, NamesHold, CopyManifestFacts DEF InRange
<1>2. Goes(job.todo, "sync_directory", WriteCurrent(<<>>))
  BY CopyChain
<1>3. SyncDirectory /\ FilesKept /\ pages' = pages
  BY <1>1, <1>2, StepIs, DirectorySteps
<1>4. Calm({}) /\ \A n \in Names : past'[n] = {dir[n]}
  BY <1>1, <1>3, SyncTouches, CalmNames
<1>5. /\ Rest' /\ Marked' /\ Flushed(m)' /\ Before(m)' /\ job'.todo = WriteCurrent(<<>>)
      /\ End' = <<>> /\ InRange(m)'
  BY <1>1, <1>2, <1>3, <1>4, CalmCopy, Rigid
<1>6. /\ past'[PagesFile(m.page_file_id)] = {Mark("pages")}
      /\ past'[ManifestFile(m.generation)] = {Selected(m)}
  BY <1>1, <1>4 DEF Named
<1>7. Complete(m)'
  BY <1>5, <1>6 DEF Complete, Settled, Selected, ManifestFile, PagesFile, Mark, NoManifest, Manifest
<1> QED
  BY <1>5, <1>7 DEF Choosing

(* A step of a copy.                                                       *)
LEMMA StepCopy ==
  ASSUME NEW m, Working(m), Recent(m), job.kind = "copy", Copying(m)
  PROVE  Rest' /\ Copying(m)' /\ job'.kind = "copy"
<1>1. TypeOK /\ NewInv /\ JobMoves /\ scenario' = scenario
  BY JobMovesOn DEF Working, Rest
<1>2. End = <<>> /\ End \in Seq(Steps)
  BY <1>1, EndIs
<1>3. /\ job'.kind = "copy" /\ mode' = mode /\ manifest' = manifest /\ Copied' = Copied
      /\ logged' = logged
  BY <1>1, JobGoes, Rigid DEF JobMoves, store
<1>4. CASE Marked /\ (Choosing(m) \/ Chosen(m))
  <2>1. job.todo # SyncSelection(End) /\ ~Chosen(m) /\ Covered
    BY <1>2, <1>4, NotLast DEF Chosen, Covered
  <2>2. CASE job.todo # RenameCurrent(End)
    BY <1>2, <1>3, <1>4, <2>1, <2>2, RunChoosing DEF Copying, Manifest
  <2>3. CASE job.todo = RenameCurrent(End)
    <3>1. Rest' /\ Running(m)' /\ Marked'
      BY <1>2, <1>4, <2>1, RunStep DEF Running
    <3>2. Before(m) /\ Complete(m) /\ dir[CURRENT_pending] = Selected(m)
      <4>1. /\ Goes(RenameCurrent(End), "rename_current", SyncSelection(End))
            /\ Goes(FlushCurrent(End), "flush_current", RenameCurrent(End))
            /\ Goes(WriteCurrent(End), "write_current", FlushCurrent(End))
        BY <1>2, PublishSteps
      <4>2. RenameCurrent(End) # FlushCurrent(End) /\ RenameCurrent(End) # WriteCurrent(End)
        BY <4>1 DEF Goes
      <4> QED
        BY <1>4, <2>1, <2>3, <4>2 DEF Choosing
    <3>3. Chosen(m)'
      BY <1>2, <2>1, <2>3, <3>2, RunChoose
    <3> QED
      BY <1>3, <3>1, <3>3 DEF Copying, Manifest
  <2> QED
    BY <2>2, <2>3
<1>5. CASE past[CURRENT] = {Absent} /\ ~(Marked /\ (Choosing(m) \/ Chosen(m)))
  <2>1. CASE job.todo \in {WriteCopyMarker, SyncCopyMarker} /\ synced[1] = 0
             /\ (job.todo = SyncCopyMarker => dir[ATTACH_REQUIRED] = Mark("marker"))
    BY <1>3, <1>5, <2>1, CopyFirst DEF Copying, Manifest, CURRENT, Absent, NoManifest,
       ATTACH_REQUIRED, Mark, SyncCopyMarker, CopyPages
  <2>2. CASE job.todo = CopyPages /\ synced[1] = 0 /\ Marked
    BY <1>3, <1>5, <2>2, CopyWrites DEF Copying, Manifest, CURRENT, Absent, NoManifest
  <2>3. CASE /\ Marked /\ Named(m) /\ Contents(m) /\ (job.todo = FlushCopied \/ Flushed(m))
             /\ \/ job.todo \in {FlushCopied, CopyManifest}
                \/ job.todo = FlushCopy /\ dir[ManifestFile(1)] = Written(m)
    <3>1. /\ Rest' /\ past'[CURRENT] = {Absent} /\ Marked' /\ Named(m)' /\ Flushed(m)'
          /\ \/ job'.todo = CopyManifest
             \/ job'.todo = FlushCopy /\ dir'[ManifestFile(1)] = Written(m)
             \/ job'.todo = SyncCopy /\ dir'[ManifestFile(1)] = Selected(m)
      BY <1>5, <2>3, CopySettles
    <3> QED
      BY <1>3, <3>1 DEF Copying, Manifest, CURRENT, Absent, NoManifest, ManifestFile, Written,
         Selected
  <2>4. CASE /\ job.todo = SyncCopy /\ Marked /\ Named(m) /\ Flushed(m)
             /\ dir[ManifestFile(1)] = Selected(m)
    BY <1>2, <1>3, <1>5, <2>4, CopySelects DEF Copying, Manifest
  <2>5. WriteCopyMarker # SyncCopyMarker
    BY CopyChain DEF Goes
  <2> QED
    BY <1>5, <2>1, <2>2, <2>3, <2>4, <2>5 DEF Copying, Flushed
<1> QED
  BY <1>4, <1>5 DEF Copying

(* The page file of the store is one of the directory's while a job runs.  *)
LEMMA JobWorks ==
  ASSUME PublicationInv, scenario' = scenario, JobDirectory \/ JobPages
  PROVE  Working(job.manifest) /\ Recent(job.manifest) /\ job # NoJob /\ JobInv
<1>1. /\ Rest /\ JobInv /\ TypeOK /\ NewInv /\ StoreInv
  BY DEF PublicationInv, Rest
<1>2. JobMoves /\ job # NoJob
  BY <1>1, JobMovesOn, JobGoes
<1>3. InRange(job.manifest) /\ Recent(job.manifest)
  BY <1>1, <1>2 DEF JobInv
<1>4. manifest.page_file_id \in 1 .. MaxFile
  <2>1. CASE mode \in {"recovering", "serving"}
    BY <1>1, <2>1 DEF StoreInv, InRange
  <2>2. CASE mode = "creating"
    <3>1. manifest.page_file_id = job.manifest.page_file_id
      BY <1>1, <1>2, <2>2 DEF JobInv, Creating, Copying, Attaching, Publishing, Adopting
    <3> QED
      BY <1>3, <3>1 DEF InRange
  <2> QED
    BY <1>1, <1>2, <2>1, <2>2 DEF TypeOK, JobInv, Creating, Copying, Attaching, Publishing, Adopting
<1> QED
  BY <1>1, <1>2, <1>3, <1>4 DEF Working

(* Every step of a job but its last ones keeps the invariant.              *)
LEMMA JobKeeps ==
  ASSUME PublicationInv, scenario' = scenario, JobDirectory \/ JobPages
  PROVE  PublicationInv'
<1> PICK m : m = job.manifest
  OBVIOUS
<1>1. Working(m) /\ Recent(m) /\ job # NoJob /\ JobInv
  BY JobWorks
<1>2. TypeOK /\ NewInv /\ JobMoves /\ scenario' = scenario /\ InRange(m)
  BY <1>1, JobMovesOn DEF Working, Rest
<1>3. /\ job'.manifest = m /\ acked' = acked /\ InRange(m)' /\ poisoned' = poisoned
  BY <1>2, JobGoes, Rigid DEF JobMoves, store
<1>4. ~poisoned' /\ InRange(m)' /\ Recent(m)'
  BY <1>1, <1>2, <1>3 DEF JobMoves, Recent
<1>5. /\ Rest'
      /\ \/ job'.kind = "create" /\ Creating(m)'
         \/ job'.kind = "copy" /\ Copying(m)'
         \/ job'.kind = "attach" /\ Attaching(m)'
         \/ job'.kind = "publish" /\ Publishing(m)'
         \/ job'.kind = "adopt" /\ Adopting(m)'
  <2>1. CASE job.kind = "create" /\ Creating(m)
    BY <1>1, <2>1, StepCreate
  <2>2. CASE job.kind = "copy" /\ Copying(m)
    BY <1>1, <2>2, StepCopy
  <2>3. CASE job.kind = "attach" /\ Attaching(m)
    BY <1>1, <2>3, StepAttach
  <2>4. CASE job.kind = "publish" /\ Publishing(m)
    BY <1>1, <2>4, StepPublish
  <2>5. CASE job.kind = "adopt" /\ Adopting(m)
    BY <1>1, <2>5, StepAdopt
  <2> QED
    BY <1>1, <2>1, <2>2, <2>3, <2>4, <2>5 DEF JobInv
<1>6. JobInv'
  BY <1>3, <1>4, <1>5, Zenon DEF JobInv
<1> QED
  BY <1>5, <1>6 DEF Rest, PublicationInv

-----------------------------------------------------------------------------
(* The end of a job.                                                       *)

(* Three steps follow each other.                                          *)
LEMMA ThreeSteps ==
  ASSUME NEW s, NEW t, NEW u, NEW v, NEW x, NEW y, NEW z, Goes(s, x, t), Goes(t, y, u), Goes(u, z, v)
  PROVE  Len(s) > 2
BY DEF Goes

(* A copy has many steps before its selection.                             *)
LEMMA CopyIsLong ==
  /\ Len(SyncCopy) > 2 /\ Len(FlushCopy) > 2 /\ Len(CopyManifest) > 2 /\ Len(FlushCopied) > 2
  /\ Len(CopyPages) > 2 /\ Len(SyncCopyMarker) > 2 /\ Len(WriteCopyMarker) > 2
<1>1. /\ Goes(WriteCurrent(<<>>), "write_current", FlushCurrent(<<>>))
      /\ Goes(FlushCurrent(<<>>), "flush_current", RenameCurrent(<<>>))
  BY EndSteps, PublishSteps
<1>2. Len(SyncCopy) > 2 /\ Len(FlushCopy) > 2 /\ Len(CopyManifest) > 2
  BY <1>1, CopyChain, ThreeSteps
<1>3. Len(FlushCopied) > 2 /\ Len(CopyPages) > 2
  BY CopyChain, ThreeSteps
<1>4. Len(SyncCopyMarker) > 2 /\ Len(WriteCopyMarker) > 2
  BY CopyChain, ThreeSteps
<1> QED
  BY <1>2, <1>3, <1>4

(* So has an attachment before it removes its marker.                      *)
LEMMA AttachIsLong ==
  ASSUME NEW r \in BOOLEAN, NEW z, z = WriteRole(r)
  PROVE  /\ Len(z) > 2 /\ Len(SyncSelection(z)) > 2 /\ Len(SyncRole) > 2
         /\ Len(WriteMarker(z)) > 2 /\ Len(SyncMarker(z)) > 2
<1>1. /\ Goes(Unmarked, "sync_directory", <<>>) /\ Goes(RemoveMarker, "remove_marker", Unmarked)
      /\ Goes(SyncRole, "sync_directory", RemoveMarker) /\ Goes(z, RoleStep(r), SyncRole)
  BY EndSteps
<1>2. Len(z) > 2 /\ Len(SyncRole) > 2
  BY <1>1, ThreeSteps
<1>3. z \in Seq(Steps)
  BY <1>1 DEF Goes
<1>4. /\ Goes(SyncSelection(z), "sync_directory", z)
      /\ Goes(SyncFiles(z), "sync_directory", WriteManifest(z))
      /\ Goes(FlushBoth(z), "sync_pages", SyncFiles(z))
      /\ Goes(SyncMarker(z), "sync_directory", FlushBoth(z))
      /\ Goes(WriteMarker(z), "write_marker", SyncMarker(z))
  BY <1>3, PublishSteps
<1>5. Len(SyncSelection(z)) > 2
  BY <1>1, <1>4, ThreeSteps
<1>6. Len(SyncMarker(z)) > 2 /\ Len(WriteMarker(z)) > 2
  BY <1>4, ThreeSteps
<1> QED
  BY <1>2, <1>5, <1>6

(* What is left when publish_files has two steps or fewer to do.           *)
LEMMA RunningEnds ==
  ASSUME NEW m, Running(m), End \in Seq(Steps), ~(Len(job.todo) > 2)
  PROVE  \/ job.todo = SyncSelection(End) /\ Chosen(m)
         \/ Len(job.todo) # 1 /\ Head(job.todo) = "rename_current"
<1> PICK z \in Seq(Steps) : z = End
  OBVIOUS
<1>1. /\ Goes(SyncSelection(z), "sync_directory", z)
      /\ Goes(RenameCurrent(z), "rename_current", SyncSelection(z))
      /\ Goes(FlushCurrent(z), "flush_current", RenameCurrent(z))
      /\ Goes(WriteCurrent(z), "write_current", FlushCurrent(z))
      /\ Goes(SyncManifest(z), "sync_directory", WriteCurrent(z))
      /\ Goes(RenameManifest(z), "rename_manifest", SyncManifest(z))
  BY PublishSteps
<1>2. /\ Goes(FlushManifest(z), "flush_manifest", RenameManifest(z))
      /\ Goes(WriteManifest(z), "write_manifest", FlushManifest(z))
      /\ Goes(SyncFiles(z), "sync_directory", WriteManifest(z))
      /\ Goes(FlushBoth(z), "sync_pages", SyncFiles(z))
      /\ Goes(FlushOnly(z), "sync_pages", WriteManifest(z))
      /\ Goes(FlushNew(z), "sync_new_pages", FlushBoth(z))
  BY PublishSteps
<1>3. /\ Len(FlushCurrent(z)) > 2 /\ Len(WriteCurrent(z)) > 2 /\ Len(SyncManifest(z)) > 2
      /\ Len(RenameManifest(z)) > 2
  BY <1>1, ThreeSteps
<1>4. /\ Len(FlushManifest(z)) > 2 /\ Len(WriteManifest(z)) > 2
  BY <1>1, <1>2, ThreeSteps
<1>5. /\ Len(SyncFiles(z)) > 2 /\ Len(FlushBoth(z)) > 2
      /\ Len(FlushOnly(z)) > 2 /\ Len(FlushNew(z)) > 2
  BY <1>2, ThreeSteps
<1>6. job.todo = SyncSelection(z) \/ job.todo = RenameCurrent(z)
  BY <1>3, <1>4, <1>5, Zenon DEF Running, Preparing, Writing, Choosing, Chosen
<1>7. Head(RenameCurrent(z)) = "rename_current" /\ Len(RenameCurrent(z)) # 1
  BY <1>1 DEF Goes
<1> QED
  BY <1>6, <1>7, RunningLast

(* The step that ends a publication or an attachment flushes the selection *)
(* of its manifest.                                                        *)
Returning ==
  /\ job.kind # "none" /\ ~poisoned
  /\ Selecting \/ (Len(job.todo) = 1 /\ job.todo # <<"reclaim">>)
  /\ DirectoryStep(Head(job.todo))

(* The last step of a job is a flush of the directory.                     *)
LEMMA LastStep ==
  ASSUME TypeOK, EntriesInv, JobInv, Returning, NEW m, m = job.manifest
  PROVE  /\ Complete(m) /\ dir[CURRENT] = Selected(m)
         /\ Goes(job.todo, "sync_directory", IF job.kind = "adopt" THEN Reclaim ELSE <<>>)
<1>1. job # NoJob
  BY DEF Returning, NoJob
<1>2. /\ Len(job.todo) = 1 \/ Head(job.todo) = "sync_directory"
      /\ job.todo # Reclaim /\ ~(Len(job.todo) > 2)
  <2>1. /\ ~(Len(<<"sync_directory">>) > 2) /\ Head(<<"sync_directory">>) = "sync_directory"
        /\ ~(Len(<<"sync_directory", "reclaim">>) > 2)
        /\ Head(<<"sync_directory", "reclaim">>) = "sync_directory"
        /\ Head(Reclaim) # "sync_directory"
    BY DEF Reclaim
  <2>2. CASE Selecting
    BY ONLY <2>1, <2>2, Zenon DEF Selecting
  <2>3. CASE Len(job.todo) = 1 /\ job.todo # <<"reclaim">>
    BY <2>3 DEF Reclaim
  <2> QED
    BY <2>2, <2>3 DEF Returning
<1>3. ASSUME Running(m), End \in Seq(Steps)
      PROVE  job.todo = SyncSelection(End) /\ Chosen(m)
  BY <1>2, <1>3, RunningEnds
<1>4. Chosen(m) => Complete(m) /\ dir[CURRENT] = Selected(m)
  BY DEF Chosen
<1>5. CASE job.kind \in {"create", "publish"} /\ Running(m)
  <2>1. End = <<>> /\ End \in Seq(Steps)
    BY <1>5, EndIs
  <2> QED
    BY <1>3, <1>4, <1>5, <2>1, PublishSteps
<1>6. CASE job.kind = "copy" /\ Copying(m)
  <2>1. End = <<>> /\ End \in Seq(Steps)
    BY <1>6, EndIs
  <2>2. Running(m)
    BY <1>2, <1>6, CopyIsLong DEF Copying, Running
  <2> QED
    BY <1>3, <1>4, <1>6, <2>1, <2>2, PublishSteps
<1>7. CASE job.kind = "adopt" /\ Adopting(m)
  <2>1. End = Reclaim /\ End \in Seq(Steps)
    BY <1>7, EndIs
  <2>2. Running(m)
    BY <1>2, <1>7 DEF Adopting
  <2> QED
    BY <1>3, <1>4, <1>7, <2>1, <2>2, PublishSteps
<1>8. CASE job.kind = "attach" /\ Attaching(m)
  <2>1. PICK r \in BOOLEAN : End = WriteRole(r) /\ End \in Seq(Steps)
    BY <1>8, EndIs DEF Attaching
  <2>2. /\ Len(End) > 2 /\ Len(WriteMarker(End)) > 2 /\ Len(SyncMarker(End)) > 2
        /\ Len(SyncSelection(End)) > 2 /\ Len(SyncRole) > 2
    BY <2>1, AttachIsLong
  <2>3. ~Running(m) /\ ~Marking(m)
    BY <1>2, <1>3, <2>1, <2>2 DEF Marking
  <2>4. /\ Head(RemoveMarker) = "remove_marker" /\ Goes(Unmarked, "sync_directory", <<>>)
        /\ Len(RemoveMarker) # 1
    BY EndSteps DEF Goes
  <2>5. Finishing(m) /\ job.todo = Unmarked
    BY <1>2, <1>8, <2>2, <2>3, <2>4 DEF Attaching, Finishing
  <2>6. dir[CURRENT] = Selected(m)
    BY <2>5, NamesHold DEF EntriesInv, Finishing, Single
  <2> QED
    BY <1>8, <2>4, <2>5, <2>6 DEF Finishing
<1> QED
  BY <1>1, <1>5, <1>6, <1>7, <1>8 DEF JobInv, Creating, Publishing

(* The publication returns: its manifest is the selected one.              *)
LEMMA ReturnsKeeps ==
  ASSUME PublicationInv, scenario' = scenario, JobReturns
  PROVE  PublicationInv'
<1> PICK m : m = job.manifest
  OBVIOUS
<1>1. /\ TypeOK /\ EntriesInv /\ SelectInv /\ StoreInv /\ PinInv /\ AttachInv /\ NewInv /\ JobInv
      /\ Directory /\ CURRENT \in Names
  BY KnownDirectory, NamesHold DEF PublicationInv, Single
<1>2. Returning /\ job # NoJob
  BY DEF JobReturns, Returning, NoJob
<1>3. InRange(m) /\ m \in Manifests /\ ~poisoned
  BY <1>1, <1>2 DEF JobInv, InRange
<1>4. /\ Complete(m) /\ dir[CURRENT] = Selected(m)
      /\ Goes(job.todo, "sync_directory", IF job.kind = "adopt" THEN Reclaim ELSE <<>>)
  BY <1>1, <1>2, LastStep
<1>5. SyncDirectory
  <2>1. DirectoryStep("sync_directory")
    BY <1>4 DEF JobReturns, Goes
  <2> QED
    BY <2>1, DirectorySteps
<1>6. /\ manifest' = m /\ acked' = m /\ root' = (IF job.kind = "adopt" THEN m.root ELSE root)
      /\ UNCHANGED <<files, logged, poisoned, pins, roles, failures>>
  BY DEF JobReturns, Adopted
<1>7. /\ job.kind # "adopt" => job' = NoJob
      /\ job.kind = "adopt" => job' = [job EXCEPT !.todo = Reclaim]
  <2>1. Reclaim # <<>>
    BY DEF Reclaim
  <2> QED
    BY <1>4, <2>1 DEF JobReturns, Goes
<1>8. /\ job.kind = "create" => mode' = "serving" /\ mode = "creating" /\ ~Copied
      /\ job.kind = "copy" => mode' = "down" /\ mode = "creating"
      /\ job.kind = "attach" => mode' = mode /\ mode = "recovering"
      /\ job.kind = "publish" => mode' = mode /\ mode \in {"recovering", "serving"}
      /\ job.kind = "adopt" => mode' = mode /\ mode = "serving"
      /\ job.kind \in {"create", "copy", "attach", "publish", "adopt"}
  BY <1>1, <1>2 DEF JobReturns, JobInv, Creating, Copying, Attaching, Publishing, Adopting
<1>9. Calm({}) /\ (\A n \in Names : past'[n] = {dir[n]}) /\ Touches({}) /\ FilesKept
  <2>1. FilesKept
    BY <1>1, <1>6, SameFiles
  <2> QED
    BY <1>1, <1>5, <2>1, SyncTouches, CalmNames
<1>10. past'[CURRENT] = {Selected(m)} /\ dir'[CURRENT] = Selected(m) /\ Complete(m)'
  BY <1>1, <1>3, <1>4, <1>9, CalmKeeps DEF Touches
<1>11. TypeOK'
  <2>1. Names' = Names /\ MaxFile' = MaxFile
    BY Rigid
  <2>2. job' \in [kind : JobKinds, todo : Seq(Steps), manifest : Manifests]
    <3>1. NoJob \in [kind : JobKinds, todo : Seq(Steps), manifest : Manifests]
      BY EntryFacts DEF NoJob, JobKinds
    <3>2. job \in [kind : JobKinds, todo : Seq(Steps), manifest : Manifests]
      BY <1>1 DEF TypeOK
    <3>3. Reclaim \in Seq(Steps)
      BY EndSteps DEF Goes
    <3> QED
      BY <1>7, <3>1, <3>2, <3>3
  <2>3. mode' \in {"new", "creating", "down", "recovering", "serving"}
    BY <1>8
  <2>4. root' \in Nat
    BY <1>1, <1>3, <1>6 DEF TypeOK, Manifests
  <2>5. dir' \in [Names -> Entries] /\ past' \in [Names -> SUBSET Entries]
    BY <1>9 DEF Touches
  <2>6. pages' \in [1 .. MaxFile -> Seq(Nat)] /\ synced' \in [1 .. MaxFile -> Nat]
    BY <1>1, <1>6 DEF TypeOK, files
  <2>7. /\ scenario' \in Scenarios /\ logged' \in Nat /\ poisoned' \in BOOLEAN
        /\ pins' \in SUBSET Manifests /\ roles' \in Seq(BOOLEAN)
    BY <1>1, <1>6 DEF TypeOK
  <2> QED
    BY <1>3, <1>6, <2>1, <2>2, <2>3, <2>4, <2>5, <2>6, <2>7 DEF TypeOK, Entries, Manifests
<1>12. EntriesInv'
  BY <1>1, <1>9, KeepEntries DEF FilesKept
<1>13. Recent(m)'
  BY <1>3, <1>6 DEF Recent, Manifests
<1>14. SelectInv'
  <2>1. IsFile(Selected(m)) /\ Selected(m).body = m /\ Within(m, m)
    BY <1>3, EntryFacts DEF IsFile, Within, Manifests
  <2> QED
    BY <1>10, <1>13, <2>1 DEF SelectInv, IsFile, Within, Selected, CURRENT, Absent, NoManifest,
       Manifest
<1>15. PinInv'
  <2>1. pins' \subseteq pins /\ (mode' # "serving" => pins' = {})
    BY <1>1, <1>6, <1>8 DEF PinInv
  <2> QED
    BY <1>1, <1>9, <2>1, KeepPins
<1>16. AttachInv'
  BY <1>1, <1>6, <1>9, KeepAttach
<1>17. StoreInv'
  <2>1. InRange(m)'
    BY <1>3, Rigid
  <2>2. ASSUME mode' \in {"recovering", "serving"}
        PROVE  root' \in 1 .. Len(pages[m.page_file_id])
    <3>1. CASE job.kind = "adopt"
      <4>1. m.page_count <= Len(pages[m.page_file_id]) /\ m.root \in 1 .. m.page_count
        BY <1>4 DEF Complete, Flushed, Contents, CompletePages
      <4>2. m.page_count \in Nat /\ Len(pages[m.page_file_id]) \in Nat
        BY <1>1, <1>3, LenProperties DEF InRange, Manifests, TypeOK
      <4> QED
        BY <1>6, <3>1, <4>1, <4>2
    <3>2. CASE job.kind # "adopt"
      BY <1>1, <1>2, <1>6, <1>8, <2>2, <3>2 DEF JobInv, Creating, Attaching, Publishing, StoreInv
    <3> QED
      BY <3>1, <3>2
  <2> QED
    BY <1>6, <1>10, <2>1, <2>2 DEF StoreInv, files, Selected, CURRENT
<1>18. NewInv'
  BY <1>1, <1>7, <1>8 DEF NewInv, NoJob, TypeOK
<1>19. JobInv'
  <2>1. CASE job.kind # "adopt"
    BY <1>7, <2>1 DEF JobInv, NoJob, NoManifest, Manifest
  <2>2. CASE job.kind = "adopt"
    <3>1. job'.kind = "adopt" /\ job'.manifest = m /\ job'.todo = Reclaim
      BY <1>1, <1>7, <2>2 DEF TypeOK
    <3>2. Adopting(m)'
      BY <1>6, <1>8, <1>10, <2>2, <3>1 DEF Adopting, Reclaim, Selected, CURRENT
    <3>3. ~poisoned' /\ InRange(m)' /\ Recent(m)'
      BY <1>3, <1>6, <1>13, Rigid
    <3> QED
      BY <3>1, <3>2, <3>3, Zenon DEF JobInv
  <2> QED
    BY <2>1, <2>2
<1> QED
  BY <1>11, <1>12, <1>14, <1>15, <1>16, <1>17, <1>18, <1>19 DEF PublicationInv

(* The types after a step.                                                 *)
LEMMA NewTypes ==
  ASSUME TypeOK, scenario' = scenario, NEW S, Touches(S), FilesOK', logged' \in Nat,
         mode' \in {"new", "creating", "down", "recovering", "serving"},
         manifest' \in Manifests, root' \in Nat, poisoned' \in BOOLEAN,
         job' \in [kind : JobKinds, todo : Seq(Steps), manifest : Manifests],
         pins' \in SUBSET Manifests, acked' \in Manifests, roles' \in Seq(BOOLEAN)
  PROVE  TypeOK'
<1>1. Names' = Names /\ MaxFile' = MaxFile
  BY Rigid
<1>2. dir' \in [Names' -> Entries] /\ past' \in [Names' -> SUBSET Entries]
  BY <1>1 DEF Touches
<1>3. pages' \in [1 .. MaxFile' -> Seq(Nat)] /\ synced' \in [1 .. MaxFile' -> Nat]
  BY DEF FilesOK
<1>4. scenario' \in Scenarios
  BY DEF TypeOK
<1> QED
  BY <1>2, <1>3, <1>4 DEF TypeOK, Entries, Manifests, Kinds, JobKinds, Steps

(* Reclamation is the end of a handover.                                   *)
LEMMA ReclaimIs ==
  ASSUME TypeOK, JobInv, job.todo = Reclaim, NEW m, m = job.manifest
  PROVE  /\ job.kind = "adopt" /\ mode = "serving" /\ manifest = m /\ InRange(m) /\ Recent(m)
         /\ past[CURRENT] = {Selected(m)} /\ Complete(m) /\ ~poisoned /\ job # NoJob
<1>1. /\ Head(job.todo) = "reclaim" /\ Len(job.todo) = 1 /\ ~(Len(job.todo) > 2) /\ job # NoJob
  <2>1. Len(<<>>) = 0 /\ Goes(Reclaim, "reclaim", <<>>)
    BY EndSteps
  <2>2. Len(Reclaim) = 1 /\ Head(Reclaim) = "reclaim"
    BY <2>1 DEF Goes
  <2>3. ~(Len(Reclaim) > 2) /\ Reclaim # <<>>
    BY <2>1, <2>2
  <2> QED
    BY <2>2, <2>3 DEF NoJob
<1>2. End \in Seq(Steps) => ~Running(m)
  <2>1. End \in Seq(Steps) => Head(SyncSelection(End)) = "sync_directory"
    BY PublishSteps DEF Goes
  <2> QED
    BY <1>1, <2>1, RunningEnds
<1>3. job.kind \in {"create", "publish", "copy", "adopt"} => End \in Seq(Steps)
  BY EndIs
<1>4. ~(job.kind = "copy" /\ Copying(m))
  BY <1>1, <1>2, <1>3, CopyIsLong DEF Copying, Running
<1>5. ~(job.kind = "attach" /\ Attaching(m))
  <2> SUFFICES ASSUME job.kind = "attach", Attaching(m)
               PROVE  FALSE
    OBVIOUS
  <2>1. PICK r \in BOOLEAN : End = WriteRole(r) /\ End \in Seq(Steps)
    BY EndIs DEF Attaching
  <2>2. /\ Len(End) > 2 /\ Len(WriteMarker(End)) > 2 /\ Len(SyncMarker(End)) > 2
        /\ Len(SyncRole) > 2
    BY <2>1, AttachIsLong
  <2>3. Head(RemoveMarker) = "remove_marker" /\ Head(Unmarked) = "sync_directory"
    BY EndSteps DEF Goes
  <2> QED
    BY <1>1, <1>2, <2>1, <2>2, <2>3 DEF Attaching, Marking, Finishing
<1>6. ~poisoned /\ InRange(m) /\ Recent(m) /\ job.kind = "adopt" /\ Adopting(m)
  BY <1>1, <1>2, <1>3, <1>4, <1>5 DEF JobInv, Creating, Publishing
<1> QED
  BY <1>1, <1>2, <1>3, <1>6 DEF Adopting

(* A file that the selected manifest does not name is deleted.             *)
LEMMA ReclaimsKeeps ==
  ASSUME PublicationInv, scenario' = scenario, JobReclaims
  PROVE  PublicationInv'
<1> PICK m : m = job.manifest
  OBVIOUS
<1>1. /\ TypeOK /\ EntriesInv /\ SelectInv /\ StoreInv /\ PinInv /\ AttachInv /\ NewInv /\ JobInv
      /\ Directory /\ CURRENT \in Names /\ ATTACH_REQUIRED \in Names /\ READ_ONLY \in Names
  BY KnownDirectory, NamesHold DEF PublicationInv, Single
<1>2. job.todo = Reclaim
  BY DEF JobReclaims, Reclaim
<1>3. /\ job.kind = "adopt" /\ mode = "serving" /\ manifest = m /\ InRange(m) /\ Recent(m)
      /\ past[CURRENT] = {Selected(m)} /\ Complete(m) /\ ~poisoned /\ job # NoJob
  BY <1>1, <1>2, ReclaimIs
<1>4. PICK n \in Names : Obsolete(n) /\ PutEntry(n, Absent)
  BY DEF JobReclaims, Unlink
<1>5. /\ UNCHANGED <<files, logged, mode, store, job, pins, acked, roles, failures>>
      /\ job' = job /\ mode' = mode /\ manifest' = manifest /\ root' = root /\ poisoned' = poisoned
      /\ pages' = pages /\ pins' = pins /\ acked' = acked /\ roles' = roles
  BY DEF JobReclaims, store, files
<1>6. pins = {}
  BY <1>4 DEF Obsolete
<1>7. /\ n # PagesFile(m.page_file_id) /\ n # ManifestFile(m.generation) /\ n \notin Single
  BY <1>3, <1>4, NamesDiffer DEF Obsolete
<1>8. Touches({n}) /\ dir'[n] = Absent /\ past'[n] = past[n] \cup {Absent}
  BY <1>1, <1>4, EntryFacts, PutTouches
<1>9. FilesKept
  BY <1>1, <1>5, SameFiles
<1>10. TypeOK'
  BY <1>1, <1>5, <1>8, <1>9, NewTypes DEF FilesKept, TypeOK
<1>11. Complete(m)'
  <2>1. Flushed(m)'
    BY <1>3, <1>9 DEF FilesKept, Complete, InRange
  <2> QED
    BY <1>3, <1>7, <1>8, <2>1, KeepComplete
<1>12. CURRENT \notin {n} /\ ATTACH_REQUIRED \notin {n} /\ READ_ONLY \notin {n}
  BY <1>7 DEF Single
<1>13. past'[CURRENT] = {Selected(m)} /\ dir'[CURRENT] = Selected(m)
  BY <1>1, <1>3, <1>8, <1>12, KeepSingle
<1>14. SelectInv'
  <2>1. \A c \in past[CURRENT] : c.body = m
    BY <1>3, EntryFacts
  <2>2. \A c \in past[CURRENT] : IsFile(c) => Complete(c.body)'
    BY <1>11, <2>1
  <2> QED
    BY <1>1, <1>5, <1>8, <1>12, <2>2, KeepSelect
<1>15. EntriesInv'
  <2>1. /\ past'[ATTACH_REQUIRED] \subseteq past[ATTACH_REQUIRED]
        /\ past'[READ_ONLY] \subseteq past[READ_ONLY]
    BY <1>1, <1>8, <1>12 DEF Touches
  <2>2. \A f \in 1 .. MaxFile : past'[PagesFile(f)] \subseteq {Absent, Mark("pages")}
    <3> TAKE f \in 1 .. MaxFile
    <3>1. past[PagesFile(f)] \subseteq {Absent, Mark("pages")} /\ PagesFile(f) \in Names
      BY <1>1, NamesHold DEF EntriesInv
    <3>2. past'[PagesFile(f)] \subseteq past[PagesFile(f)] \cup {Absent}
      BY <1>8, <3>1 DEF Touches
    <3> QED
      BY <3>1, <3>2
  <2>3. past'[ATTACH_REQUIRED] \subseteq {Absent, Mark("marker")}
        /\ past'[READ_ONLY] \subseteq {Absent, Mark("role")}
    BY <1>1, <2>1 DEF EntriesInv
  <2>4. MaxFile' = MaxFile /\ Names' = Names
    BY Rigid
  <2>5. \A f \in 1 .. MaxFile : synced'[f] <= Len(pages'[f])
    BY <1>9, <2>4 DEF FilesKept, FilesOK
  <2>6. \A k \in Names : dir'[k] \in past'[k]
    BY <1>8 DEF Touches
  <2> QED
    BY <2>2, <2>3, <2>4, <2>5, <2>6 DEF EntriesInv, PagesFile, ATTACH_REQUIRED, READ_ONLY,
       Absent, Mark, NoManifest, Manifest
<1>16. PinInv'
  BY <1>5, <1>6 DEF PinInv
<1>17. AttachInv'
  BY <1>1, <1>5, <1>7, <1>8, KeepAttach DEF Single
<1>18. StoreInv'
  <2>1. dir'[CURRENT] \in past'[CURRENT] /\ dir'[CURRENT] = Selected(manifest)
    BY <1>3, <1>13
  <2>2. UNCHANGED <<scenario, mode, store, pages>> /\ job' # NoJob /\ job'.kind = job.kind
    BY <1>3, <1>5
  <2> QED
    BY ONLY <1>1, <2>1, <2>2, KeepStore
<1>19. NewInv'
  BY <1>1, <1>3, <1>5 DEF NewInv
<1>20. JobInv'
  <2>1. Adopting(m)'
    BY <1>2, <1>3, <1>5, <1>11, <1>13 DEF Adopting, Reclaim, Selected, CURRENT
  <2>2. ~poisoned' /\ InRange(m)' /\ Recent(m)'
    BY <1>3, <1>5, Rigid DEF Recent
  <2>3. job'.kind = "adopt" /\ job'.manifest = m
    BY <1>3, <1>5
  <2> QED
    BY <2>1, <2>2, <2>3, Zenon DEF JobInv
<1> QED
  BY <1>10, <1>14, <1>15, <1>16, <1>17, <1>18, <1>19, <1>20 DEF PublicationInv

(* The job is over, and the store's manifest is the selected one.          *)
LEMMA NoJobLeft ==
  ASSUME job' = NoJob
  PROVE  JobInv' /\ (mode' # "new" => NewInv')
BY DEF JobInv, NewInv, NoJob, NoManifest, Manifest

(* No job is a job of its type.                                            *)
LEMMA NoJobType ==
  NoJob \in [kind : JobKinds, todo : Seq(Steps), manifest : Manifests]
BY EntryFacts DEF NoJob, JobKinds

(* reclaim ends with a flush of the directory.                             *)
LEMMA ReclaimedKeeps ==
  ASSUME PublicationInv, scenario' = scenario, JobReclaimed
  PROVE  PublicationInv'
<1> PICK m : m = job.manifest
  OBVIOUS
<1>1. /\ TypeOK /\ EntriesInv /\ SelectInv /\ StoreInv /\ PinInv /\ AttachInv /\ NewInv /\ JobInv
      /\ Directory /\ CURRENT \in Names
  BY KnownDirectory, NamesHold DEF PublicationInv, Single
<1>2. job.todo = Reclaim
  BY DEF JobReclaimed, Reclaim
<1>3. mode = "serving" /\ manifest = m /\ past[CURRENT] = {Selected(m)} /\ InRange(m)
  BY <1>1, <1>2, ReclaimIs
<1>4. /\ job' = NoJob /\ mode' = mode /\ manifest' = manifest /\ root' = root /\ poisoned' = poisoned
      /\ pages' = pages /\ pins' = pins /\ acked' = acked /\ roles' = roles /\ logged' = logged
      /\ UNCHANGED files
  BY DEF JobReclaimed, store, files
<1>5. Touches({}) /\ FilesKept
  BY <1>1, <1>4, SyncTouches, SameFiles DEF JobReclaimed
<1>6. TypeOK'
  BY <1>1, <1>4, <1>5, NewTypes, NoJobType DEF FilesKept, TypeOK
<1>7. EntriesInv' /\ SelectInv' /\ PinInv' /\ AttachInv'
  <2>1. pins' \subseteq pins /\ (mode' # "serving" => pins' = {})
    BY <1>3, <1>4
  <2> QED
    BY <1>1, <1>4, <1>5, <2>1, Undisturbed
<1>8. past'[CURRENT] = {Selected(m)} /\ dir'[CURRENT] = Selected(m)
  BY <1>1, <1>3, <1>5, KeepSingle
<1>9. StoreInv'
  <2>1. InRange(m)' /\ root' \in 1 .. Len(pages'[manifest'.page_file_id])
    BY <1>1, <1>3, <1>4, Rigid DEF StoreInv
  <2> QED
    BY <1>3, <1>4, <1>8, <2>1 DEF StoreInv, Selected, CURRENT
<1>10. JobInv' /\ NewInv'
  BY <1>3, <1>4, NoJobLeft
<1> QED
  BY <1>6, <1>7, <1>9, <1>10 DEF PublicationInv

-----------------------------------------------------------------------------
(* The other operations.                                                   *)

(* Nothing in the directory or in the files changes.                       *)
LEMMA SameState ==
  ASSUME PublicationInv, UNCHANGED <<scenario, directory, files, acked, roles>>,
         pins' \subseteq pins, mode' # "serving" => pins' = {}
  PROVE  /\ EntriesInv' /\ SelectInv' /\ PinInv' /\ AttachInv' /\ Touches({}) /\ FilesKept
         /\ pages' = pages /\ synced' = synced /\ dir' = dir /\ past' = past
<1>1. TypeOK /\ EntriesInv /\ SelectInv /\ PinInv /\ AttachInv /\ Directory
  BY KnownDirectory DEF PublicationInv
<1>2. Touches({}) /\ FilesKept
  BY <1>1, SameDirectory, SameFiles
<1>3. EntriesInv' /\ SelectInv' /\ PinInv' /\ AttachInv'
  BY <1>1, <1>2, Undisturbed
<1> QED
  BY <1>2, <1>3 DEF directory, files

(* A process stops and leaves everything as it is.                         *)
LEMMA StoppedKeeps ==
  ASSUME PublicationInv, UNCHANGED <<scenario, directory, files, logged, acked, roles>>, Stopped
  PROVE  PublicationInv'
<1>1. /\ mode' = "down" /\ manifest' = NoManifest /\ root' = 0 /\ poisoned' = FALSE
      /\ job' = NoJob /\ pins' = {}
  BY DEF Stopped
<1>2. EntriesInv' /\ SelectInv' /\ PinInv' /\ AttachInv' /\ Touches({}) /\ FilesKept
  BY <1>1, SameState
<1>3. TypeOK'
  <2>1. /\ TypeOK /\ logged' \in Nat /\ acked' \in Manifests /\ roles' \in Seq(BOOLEAN)
    BY DEF PublicationInv, TypeOK
  <2> QED
    BY <1>1, <1>2, <2>1, NewTypes, NoJobType, EntryFacts DEF FilesKept
<1>4. StoreInv' /\ JobInv' /\ NewInv'
  BY <1>1, NoJobLeft DEF StoreInv
<1> QED
  BY <1>2, <1>3, <1>4 DEF PublicationInv

(* A store that no attachment is at work on has its manifest selected.     *)
LEMMA Serving ==
  ASSUME PublicationInv, mode \in {"recovering", "serving"}, job.kind # "attach" \/ mode = "serving"
  PROVE  /\ InRange(manifest) /\ root \in 1 .. Len(pages[manifest.page_file_id])
         /\ Selected(manifest) \in past[CURRENT] /\ Complete(manifest) /\ Recent(manifest)
         /\ Named(manifest) /\ Contents(manifest) /\ job.kind # "attach"
<1>1. TypeOK /\ EntriesInv /\ SelectInv /\ StoreInv /\ JobInv
  BY DEF PublicationInv
<1>2. job.kind # "attach"
  BY <1>1 DEF JobInv, Attaching, NoJob
<1>3. /\ InRange(manifest) /\ root \in 1 .. Len(pages[manifest.page_file_id])
      /\ Selected(manifest) \in past[CURRENT]
  BY <1>1, <1>2 DEF StoreInv
<1>4. Complete(manifest) /\ Recent(manifest)
  BY <1>1, <1>3, ChoiceIs, EntryFacts DEF IsFile
<1>5. Named(manifest) /\ Contents(manifest)
  BY <1>1, <1>3, <1>4, NamesHold DEF Complete, Settled, Named, Flushed, EntriesInv, InRange
<1> QED
  BY <1>2, <1>3, <1>4, <1>5

(* A step reports an error.                                                *)
LEMMA FailKeeps ==
  ASSUME PublicationInv, scenario' = scenario, Fail
  PROVE  PublicationInv'
<1>1. CASE mode = "serving" \/ job.kind = "publish"
  <2>1. /\ poisoned' = TRUE /\ job' = NoJob /\ mode' = mode /\ manifest' = manifest /\ root' = root
        /\ pins' = pins /\ UNCHANGED <<directory, files, acked, roles>> /\ logged' = logged
        /\ acked' = acked /\ roles' = roles
    BY <1>1 DEF Fail
  <2>2. TypeOK /\ StoreInv /\ PinInv /\ NewInv /\ JobInv /\ job # NoJob
    BY DEF PublicationInv, Fail
  <2>3. mode \in {"recovering", "serving"}
    BY <1>1, <2>2 DEF JobInv, Publishing
  <2>4. InRange(manifest) /\ root \in 1 .. Len(pages[manifest.page_file_id])
        /\ Selected(manifest) \in past[CURRENT]
    BY <1>1, <2>3, Serving
  <2>5. /\ EntriesInv' /\ SelectInv' /\ PinInv' /\ AttachInv' /\ Touches({}) /\ FilesKept
        /\ pages' = pages /\ past' = past
    <3>1. pins' \subseteq pins /\ (mode' # "serving" => pins' = {})
      BY <2>1, <2>2 DEF PinInv
    <3> QED
      BY <2>1, <3>1, SameState
  <2>6. TypeOK'
    BY <2>1, <2>2, <2>5, NewTypes, NoJobType DEF FilesKept, TypeOK
  <2>7. StoreInv'
    <3>1. InRange(manifest)'
      BY <2>1, <2>4, Rigid
    <3> QED
      BY <2>1, <2>4, <2>5, <3>1 DEF StoreInv, Selected, CURRENT
  <2>8. JobInv' /\ NewInv'
    BY <2>1, <2>3, NoJobLeft
  <2> QED
    BY <2>5, <2>6, <2>7, <2>8 DEF PublicationInv
<1>2. CASE ~(mode = "serving" \/ job.kind = "publish")
  BY <1>2, StoppedKeeps DEF Fail
<1> QED
  BY <1>1, <1>2

(* A store without a job changes neither its manifest nor its files.       *)
LEMMA QuietKeeps ==
  ASSUME PublicationInv, UNCHANGED <<scenario, directory, files, store, job, pins, acked, roles>>,
         logged' \in Nat, job = NoJob,
         mode' = mode \/ (mode = "recovering" /\ mode' = "serving"), mode # "new"
  PROVE  PublicationInv'
<1>1. TypeOK /\ StoreInv /\ PinInv /\ NewInv
  BY DEF PublicationInv
<1>2. /\ EntriesInv' /\ SelectInv' /\ PinInv' /\ AttachInv' /\ Touches({}) /\ FilesKept
      /\ pages' = pages /\ past' = past /\ dir' = dir
  <2>1. pins' \subseteq pins /\ (mode' # "serving" => pins' = {})
    BY <1>1 DEF PinInv
  <2> QED
    BY <2>1, SameState
<1>3. TypeOK'
  <2>1. mode' \in {"new", "creating", "down", "recovering", "serving"}
    BY <1>1 DEF TypeOK
  <2>2. /\ manifest' \in Manifests /\ root' \in Nat /\ poisoned' \in BOOLEAN
        /\ job' \in [kind : JobKinds, todo : Seq(Steps), manifest : Manifests]
        /\ pins' \in SUBSET Manifests /\ acked' \in Manifests /\ roles' \in Seq(BOOLEAN)
    BY <1>1 DEF TypeOK, store
  <2> QED
    BY <1>1, <1>2, <2>1, <2>2, NewTypes DEF FilesKept
<1>4. StoreInv'
  <2>1. mode' \in {"recovering", "serving"} => mode \in {"recovering", "serving"}
    OBVIOUS
  <2>2. \A m : InRange(m)' = InRange(m)
    BY Rigid
  <2> QED
    BY <1>1, <1>2, <2>1, <2>2 DEF StoreInv, store, Selected, CURRENT, NoJob, NoManifest, Manifest
<1>5. JobInv' /\ NewInv'
  BY <1>1, NoJobLeft
<1> QED
  BY <1>2, <1>3, <1>4, <1>5 DEF PublicationInv

(* Leases do not matter to a job.                                          *)
LEMMA JobSame ==
  ASSUME JobInv, UNCHANGED <<scenario, directory, files, logged, mode, store, job, acked, roles>>
  PROVE  JobInv'
<1>1. /\ dir' = dir /\ past' = past /\ pages' = pages /\ synced' = synced /\ logged' = logged
      /\ mode' = mode /\ manifest' = manifest /\ root' = root /\ poisoned' = poisoned
      /\ job' = job /\ acked' = acked /\ roles' = roles
  BY DEF directory, files, store
<1>2. End' = End /\ Copied' = Copied /\ \A m : InRange(m)' = InRange(m)
  BY <1>1, Rigid DEF End, Reclaim, WriteRole, RoleStep, SyncRole, RemoveMarker, Unmarked
<1>3. \A m : /\ (Before(m) => Before(m)') /\ (Contents(m) => Contents(m)')
             /\ (Named(m) => Named(m)') /\ (Settled(m) => Settled(m)')
  BY <1>1 DEF Before, Contents, Named, Settled
<1>4. \A m : Flushed(m) => Flushed(m)'
  BY <1>1, <1>3 DEF Flushed
<1>5. \A m : Complete(m) => Complete(m)'
  BY <1>1, <1>2, <1>3, <1>4 DEF Complete
<1>6. \A m : Preparing(m) => Preparing(m)'
  BY <1>1, <1>2, <1>3, <1>4 DEF Preparing
<1>7. \A m : Writing(m) => Writing(m)'
  BY <1>1, <1>2, <1>3, <1>4 DEF Writing
<1>8. \A m : (Choosing(m) => Choosing(m)') /\ (Chosen(m) => Chosen(m)')
  BY <1>1, <1>2, <1>3, <1>5 DEF Choosing, Chosen
<1>9. \A m : Running(m) => Running(m)'
  BY <1>6, <1>7, <1>8 DEF Running
<1>10. Marked => Marked'
  BY <1>1 DEF Marked
<1>11. \A m : (Marking(m) => Marking(m)') /\ (Finishing(m) => Finishing(m)')
  BY <1>1, <1>2, <1>3, <1>5, <1>10 DEF Marking, Finishing
<1>12. \A m : Attaching(m) => Attaching(m)'
  BY <1>1, <1>2, <1>9, <1>10, <1>11 DEF Attaching
<1>13. \A m : Copying(m) => Copying(m)'
  BY <1>1, <1>2, <1>3, <1>4, <1>8, <1>10 DEF Copying
<1>14. \A m : /\ (Creating(m) => Creating(m)') /\ (Publishing(m) => Publishing(m)')
              /\ (Adopting(m) => Adopting(m)')
  BY <1>1, <1>2, <1>5, <1>9 DEF Creating, Publishing, Adopting
<1>15. \A m : Recent(m) => Recent(m)'
  BY <1>1 DEF Recent
<1> QED
  BY <1>1, <1>2, <1>12, <1>13, <1>14, <1>15 DEF JobInv

(* A view or a backup image takes or drops its share of the lease.         *)
LEMMA PinsKeep ==
  ASSUME PublicationInv,
         UNCHANGED <<scenario, directory, files, logged, mode, store, job, acked, roles>>,
         pins' \subseteq pins \/ (mode = "serving" /\ pins' = pins \cup {manifest})
  PROVE  PublicationInv'
<1>1. TypeOK /\ StoreInv /\ PinInv /\ NewInv /\ JobInv /\ EntriesInv /\ SelectInv /\ AttachInv
  BY DEF PublicationInv
<1>2. Touches({}) /\ FilesKept
  BY <1>1, KnownDirectory, SameDirectory, SameFiles
<1>3. /\ dir' = dir /\ past' = past /\ pages' = pages /\ synced' = synced
      /\ mode' = mode /\ manifest' = manifest /\ root' = root /\ poisoned' = poisoned
      /\ job' = job /\ acked' = acked /\ roles' = roles /\ logged' = logged
  BY DEF directory, files, store
<1>4. PinInv'
  <2>1. \A m \in pins' : m.page_file_id \in 1 .. MaxFile /\ Named(m) /\ Contents(m)
    BY <1>1, Serving DEF PinInv, InRange
  <2>2. mode' # "serving" => pins' = {}
    BY <1>1, <1>3 DEF PinInv
  <2> QED
    BY <1>3, <2>1, <2>2, Rigid DEF PinInv, Named, Contents
<1>5. EntriesInv' /\ AttachInv' /\ SelectInv'
  <2>1. EntriesInv'
    BY <1>1, <1>2, KeepEntries DEF FilesKept
  <2>2. AttachInv'
    BY <1>1, <1>2, KeepAttach
  <2>3. \A c \in past[CURRENT] : IsFile(c) => Complete(c.body)'
    <3> TAKE c \in past[CURRENT]
    <3> HAVE IsFile(c)
    <3>1. Complete(c.body)
      BY <1>1, ChoiceIs
    <3>2. Flushed(c.body)'
      BY <1>2, <3>1 DEF Complete, FilesKept, InRange
    <3> QED
      BY <1>2, <3>1, <3>2, KeepComplete
  <2> QED
    BY <1>1, <1>2, <2>1, <2>2, <2>3, KeepSelect
<1>6. TypeOK'
  <2>1. pins' \in SUBSET Manifests
    BY <1>1 DEF TypeOK
  <2> QED
    BY <1>1, <1>2, <1>3, <2>1, NewTypes DEF FilesKept, TypeOK
<1>7. StoreInv'
  BY <1>1, <1>3, Rigid DEF StoreInv, Selected, CURRENT, NoJob, NoManifest, Manifest
<1>8. NewInv'
  BY <1>1, <1>3 DEF NewInv, CURRENT, NoJob, Absent, NoManifest, Manifest
<1>9. JobInv'
  BY <1>1, JobSame
<1> QED
  BY <1>4, <1>5, <1>6, <1>7, <1>8, <1>9 DEF PublicationInv

(* store::create writes the first pages.                                   *)
LEMMA CreateKeeps ==
  ASSUME PublicationInv, scenario' = scenario, Create
  PROVE  PublicationInv'
<1> PICK m : m = Manifest(1, 1, 1, 0, 1, 0)
  OBVIOUS
<1>1. /\ TypeOK /\ EntriesInv /\ SelectInv /\ PinInv /\ AttachInv /\ NewInv
  BY DEF PublicationInv
<1>2. /\ mode = "new" /\ ~Copied /\ PutEntry(PagesFile(1), Mark("pages"))
      /\ pages' = [pages EXCEPT ![1] = <<0>>] /\ manifest' = m /\ root' = 1 /\ mode' = "creating"
      /\ job' = [kind |-> "create", todo |-> FlushBoth(<<>>), manifest |-> m]
      /\ synced' = synced /\ logged' = logged /\ poisoned' = poisoned /\ pins' = pins
      /\ acked' = acked /\ roles' = roles
  BY Plans DEF Create, Start
<1>3. /\ m \in Manifests /\ m.generation = 1 /\ m.page_file_id = 1 /\ m.page_count = 1
      /\ m.checkpoint_sequence = 0 /\ m.root = 1
  BY CopyManifestFacts
<1>4. InRange(m) /\ 1 \in 1 .. MaxFile /\ InRange(m)'
  <2>1. MaxGeneration \in Nat \ {0} /\ MaxFile \in Nat \ {0}
    BY <1>1, Bounds DEF TypeOK
  <2> QED
    BY <1>3, <2>1, Rigid DEF InRange
<1>5. past[CURRENT] = {Absent} /\ synced[1] = 0 /\ acked = NoManifest /\ pins = {} /\ ~poisoned
  BY <1>1, <1>2 DEF NewInv, PinInv
<1>6. /\ EntriesInv' /\ FilesOK' /\ Touches({PagesFile(1)}) /\ past'[CURRENT] = {Absent}
      /\ pages'[1] = <<0>> /\ dir'[PagesFile(1)] = Mark("pages")
  BY <1>1, <1>2, <1>4, <1>5, FirstPages
<1>7. job'.kind = "create" /\ job'.todo = FlushBoth(<<>>) /\ job'.manifest = m /\ End' = <<>>
  BY <1>2 DEF End
<1>8. TypeOK'
  <2>1. job' \in [kind : JobKinds, todo : Seq(Steps), manifest : Manifests]
    <3>1. FlushBoth(<<>>) \in Seq(Steps)
      BY EndSteps, PublishSteps DEF Goes
    <3> QED
      BY <1>2, <1>3, <3>1 DEF JobKinds
  <2> QED
    BY <1>1, <1>2, <1>3, <1>6, <2>1, NewTypes DEF TypeOK
<1>9. SelectInv'
  BY <1>2, <1>5, <1>6, EntryFacts DEF SelectInv, CURRENT, Absent, NoManifest, Manifest
<1>10. PinInv' /\ StoreInv' /\ AttachInv'
  BY <1>2, <1>5, Rigid DEF PinInv, StoreInv, AttachInv
<1>11. NewInv'
  BY <1>2 DEF NewInv
<1>12. JobInv'
  <2>1. Contents(m)' /\ root' \in 1 .. Len(pages'[m.page_file_id])
    <3>1. Len(pages'[1]) = 1 /\ pages'[1][1] = 0
      BY <1>6
    <3>2. 1 \in 1 .. Len(pages'[1])
      BY <3>1
    <3> QED
      BY <1>2, <1>3, <3>1, <3>2 DEF Contents, CompletePages
  <2>2. Named(m)'
    BY <1>3, <1>6 DEF Named, PagesFile, Mark, NoManifest, Manifest
  <2>3. Before(m)'
    BY <1>2, <1>6, <1>7 DEF Before, IsFile, CURRENT, Absent, NoManifest, Manifest
  <2>4. Running(m)'
    BY <1>2, <1>7, <2>1, <2>2, <2>3 DEF Running, Preparing
  <2>5. Creating(m)'
    BY <1>2, <2>1, <2>4, Rigid DEF Creating
  <2>6. Recent(m)' /\ ~poisoned'
    <3>1. acked'.generation = 0 /\ acked'.checkpoint_sequence = 0
      BY <1>2, <1>5 DEF NoManifest, Manifest
    <3> QED
      BY <1>2, <1>3, <1>5, <3>1 DEF Recent
  <2> QED
    BY <1>4, <1>7, <2>5, <2>6, Zenon DEF JobInv
<1> QED
  BY <1>6, <1>8, <1>9, <1>10, <1>11, <1>12 DEF PublicationInv

(* backup::copy begins.                                                    *)
LEMMA CopyKeeps ==
  ASSUME PublicationInv, scenario' = scenario, Copy
  PROVE  PublicationInv'
<1> PICK m : m = Manifest(1, 1, 1, logged, 1, 0)
  OBVIOUS
<1>1. /\ TypeOK /\ EntriesInv /\ SelectInv /\ PinInv /\ AttachInv /\ NewInv /\ logged \in Nat
  BY DEF PublicationInv, TypeOK
<1>2. /\ mode = "new" /\ Copied /\ manifest' = m /\ root' = 1 /\ mode' = "creating"
      /\ job' = [kind |-> "copy", todo |-> WriteCopyMarker, manifest |-> m]
      /\ UNCHANGED <<scenario, directory, files, acked, roles>> /\ logged' = logged
      /\ poisoned' = poisoned /\ pins' = pins /\ acked' = acked /\ roles' = roles
  BY Plans DEF Copy, Start
<1>3. /\ m \in Manifests /\ m.generation = 1 /\ m.page_file_id = 1 /\ m.checkpoint_sequence = logged
  BY <1>1, CopyManifestFacts
<1>4. InRange(m)'
  <2>1. MaxGeneration \in Nat \ {0} /\ MaxFile \in Nat \ {0}
    BY <1>1, Bounds DEF TypeOK
  <2> QED
    BY <1>3, <2>1, Rigid DEF InRange
<1>5. past[CURRENT] = {Absent} /\ synced[1] = 0 /\ acked = NoManifest /\ pins = {} /\ ~poisoned
  BY <1>1, <1>2 DEF NewInv, PinInv
<1>6. /\ EntriesInv' /\ SelectInv' /\ PinInv' /\ AttachInv' /\ Touches({}) /\ FilesKept
      /\ synced' = synced /\ past' = past
  <2>1. pins' \subseteq pins /\ (mode' # "serving" => pins' = {})
    BY <1>2, <1>5
  <2> QED
    BY <1>2, <2>1, SameState
<1>7. TypeOK'
  <2>1. job' \in [kind : JobKinds, todo : Seq(Steps), manifest : Manifests]
    <3>1. WriteCopyMarker \in Seq(Steps)
      BY CopyChain DEF Goes
    <3> QED
      BY <1>2, <1>3, <3>1 DEF JobKinds
  <2> QED
    BY <1>1, <1>2, <1>3, <1>6, <2>1, NewTypes DEF TypeOK, FilesKept
<1>8. StoreInv' /\ NewInv'
  BY <1>2 DEF StoreInv, NewInv
<1>9. JobInv'
  <2>1. Copying(m)'
    <3>1. job'.todo = WriteCopyMarker /\ past'[CURRENT] = {Absent} /\ synced'[1] = 0
      BY <1>2, <1>5, <1>6
    <3>2. Copied' /\ mode' = "creating" /\ m = Manifest(1, 1, 1, logged', 1, 0) /\ manifest' = m
      BY <1>2, Rigid
    <3> QED
      BY <3>1, <3>2 DEF Copying, CURRENT, Absent, NoManifest, Manifest
  <2>2. Recent(m)' /\ ~poisoned'
    <3>1. acked'.generation = 0 /\ acked'.checkpoint_sequence = 0
      BY <1>2, <1>5 DEF NoManifest, Manifest
    <3> QED
      BY <1>1, <1>2, <1>3, <1>5, <3>1 DEF Recent
  <2>3. job'.kind = "copy" /\ job'.manifest = m
    BY <1>2
  <2> QED
    BY <1>4, <2>1, <2>2, <2>3, Zenon DEF JobInv
<1> QED
  BY <1>6, <1>7, <1>8, <1>9 DEF PublicationInv

(* Nothing is there at first.                                              *)
LEMMA InitHolds ==
  ASSUME Init
  PROVE  PublicationInv
<1>1. /\ scenario \in Scenarios /\ dir = [n \in Names |-> Absent] /\ past = [n \in Names |-> {Absent}]
      /\ pages = [f \in 1 .. MaxFile |-> <<>>] /\ synced = [f \in 1 .. MaxFile |-> 0]
      /\ mode = "new" /\ manifest = NoManifest /\ root = 0 /\ poisoned = FALSE /\ job = NoJob
      /\ pins = {} /\ acked = NoManifest /\ roles = <<>>
  BY DEF Init
<1>2. /\ MaxFile \in Nat \ {0} /\ MaxSequence \in Nat
  BY <1>1, Bounds
<1>3. logged \in Nat
  BY <1>2 DEF Init
<1>4. /\ Single \subseteq Names /\ \A f \in 1 .. MaxFile : PagesFile(f) \in Names
  BY NamesHold
<1>5. TypeOK
  <2>1. dir \in [Names -> Entries] /\ past \in [Names -> SUBSET Entries]
    BY <1>1, EntryFacts
  <2>2. pages \in [1 .. MaxFile -> Seq(Nat)] /\ synced \in [1 .. MaxFile -> Nat]
    BY <1>1
  <2>3. roles \in Seq(BOOLEAN)
    BY <1>1
  <2> QED
    BY <1>1, <1>3, <2>1, <2>2, <2>3, EntryFacts, NoJobType DEF TypeOK
<1>6. \A n \in Names : dir[n] = Absent /\ past[n] = {Absent}
  BY <1>1
<1>7. EntriesInv
  <2>1. \A f \in 1 .. MaxFile : synced[f] = 0 /\ Len(pages[f]) = 0
    BY <1>1
  <2> QED
    BY <1>4, <1>6, <2>1 DEF EntriesInv, Single
<1>8. past[CURRENT] = {Absent}
  BY <1>4, <1>6 DEF Single
<1>9. SelectInv /\ StoreInv /\ PinInv /\ AttachInv
  BY <1>1, <1>8 DEF SelectInv, StoreInv, PinInv, AttachInv, IsFile
<1>10. NewInv /\ JobInv
  <2>1. 1 \in 1 .. MaxFile
    BY <1>2
  <2>2. synced[1] = 0
    BY <1>1, <2>1
  <2> QED
    BY <1>1, <1>8, <2>2 DEF NewInv, JobInv
<1> QED
  BY <1>5, <1>7, <1>9, <1>10 DEF PublicationInv

-----------------------------------------------------------------------------
(* Opening a directory.                                                    *)

(* Min picks the least of a set of naturals.                               *)
LEMMA MinIsLeast ==
  ASSUME NEW T \in SUBSET Nat, T # {}
  PROVE  Min(T) \in T /\ \A y \in T : Min(T) <= y
<1>1. PICK x \in T : \A y \in T : ~(<<y, x>> \in OpToRel(<, Nat))
  BY WFMin, NatLessThanWellFounded
<1>2. \A y \in T : ~(y < x)
  BY <1>1 DEF OpToRel
<1>3. \A y \in T : x <= y
  BY <1>2
<1> QED
  BY <1>3 DEF Min

(* next_generation is beyond the generation it is asked about.             *)
LEMMA NextIs ==
  ASSUME TypeOK, NEW g \in Nat, NEW h, h = NextGeneration(g), h <= MaxGeneration
  PROVE  h \in 1 .. MaxGeneration /\ h > g
<1> DEFINE T == {k \in g + 1 .. MaxGeneration : ~IsFile(dir[ManifestFile(k)])}
<1>1. MaxGeneration \in Nat
  BY Bounds DEF TypeOK
<1>2. ~(MaxGeneration + 1 <= MaxGeneration)
  BY <1>1
<1>3. T # {} /\ h = Min(T)
  BY <1>2 DEF NextGeneration
<1>4. T \in SUBSET Nat
  BY <1>1
<1>5. h \in T
  BY <1>3, <1>4, MinIsLeast
<1> QED
  BY <1>1, <1>5

(* allocate finds a name that is free.                                     *)
LEMMA AllocateIs ==
  ASSUME TypeOK, NEW g \in Nat, NEW h, h = Allocate(g), h <= MaxFile, g >= 1
  PROVE  h \in 1 .. MaxFile /\ ~IsFile(dir[PagesFile(h)])
<1> DEFINE T == {k \in g .. MaxFile : ~IsFile(dir[PagesFile(k)])}
<1>1. MaxFile \in Nat
  BY Bounds DEF TypeOK
<1>2. ~(MaxFile + 1 <= MaxFile)
  BY <1>1
<1>3. T # {} /\ h = Min(T)
  BY <1>2 DEF Allocate
<1>4. T \in SUBSET Nat
  BY <1>1
<1>5. h \in T
  BY <1>3, <1>4, MinIsLeast
<1> QED
  BY <1>1, <1>5

(* A page file is cut to the pages of the selected manifest.               *)
Cut(m) ==
  /\ pages' = [pages EXCEPT ![m.page_file_id] = SubSeq(@, 1, m.page_count)]
  /\ synced' = [synced EXCEPT ![m.page_file_id] = Min({@, m.page_count})]

(* Opening cuts a page file to the pages of its manifest.                  *)
LEMMA CutFiles ==
  ASSUME TypeOK, EntriesInv, scenario' = scenario, NEW m, InRange(m), Flushed(m), Cut(m)
  PROVE  /\ FilesOK' /\ Len(pages'[m.page_file_id]) = m.page_count
         /\ \A c : InRange(c) /\ Flushed(c) /\ Within(c, m) => Flushed(c)'
<1> PICK f : f = m.page_file_id
  OBVIOUS
<1> PICK n : n = m.page_count
  OBVIOUS
<1>1. f \in 1 .. MaxFile /\ n \in Nat
  BY DEF InRange, Manifests
<1>2. /\ pages \in [1 .. MaxFile -> Seq(Nat)] /\ synced \in [1 .. MaxFile -> Nat]
      /\ \A g \in 1 .. MaxFile : synced[g] <= Len(pages[g])
  BY DEF TypeOK, EntriesInv
<1>3. n <= Len(pages[f]) /\ n <= synced[f] /\ pages[f] \in Seq(Nat) /\ synced[f] \in Nat
  BY <1>1, <1>2 DEF Flushed, Contents, CompletePages
<1> PICK t : t = SubSeq(pages[f], 1, n)
  OBVIOUS
<1>4. t \in Seq(Nat) /\ Len(t) = n /\ \A i \in 1 .. n : t[i] = pages[f][i]
  <2> PICK s \in Seq(Nat) : s = pages[f]
    BY <1>3
  <2>1. Len(s) \in Nat /\ n <= Len(s)
    BY <1>3, LenProperties
  <2>2. \A i \in 1 .. n : s[i] \in Nat
    BY <1>1, <2>1, ElementOfSeq
  <2> QED
    BY <1>1, <2>1, <2>2
<1>5. Min({synced[f], n}) = n
  <2>1. {synced[f], n} \in SUBSET Nat /\ {synced[f], n} # {}
    BY <1>1, <1>3
  <2>2. Min({synced[f], n}) \in {synced[f], n} /\ Min({synced[f], n}) <= n
    BY <2>1, MinIsLeast
  <2> QED
    BY <1>1, <1>3, <2>2
<1>6. /\ pages' \in [1 .. MaxFile -> Seq(Nat)] /\ pages'[f] = t
      /\ \A g \in 1 .. MaxFile : g # f => pages'[g] = pages[g]
  BY <1>1, <1>2, <1>4 DEF Cut
<1>7. /\ synced' \in [1 .. MaxFile -> Nat] /\ synced'[f] = n
      /\ \A g \in 1 .. MaxFile : g # f => synced'[g] = synced[g]
  BY <1>1, <1>2, <1>5 DEF Cut
<1>8. FilesOK'
  <2>1. \A g \in 1 .. MaxFile : synced'[g] <= Len(pages'[g])
    <3> TAKE g \in 1 .. MaxFile
    <3>1. CASE g = f
      BY <1>1, <1>4, <1>6, <1>7, <3>1
    <3>2. CASE g # f
      BY <1>2, <1>6, <1>7, <3>2
    <3> QED
      BY <3>1, <3>2
  <2> QED
    BY <1>6, <1>7, <2>1, Rigid DEF FilesOK
<1>9. ASSUME NEW c, InRange(c), Flushed(c), Within(c, m)
      PROVE  Flushed(c)'
  <2>1. c.page_file_id \in 1 .. MaxFile /\ c.page_count \in Nat
    BY <1>9 DEF InRange, Manifests
  <2>2. CASE c.page_file_id # f
    BY <1>6, <1>7, <1>9, <2>1, <2>2 DEF Flushed, Contents, CompletePages
  <2>3. CASE c.page_file_id = f
    <3>1. c.page_count <= n /\ c.root \in 1 .. c.page_count /\ pages[f][c.root] = c.checkpoint_sequence
      BY <1>9, <2>3 DEF Within, Flushed, Contents, CompletePages
    <3>2. c.root \in 1 .. n
      BY <1>1, <2>1, <3>1
    <3>3. t[c.root] = c.checkpoint_sequence
      BY <1>4, <3>1, <3>2
    <3> QED
      BY <1>4, <1>6, <1>7, <2>3, <3>1, <3>3 DEF Flushed, Contents, CompletePages
  <2> QED
    BY <2>2, <2>3
<1> QED
  BY <1>4, <1>6, <1>8, <1>9

(* What is opened, and how little the cut changes.                         *)
LEMMA Opening ==
  ASSUME PublicationInv, scenario' = scenario, mode = "down", NEW attaching, Openable(attaching),
         NEW m, m = dir[CURRENT].body, Cut(m), UNCHANGED <<directory, acked>>, pins' = pins
  PROVE  /\ InRange(m) /\ m \in Manifests /\ dir[CURRENT] = Selected(m) /\ Recent(m)
         /\ FilesOK' /\ EntriesInv' /\ SelectInv' /\ PinInv' /\ Touches({})
         /\ Complete(m)' /\ m.root \in 1 .. Len(pages'[m.page_file_id])
         /\ dir' = dir /\ past' = past /\ CURRENT \in Names /\ job = NoJob
         /\ \A c \in past[CURRENT] : IsFile(c) => Within(c.body, m)
<1>1. TypeOK /\ EntriesInv /\ SelectInv /\ PinInv /\ NewInv /\ Directory /\ CURRENT \in Names
  BY KnownDirectory, NamesHold DEF PublicationInv, Single
<1>2. dir[CURRENT] \in past[CURRENT] /\ IsFile(dir[CURRENT])
  BY <1>1 DEF EntriesInv, Openable
<1>3. dir[CURRENT] = Selected(m) /\ Complete(m) /\ Recent(m)
  BY <1>1, <1>2, ChoiceIs
<1>4. InRange(m) /\ m \in Manifests /\ Flushed(m)
  BY <1>3 DEF Complete, InRange
<1>5. \A c \in past[CURRENT] : IsFile(c) => Within(c.body, m) /\ Complete(c.body)
  BY <1>1, ChoiceIs
<1>6. /\ FilesOK' /\ Len(pages'[m.page_file_id]) = m.page_count
      /\ \A c : InRange(c) /\ Flushed(c) /\ Within(c, m) => Flushed(c)'
  BY <1>1, <1>4, CutFiles
<1>7. Touches({}) /\ dir' = dir /\ past' = past
  BY <1>1, SameDirectory DEF directory
<1>8. \A c : Complete(c) /\ Within(c, m) => Complete(c)'
  <2> TAKE c
  <2> HAVE Complete(c) /\ Within(c, m)
  <2>1. Flushed(c)'
    BY <1>6 DEF Complete
  <2> QED
    BY <1>7, <2>1, KeepComplete
<1>9. EntriesInv'
  BY <1>1, <1>6, <1>7, KeepEntries
<1>10. SelectInv'
  BY <1>1, <1>5, <1>7, <1>8, KeepSelect
<1>11. PinInv'
  BY <1>1 DEF PinInv
<1>12. Complete(m)'
  <2>1. Within(m, m)
    BY <1>4 DEF Within, Manifests
  <2> QED
    BY <1>3, <1>8, <2>1
<1>13. m.root \in 1 .. Len(pages'[m.page_file_id])
  BY <1>4, <1>6 DEF Flushed, Contents, CompletePages
<1>14. job = NoJob
  BY <1>1 DEF NewInv
<1> QED
  BY <1>1, <1>3, <1>4, <1>5, <1>6, <1>7, <1>9, <1>10, <1>11, <1>12, <1>13, <1>14

(* The store is opened at the selected manifest.                           *)
LEMMA OpenKeeps ==
  ASSUME PublicationInv, scenario' = scenario, Open
  PROVE  PublicationInv'
<1> PICK m : m = dir[CURRENT].body
  OBVIOUS
<1>1. /\ mode = "down" /\ Openable(FALSE) /\ Cut(m) /\ UNCHANGED <<directory, acked>> /\ pins' = pins
      /\ manifest' = m /\ root' = m.root /\ poisoned' = FALSE /\ mode' = "recovering"
      /\ logged' = logged /\ job' = job /\ acked' = acked /\ roles' = roles
  BY DEF Open, Cut
<1>2. /\ InRange(m) /\ m \in Manifests /\ dir[CURRENT] = Selected(m)
      /\ FilesOK' /\ EntriesInv' /\ SelectInv' /\ PinInv' /\ Touches({})
      /\ m.root \in 1 .. Len(pages'[m.page_file_id])
      /\ dir' = dir /\ past' = past /\ CURRENT \in Names /\ job = NoJob
  BY <1>1, Opening
<1>3. TypeOK /\ AttachInv /\ EntriesInv
  BY DEF PublicationInv
<1>4. TypeOK'
  <2>1. m.root \in Nat
    BY <1>2 DEF Manifests
  <2> QED
    BY <1>1, <1>2, <1>3, <2>1, NewTypes, NoJobType DEF TypeOK
<1>5. AttachInv'
  BY <1>1, <1>2, <1>3, KeepAttach
<1>6. StoreInv'
  <2>1. InRange(m)' /\ Selected(m) \in past'[CURRENT] /\ dir'[CURRENT] = Selected(m)
    BY <1>2, <1>3, Rigid DEF EntriesInv
  <2> QED
    BY <1>1, <1>2, <2>1 DEF StoreInv, Selected, CURRENT
<1>7. JobInv' /\ NewInv'
  BY <1>1, <1>2, NoJobLeft
<1> QED
  BY <1>2, <1>4, <1>5, <1>6, <1>7 DEF PublicationInv

(* An attachment begins.                                                   *)
LEMMA AttachKeeps ==
  ASSUME PublicationInv, scenario' = scenario, NEW r \in BOOLEAN, Attach(r)
  PROVE  PublicationInv'
<1> PICK m : m = dir[CURRENT].body
  OBVIOUS
<1> PICK next : next = [m EXCEPT !.generation = NextGeneration(m.generation),
                                 !.namespace = Len(roles) + 1]
  OBVIOUS
<1>1. /\ mode = "down" /\ Copied /\ Openable(TRUE) /\ Cut(m) /\ UNCHANGED <<directory, acked>>
      /\ pins' = pins /\ next.generation <= MaxGeneration
      /\ manifest' = m /\ root' = m.root /\ poisoned' = FALSE /\ mode' = "recovering"
      /\ logged' = logged /\ acked' = acked /\ roles' = Append(roles, r)
      /\ job' = [kind |-> "attach", todo |-> WriteMarker(WriteRole(r)), manifest |-> next]
  BY Plans DEF Attach, Cut, Start
<1>2. /\ InRange(m) /\ m \in Manifests /\ dir[CURRENT] = Selected(m) /\ Recent(m)
      /\ FilesOK' /\ EntriesInv' /\ SelectInv' /\ PinInv' /\ Touches({})
      /\ Complete(m)' /\ m.root \in 1 .. Len(pages'[m.page_file_id])
      /\ dir' = dir /\ past' = past /\ CURRENT \in Names
      /\ \A c \in past[CURRENT] : IsFile(c) => Within(c.body, m)
  BY <1>1, Opening
<1>3. TypeOK /\ AttachInv /\ EntriesInv /\ roles \in Seq(BOOLEAN) /\ Len(roles) \in Nat
  BY LenProperties DEF PublicationInv, TypeOK
<1> PICK g : g = NextGeneration(m.generation)
  OBVIOUS
<1>4. /\ next.generation = g /\ next.namespace = Len(roles) + 1
      /\ next.page_file_id = m.page_file_id /\ next.page_count = m.page_count
      /\ next.root = m.root /\ next.checkpoint_sequence = m.checkpoint_sequence
  BY <1>2 DEF Manifests
<1>5. g \in 1 .. MaxGeneration /\ g > m.generation
  <2>1. m.generation \in Nat /\ g <= MaxGeneration
    BY <1>1, <1>2, <1>4 DEF Manifests
  <2> QED
    BY <1>3, <2>1, NextIs
<1>6. next \in Manifests
  <2>1. g \in Nat /\ Len(roles) + 1 \in Nat
    BY <1>3, <1>5
  <2> QED
    BY <1>2, <2>1 DEF Manifests
<1>7. /\ roles' \in Seq(BOOLEAN) /\ Len(roles') = Len(roles) + 1 /\ roles'[Len(roles')] = r
      /\ roles' # <<>> /\ \A i \in 1 .. Len(roles) : roles'[i] = roles[i]
  <2>1. /\ roles' \in Seq(BOOLEAN) /\ Len(roles') = Len(roles) + 1
        /\ roles'[Len(roles) + 1] = r /\ \A i \in 1 .. Len(roles) : roles'[i] = roles[i]
    BY <1>1, <1>3, AppendProperties
  <2>2. Len(roles') # 0
    BY <1>3, <2>1
  <2> QED
    BY <2>1, <2>2, EmptySeq
<1>8. TypeOK'
  <2>1. job' \in [kind : JobKinds, todo : Seq(Steps), manifest : Manifests]
    <3>1. WriteRole(r) \in Seq(Steps)
      BY EndSteps DEF Goes
    <3>2. WriteMarker(WriteRole(r)) \in Seq(Steps)
      BY <3>1, PublishSteps DEF Goes
    <3> QED
      BY <1>1, <1>6, <3>2 DEF JobKinds
  <2>2. m.root \in Nat
    BY <1>2 DEF Manifests
  <2> QED
    BY <1>1, <1>2, <1>3, <1>7, <2>1, <2>2, NewTypes DEF TypeOK
<1>9. AttachInv'
  <2>1. Copied' = Copied
    BY Rigid
  <2>2. CASE Absent \notin past[ATTACH_REQUIRED]
    BY <1>2, <2>2 DEF AttachInv, ATTACH_REQUIRED, Absent, NoManifest, Manifest
  <2>3. CASE Absent \in past[ATTACH_REQUIRED]
    <3>1. \A c \in past[CURRENT] : IsFile(c) =>
            /\ c.body.namespace \in 1 .. Len(roles)
            /\ \A e \in past[READ_ONLY] : IsFile(e) = roles[c.body.namespace]
      BY <1>1, <1>3, <2>3 DEF AttachInv
    <3>2. \A i \in 1 .. Len(roles) : i \in 1 .. Len(roles') /\ roles'[i] = roles[i]
      BY <1>3, <1>7
    <3>3. \A c \in past'[CURRENT] : IsFile(c) =>
            /\ c.body.namespace \in 1 .. Len(roles')
            /\ \A e \in past'[READ_ONLY] : IsFile(e) = roles'[c.body.namespace]
      BY <1>2, <3>1, <3>2
    <3> QED
      BY <3>3 DEF AttachInv, IsFile, Absent, NoManifest, Manifest, CURRENT, READ_ONLY
  <2> QED
    BY <2>2, <2>3
<1>10. Selected(m) \in past'[CURRENT] /\ dir'[CURRENT] = Selected(m)
  BY <1>2, <1>3 DEF EntriesInv
<1>11. job'.kind = "attach" /\ job'.todo = WriteMarker(WriteRole(r)) /\ job'.manifest = next
  BY <1>1
<1>12. StoreInv'
  <2>1. InRange(m)'
    BY <1>2, Rigid
  <2> QED
    BY <1>1, <1>2, <1>10, <1>11, <2>1 DEF StoreInv, NoJob
<1>13. NewInv'
  BY <1>1, <1>11 DEF NewInv
<1>14. JobInv'
  <2>1. End' = WriteRole(r)
    BY <1>7, <1>11 DEF End, WriteRole, RoleStep
  <2>2. Contents(next)'
    BY <1>2, <1>4 DEF Complete, Flushed, Contents, CompletePages
  <2>3. Named(next)'
    <3>1. past'[PagesFile(m.page_file_id)] = {Mark("pages")} /\ PagesFile(m.page_file_id) \in Names
      BY <1>2, NamesHold DEF Complete, Settled, InRange, PagesFile, Mark, NoManifest, Manifest
    <3>2. dir'[PagesFile(m.page_file_id)] = Mark("pages")
      BY <1>2, <3>1 DEF Touches
    <3> QED
      BY <1>4, <3>2 DEF Named, PagesFile, Mark, NoManifest, Manifest
  <2>4. Before(next)'
    <3>1. \A c \in past'[CURRENT] : IsFile(c) => Within(c.body, next)
      BY <1>2, <1>4 DEF Within
    <3> QED
      BY <1>1, <1>10, <1>11, <3>1 DEF Before, IsFile, Within, Selected, CURRENT, Absent,
         NoManifest, Manifest
  <2>5. Marking(next)'
    BY <1>11, <2>1, <2>2, <2>3, <2>4 DEF Marking
  <2>6. Attaching(next)'
    BY <1>1, <1>4, <1>7, <2>5, Rigid DEF Attaching
  <2>7. InRange(next)'
    BY <1>2, <1>4, <1>5, <1>6, Rigid DEF InRange
  <2>8. Recent(next)' /\ ~poisoned'
    <3>1. acked.generation \in Nat /\ m.generation \in Nat
      BY <1>2, <1>3 DEF TypeOK, Manifests
    <3> QED
      BY <1>1, <1>2, <1>4, <1>5, <3>1 DEF Recent
  <2> QED
    BY <1>11, <2>6, <2>7, <2>8, Zenon DEF JobInv
<1> QED
  BY <1>2, <1>8, <1>9, <1>12, <1>13, <1>14 DEF PublicationInv

-----------------------------------------------------------------------------
(* The operations of an open store.                                        *)

(* store::apply grows the page file behind every manifest's pages.         *)
LEMMA ApplyKeeps ==
  ASSUME PublicationInv, scenario' = scenario, Apply
  PROVE  PublicationInv'
<1> PICK f : f = manifest.page_file_id
  OBVIOUS
<1>1. TypeOK /\ EntriesInv /\ SelectInv /\ StoreInv /\ PinInv /\ AttachInv /\ NewInv /\ Directory
  BY KnownDirectory DEF PublicationInv
<1>2. /\ mode \in {"recovering", "serving"} /\ job = NoJob /\ ~poisoned
      /\ AppendPage(f, LiveSequence + 1) /\ root' = Len(pages[f]) + 1 /\ UNCHANGED directory
      /\ synced' = synced /\ logged' = logged /\ mode' = mode /\ manifest' = manifest
      /\ poisoned' = poisoned /\ job' = job /\ pins' = pins /\ acked' = acked /\ roles' = roles
  BY DEF Apply, Idle
<1>3. /\ InRange(manifest) /\ root \in 1 .. Len(pages[f]) /\ Selected(manifest) \in past[CURRENT]
      /\ dir[CURRENT] = Selected(manifest)
  BY <1>1, <1>2 DEF StoreInv, NoJob
<1>4. f \in 1 .. MaxFile /\ pages[f] \in Seq(Nat) /\ Len(pages[f]) \in Nat
  BY <1>1, <1>3, LenProperties DEF InRange, TypeOK
<1>5. LiveSequence \in Nat
  BY <1>3, <1>4, ElementOfSeq DEF LiveSequence
<1>6. FilesKept
  BY <1>1, <1>2, <1>4, <1>5, GrownFiles
<1>7. Touches({}) /\ dir' = dir /\ past' = past
  BY <1>1, <1>2, SameDirectory DEF directory
<1>8. EntriesInv' /\ SelectInv' /\ PinInv' /\ AttachInv'
  <2>1. pins' \subseteq pins /\ (mode' # "serving" => pins' = {})
    BY <1>1, <1>2 DEF PinInv
  <2> QED
    BY <1>1, <1>2, <1>6, <1>7, <2>1, Undisturbed
<1>9. root' \in Nat /\ root' \in 1 .. Len(pages'[f])
  <2>1. Len(pages'[f]) = Len(pages[f]) + 1
    <3>1. LiveSequence + 1 \in Nat
      BY <1>5
    <3>2. Len(Append(pages[f], LiveSequence + 1)) = Len(pages[f]) + 1
      BY <1>4, <3>1, AppendProperties
    <3> QED
      BY <1>1, <1>2, <1>4, <3>2 DEF AppendPage, TypeOK
  <2> QED
    BY <1>2, <1>4, <2>1
<1>10. TypeOK'
  BY <1>1, <1>2, <1>6, <1>7, <1>9, NewTypes DEF TypeOK, FilesKept
<1>11. StoreInv'
  <2>1. InRange(manifest)'
    BY <1>2, <1>3, Rigid
  <2> QED
    BY <1>2, <1>3, <1>7, <1>9, <2>1 DEF StoreInv, Selected, CURRENT
<1>12. JobInv' /\ NewInv'
  BY <1>2, NoJobLeft
<1> QED
  BY <1>8, <1>10, <1>11, <1>12 DEF PublicationInv

(* What an idle store knows of its manifest.                               *)
LEMMA IdleStore ==
  ASSUME PublicationInv, mode \in {"recovering", "serving"}, Idle
  PROVE  /\ InRange(manifest) /\ manifest \in Manifests /\ dir[CURRENT] = Selected(manifest)
         /\ Complete(manifest) /\ Contents(manifest) /\ Named(manifest) /\ Recent(manifest)
         /\ root \in 1 .. Len(pages[manifest.page_file_id])
         /\ \A c \in past[CURRENT] : IsFile(c) => Within(c.body, manifest) /\ Complete(c.body)
<1>1. job.kind # "attach"
  BY DEF Idle, NoJob
<1>2. SelectInv /\ StoreInv
  BY DEF PublicationInv
<1>3. dir[CURRENT] = Selected(manifest)
  BY <1>2 DEF StoreInv, Idle
<1>4. \A c \in past[CURRENT] : IsFile(c) => Within(c.body, manifest) /\ Complete(c.body)
  BY <1>2, <1>3, ChoiceIs, EntryFacts
<1> QED
  BY <1>1, <1>3, <1>4, Serving DEF InRange

(* A publication begins, in the page file that is selected.                *)
LEMMA Begins ==
  ASSUME PublicationInv, mode \in {"recovering", "serving"}, Idle,
         UNCHANGED <<scenario, directory, synced, logged, mode, store, pins, acked, roles>>,
         FilesKept, root \in 1 .. Len(pages'[manifest.page_file_id]),
         NEW m, InRange(m), Recent(m), m.page_file_id = manifest.page_file_id,
         manifest.page_count <= m.page_count, m.namespace = manifest.namespace, Contents(m)',
         NEW k \in {"publish", "adopt"}, k = "adopt" => mode = "serving",
         NEW z, z = (IF k = "adopt" THEN Reclaim ELSE <<>>),
         NEW t, job' = [kind |-> k, todo |-> t, manifest |-> m],
         t = FlushBoth(z) \/ t = FlushOnly(z)
           \/ (t = WriteManifest(z) /\ m.page_count = manifest.page_count)
  PROVE  PublicationInv'
<1> PICK f : f = manifest.page_file_id
  OBVIOUS
<1>1. /\ TypeOK /\ EntriesInv /\ SelectInv /\ StoreInv /\ PinInv /\ AttachInv /\ Directory
      /\ CURRENT \in Names /\ PagesFile(f) \in Names
      /\ InRange(manifest) /\ manifest \in Manifests /\ dir[CURRENT] = Selected(manifest)
      /\ Complete(manifest) /\ Named(manifest)
      /\ \A c \in past[CURRENT] : IsFile(c) => Within(c.body, manifest)
  BY KnownDirectory, NamesHold, IdleStore DEF PublicationInv, Single, InRange
<1>2. /\ mode' = mode /\ manifest' = manifest /\ root' = root /\ poisoned' = poisoned /\ ~poisoned
      /\ logged' = logged /\ pins' = pins /\ acked' = acked /\ roles' = roles /\ dir' = dir
      /\ past' = past
  BY DEF store, directory, Idle
<1>3. job'.kind = k /\ job'.todo = t /\ job'.manifest = m /\ End' = z /\ z \in Seq(Steps)
  <2>1. job'.kind = k /\ job'.todo = t /\ job'.manifest = m
    OBVIOUS
  <2>2. <<>> \in Seq(Steps) /\ Reclaim \in Seq(Steps)
    BY EndSteps DEF Goes
  <2> QED
    BY <2>1, <2>2 DEF End, Reclaim
<1>4. Touches({})
  BY <1>1, SameDirectory
<1>5. EntriesInv' /\ SelectInv' /\ PinInv' /\ AttachInv'
  <2>1. pins' \subseteq pins /\ (mode' # "serving" => pins' = {})
    BY <1>1, <1>2 DEF PinInv
  <2> QED
    BY <1>1, <1>2, <1>4, <2>1, Undisturbed
<1>6. TypeOK'
  <2>1. t \in Seq(Steps)
    <3>1. /\ Goes(FlushBoth(z), "sync_pages", SyncFiles(z))
          /\ Goes(FlushOnly(z), "sync_pages", WriteManifest(z))
          /\ Goes(WriteManifest(z), "write_manifest", FlushManifest(z))
      BY <1>3, PublishSteps
    <3>2. FlushBoth(z) \in Seq(Steps) /\ FlushOnly(z) \in Seq(Steps) /\ WriteManifest(z) \in Seq(Steps)
      BY <3>1 DEF Goes
    <3> QED
      BY <3>2
  <2>2. job' \in [kind : JobKinds, todo : Seq(Steps), manifest : Manifests]
    BY <2>1 DEF JobKinds, InRange
  <2> QED
    BY <1>1, <1>2, <1>4, <2>2, NewTypes DEF TypeOK, FilesKept
<1>7. StoreInv'
  <2>1. InRange(manifest)' /\ Selected(manifest) \in past[CURRENT]
    BY <1>1, <1>2, Rigid DEF EntriesInv
  <2> QED
    BY <1>2, <1>3, <2>1 DEF StoreInv, Selected, CURRENT, NoJob
<1>8. NewInv'
  BY <1>2, <1>3 DEF NewInv
<1>9. Named(m)' /\ Settled(m)'
  BY <1>1, <1>2 DEF Named, Settled, Complete, PagesFile, Mark, NoManifest, Manifest
<1>10. m.page_count = manifest.page_count => Flushed(m)'
  <2>1. manifest.page_count <= synced[f]
    BY <1>1 DEF Complete, Flushed
  <2> QED
    BY <2>1 DEF Flushed
<1>11. Before(m)'
  <2>1. \A c \in past'[CURRENT] : IsFile(c) => Within(c.body, m)
    <3> TAKE c \in past'[CURRENT]
    <3> HAVE IsFile(c)
    <3>1. Within(c.body, manifest) /\ Complete(c.body)
      BY <1>1, <1>2, ChoiceIs
    <3>2. c.body.page_count \in Nat /\ manifest.page_count \in Nat /\ m.page_count \in Nat
      BY <1>1, <3>1 DEF Complete, InRange, Manifests
    <3> QED
      BY <3>1, <3>2 DEF Within
  <2> QED
    BY <1>1, <1>2, <1>3, <2>1 DEF Before, IsFile, Within, Selected, CURRENT, Absent, NoManifest,
       Manifest
<1>12. Running(m)'
  <2>1. CASE t = FlushBoth(z)
    BY <1>2, <1>3, <1>9, <1>11, <2>1 DEF Running, Preparing
  <2>2. CASE t = FlushOnly(z)
    BY <1>2, <1>3, <1>9, <1>11, <2>2 DEF Running, Preparing
  <2>3. CASE t = WriteManifest(z) /\ m.page_count = manifest.page_count
    BY <1>3, <1>9, <1>10, <1>11, <2>3 DEF Running, Writing
  <2> QED
    BY <2>1, <2>2, <2>3
<1>13. (k = "publish" => Publishing(m)') /\ (k = "adopt" => Adopting(m)')
  BY <1>2, <1>12 DEF Publishing, Adopting
<1>14. ~poisoned' /\ InRange(m)' /\ Recent(m)'
  BY <1>2, Rigid DEF Recent
<1>15. JobInv'
  BY <1>3, <1>13, <1>14, Zenon DEF JobInv
<1> QED
  BY <1>5, <1>6, <1>7, <1>8, <1>15 DEF PublicationInv

(* Which plan a publication follows.                                       *)
LEMMA PublishPlans ==
  /\ \A b \in BOOLEAN : PublishFiles(FALSE, b, FALSE) = FlushBoth(<<>>)
  /\ \A a, b : PublishFiles(TRUE, a # b, FALSE) = (IF a # b THEN FlushOnly(<<>>) ELSE WriteManifest(<<>>))
<1>1. \A b \in BOOLEAN : PublishFiles(FALSE, b, FALSE) = PublishFiles(FALSE, FALSE, FALSE)
  BY DEF PublishFiles
<1>2. \A a, b : (a # b) = TRUE \/ (a # b) = FALSE
  OBVIOUS
<1> QED
  BY <1>1, <1>2, Plans

(* publish begins: its root is in the pages it will flush.                 *)
LEMMA PublishKeeps ==
  ASSUME PublicationInv, scenario' = scenario, NEW s \in 0 .. MaxSequence, Publish(s)
  PROVE  PublicationInv'
<1> PICK f : f = manifest.page_file_id
  OBVIOUS
<1> PICK own \in BOOLEAN : own = (s # LiveSequence /\ s # manifest.checkpoint_sequence)
  OBVIOUS
<1> PICK r : r = IF own THEN Len(pages[f]) + 1 ELSE IF s = LiveSequence THEN root ELSE manifest.root
  OBVIOUS
<1> PICK count : count = IF own THEN Len(pages[f]) + 1 ELSE PageCount(r, f)
  OBVIOUS
<1> PICK g : g = NextGeneration(manifest.generation)
  OBVIOUS
<1> PICK m : m = [manifest EXCEPT !.generation = g, !.page_count = count,
                                  !.checkpoint_sequence = s, !.root = r]
  OBVIOUS
<1>1. /\ mode \in {"recovering", "serving"} /\ Idle
      /\ s \in manifest.checkpoint_sequence .. LiveSequence /\ m.generation <= MaxGeneration
      /\ own => AppendPage(f, s)
      /\ ~own => pages' = pages
      /\ job' = [kind |-> "publish", todo |-> PublishFiles(Reuse, count # manifest.page_count, FALSE),
                 manifest |-> m]
      /\ UNCHANGED <<scenario, directory, synced, logged, mode, store, pins, acked, roles>>
      /\ synced' = synced
  BY DEF Publish, Start
<1>2. /\ TypeOK /\ EntriesInv /\ InRange(manifest) /\ manifest \in Manifests /\ Contents(manifest)
      /\ Recent(manifest) /\ root \in 1 .. Len(pages[f])
  BY <1>1, IdleStore DEF PublicationInv
<1>3. f \in 1 .. MaxFile /\ pages[f] \in Seq(Nat) /\ Len(pages[f]) \in Nat /\ s \in Nat
  BY <1>2, LenProperties, Bounds DEF InRange, TypeOK
<1>4. FilesKept
  BY <1>1, <1>2, <1>3, GrownFiles, SameFiles DEF files
<1>5. /\ manifest.page_count \in Nat /\ manifest.page_count <= Len(pages[f])
      /\ manifest.root \in 1 .. manifest.page_count
      /\ pages[f][manifest.root] = manifest.checkpoint_sequence
  BY <1>2 DEF Contents, CompletePages, Manifests
<1>6. /\ own => /\ Len(pages'[f]) = Len(pages[f]) + 1 /\ pages'[f][Len(pages[f]) + 1] = s
      /\ ~own => pages'[f] = pages[f]
  <2>1. CASE own
    <3>1. /\ Len(Append(pages[f], s)) = Len(pages[f]) + 1
          /\ Append(pages[f], s)[Len(pages[f]) + 1] = s
      BY <1>3, AppendProperties
    <3>2. pages'[f] = Append(pages[f], s)
      BY <1>1, <1>2, <1>3, <2>1 DEF AppendPage, TypeOK
    <3> QED
      BY <2>1, <3>1, <3>2
  <2> QED
    BY <1>1, <2>1
<1>7. /\ count \in Nat /\ r \in 1 .. count /\ count <= Len(pages'[f]) /\ pages'[f][r] = s
      /\ manifest.page_count <= count /\ root \in 1 .. Len(pages'[f])
  <2>1. CASE own
    <3>1. r = Len(pages[f]) + 1 /\ count = Len(pages[f]) + 1
      BY <2>1
    <3>2. Len(pages'[f]) = Len(pages[f]) + 1 /\ pages'[f][Len(pages[f]) + 1] = s
      BY <1>6, <2>1
    <3>3. count \in Nat /\ r \in 1 .. count /\ count <= Len(pages'[f]) /\ pages'[f][r] = s
      <4>1. count \in Nat /\ r \in 1 .. count /\ count = Len(pages'[f])
        BY <1>3, <3>1, <3>2
      <4>2. pages'[f][r] = s
        BY <3>1, <3>2
      <4> QED
        BY <4>1, <4>2
    <3>4. manifest.page_count <= count
      BY <1>3, <1>5, <3>1
    <3>5. root \in 1 .. Len(pages'[f])
      BY <1>2, <1>3, <3>2
    <3> QED
      BY <3>3, <3>4, <3>5
  <2>2. CASE ~own /\ s = LiveSequence
    <3>1. r = root /\ pages[f][root] = s
      BY <2>2 DEF LiveSequence
    <3>2. count = manifest.page_count \/ count = Len(pages[f])
      BY <2>2 DEF PageCount
    <3>3. count = manifest.page_count => root = manifest.root \/ count = Len(pages[f])
      BY <2>2, <3>1 DEF PageCount
    <3>4. root \in 1 .. count
      BY <1>2, <1>3, <1>5, <3>2, <3>3
    <3> QED
      BY <1>2, <1>3, <1>5, <1>6, <2>2, <3>1, <3>2, <3>4
  <2>3. CASE ~own /\ s # LiveSequence
    <3>1. s = manifest.checkpoint_sequence /\ r = manifest.root
      BY <2>3
    <3>2. count = manifest.page_count \/ count = Len(pages[f])
      BY <2>3 DEF PageCount
    <3>3. pages'[f] = pages[f]
      BY <1>6, <2>3
    <3>4. count \in Nat /\ manifest.page_count <= count /\ count <= Len(pages[f])
      BY <1>3, <1>5, <3>2
    <3>5. r \in 1 .. count /\ pages'[f][r] = s
      BY <1>3, <1>5, <3>1, <3>3, <3>4
    <3> QED
      BY <1>2, <3>3, <3>4, <3>5
  <2> QED
    BY <2>1, <2>2, <2>3
<1>8. /\ m.generation = g /\ m.page_count = count /\ m.checkpoint_sequence = s /\ m.root = r
      /\ m.page_file_id = f /\ m.namespace = manifest.namespace
  BY <1>2 DEF Manifests
<1>9. g \in 1 .. MaxGeneration /\ g > manifest.generation /\ manifest.generation \in Nat
  <2>1. manifest.generation \in Nat /\ g <= MaxGeneration
    BY <1>1, <1>2, <1>8 DEF Manifests
  <2> QED
    BY <1>2, <2>1, NextIs
<1>10. InRange(m)
  <2>1. r \in Nat /\ g \in Nat
    BY <1>7, <1>9
  <2>2. m \in Manifests
    BY <1>2, <1>3, <1>7, <2>1 DEF Manifests
  <2> QED
    BY <1>3, <1>8, <1>9, <2>2 DEF InRange
<1>11. Recent(m)
  <2>1. /\ acked.generation \in Nat /\ acked.checkpoint_sequence \in Nat
        /\ manifest.checkpoint_sequence \in Nat
    BY <1>2 DEF TypeOK, Manifests
  <2>2. s >= manifest.checkpoint_sequence
    BY <1>1
  <2>3. /\ acked.generation <= manifest.generation
        /\ acked.checkpoint_sequence <= manifest.checkpoint_sequence
    BY <1>2, <1>9, <2>1 DEF Recent
  <2>4. g >= acked.generation /\ s >= acked.checkpoint_sequence
    <3> PICK x \in Nat : x = acked.generation
      BY <2>1
    <3> PICK y \in Nat : y = acked.checkpoint_sequence
      BY <2>1
    <3> QED
      BY <1>3, <1>9, <2>1, <2>2, <2>3
  <2> QED
    BY <1>8, <2>4 DEF Recent
<1>12. Contents(m)'
  BY <1>7, <1>8 DEF Contents, CompletePages
<1> PICK t : t = PublishFiles(Reuse, count # manifest.page_count, FALSE)
  OBVIOUS
<1>13. \/ t = FlushBoth(<<>>) \/ t = FlushOnly(<<>>)
       \/ (t = WriteManifest(<<>>) /\ count = manifest.page_count)
  <2>1. CASE Reuse
    <3>1. Reuse = TRUE
      BY <2>1 DEF Reuse
    <3> QED
      BY <3>1, PublishPlans
  <2>2. CASE ~Reuse
    <3>1. Reuse = FALSE /\ (count # manifest.page_count) \in BOOLEAN
      BY <2>2 DEF Reuse
    <3> QED
      BY <3>1, PublishPlans
  <2> QED
    BY <2>1, <2>2
<1>14. job' = [kind |-> "publish", todo |-> t, manifest |-> m]
  BY <1>1
<1> PICK k \in {"publish", "adopt"} : k = "publish"
  OBVIOUS
<1> PICK z : z = (IF k = "adopt" THEN Reclaim ELSE <<>>)
  OBVIOUS
<1>15. z = <<>>
  OBVIOUS
<1>16. /\ m.page_file_id = manifest.page_file_id /\ manifest.page_count <= m.page_count
       /\ m.namespace = manifest.namespace /\ root \in 1 .. Len(pages'[manifest.page_file_id])
       /\ (k = "adopt" => mode = "serving") /\ job' = [kind |-> k, todo |-> t, manifest |-> m]
       /\ mode \in {"recovering", "serving"} /\ Idle
       /\ UNCHANGED <<scenario, directory, synced, logged, mode, store, pins, acked, roles>>
  BY <1>1, <1>7, <1>8, <1>14
<1>17. t = FlushBoth(z) \/ t = FlushOnly(z)
         \/ (t = WriteManifest(z) /\ m.page_count = manifest.page_count)
  BY <1>8, <1>13, <1>15
<1>18. z = (IF k = "adopt" THEN Reclaim ELSE <<>>) /\ k \in {"publish", "adopt"}
  OBVIOUS
<1> QED
  BY ONLY PublicationInv, <1>4, <1>10, <1>11, <1>12, <1>16, <1>17, <1>18, Begins

(* adopt begins with the page file there is: as it was, or with the roots  *)
(* of a collection at its end.                                             *)
LEMMA AdoptAsIs ==
  ASSUME PublicationInv, scenario' = scenario, NEW collected \in BOOLEAN,
         Adopt(FALSE, collected)
  PROVE  PublicationInv'
<1> PICK f : f = manifest.page_file_id
  OBVIOUS
<1> PICK g : g = NextGeneration(manifest.generation)
  OBVIOUS
<1> PICK count : count = IF collected THEN Len(pages[f]) + 1 ELSE Len(pages[f])
  OBVIOUS
<1> PICK r : r = IF collected THEN count ELSE root
  OBVIOUS
<1> PICK m : m = Manifest(g, f, count, manifest.checkpoint_sequence, r, manifest.namespace)
  OBVIOUS
<1> PICK t : t = <<>> \o PublishFiles(TRUE, FALSE \/ m.page_count # manifest.page_count, FALSE)
                      \o <<"reclaim">>
  OBVIOUS
<1>1. /\ mode = "serving" /\ Idle
      /\ LiveSequence = logged /\ manifest.checkpoint_sequence = logged
      /\ m.generation <= MaxGeneration
      /\ collected => AppendPage(f, logged)
      /\ ~collected => pages' = pages
      /\ UNCHANGED <<directory, synced>> /\ synced' = synced
      /\ UNCHANGED <<logged, mode, store, pins, acked, roles>>
      /\ job' = [kind |-> "adopt", todo |-> t, manifest |-> m]
  BY DEF Adopt, Start
<1>2. /\ TypeOK /\ EntriesInv /\ InRange(manifest) /\ manifest \in Manifests /\ Contents(manifest)
      /\ Recent(manifest) /\ root \in 1 .. Len(pages[f])
  BY <1>1, IdleStore DEF PublicationInv
<1>3. f \in 1 .. MaxFile /\ pages[f] \in Seq(Nat) /\ Len(pages[f]) \in Nat /\ logged \in Nat
  BY <1>2, LenProperties DEF InRange, TypeOK
<1>4. FilesKept
  <2>1. CASE collected
    BY <1>1, <1>2, <1>3, <2>1, GrownFiles
  <2>2. CASE ~collected
    BY <1>1, <1>2, <2>2, SameFiles DEF files
  <2> QED
    BY <2>1, <2>2
<1>5. count \in Nat /\ r \in 1 .. count /\ count = Len(pages'[f]) /\ pages'[f][r] = logged
       /\ Len(pages[f]) <= count /\ root \in 1 .. Len(pages'[f])
  <2>1. CASE collected
    <3>1. /\ Len(Append(pages[f], logged)) = Len(pages[f]) + 1
          /\ Append(pages[f], logged)[Len(pages[f]) + 1] = logged
      BY <1>3, AppendProperties
    <3>2. pages'[f] = Append(pages[f], logged)
      BY <1>1, <1>2, <1>3, <2>1 DEF AppendPage, TypeOK
    <3>3. count = Len(pages[f]) + 1 /\ r = Len(pages[f]) + 1
      BY <2>1
    <3> QED
      BY <1>2, <1>3, <3>1, <3>2, <3>3
  <2>2. CASE ~collected
    <3>1. count = Len(pages[f]) /\ r = root /\ pages'[f] = pages[f] /\ pages[f][root] = logged
      BY <1>1, <2>2 DEF LiveSequence
    <3> QED
      BY <1>2, <1>3, <3>1
  <2> QED
    BY <2>1, <2>2
<1>6. /\ m.generation = g /\ m.page_count = count /\ m.root = r
      /\ m.checkpoint_sequence = manifest.checkpoint_sequence
      /\ m.page_file_id = f /\ m.namespace = manifest.namespace
  BY DEF Manifest
<1>7. g \in 1 .. MaxGeneration /\ g > manifest.generation /\ manifest.generation \in Nat
  <2>1. manifest.generation \in Nat /\ g <= MaxGeneration
    BY <1>1, <1>2, <1>6 DEF Manifests
  <2> QED
    BY <1>2, <2>1, NextIs
<1>8. InRange(m)
  <2>1. r \in Nat /\ g \in Nat /\ f \in Nat
    BY <1>3, <1>7, <1>5
  <2>2. manifest.checkpoint_sequence \in Nat /\ manifest.namespace \in Nat
    BY <1>2 DEF Manifests
  <2>3. m \in Manifests
    BY <1>5, <2>1, <2>2 DEF Manifest, Manifests
  <2> QED
    BY <1>3, <1>6, <1>7, <2>3 DEF InRange
<1>9. Recent(m)
  <2>1. acked.generation \in Nat
    BY <1>2 DEF TypeOK, Manifests
  <2>2. /\ manifest.generation >= acked.generation
        /\ manifest.checkpoint_sequence >= acked.checkpoint_sequence
    BY <1>2 DEF Recent
  <2>3. g \in Nat /\ manifest.generation \in Nat /\ g > manifest.generation
    BY <1>7
  <2>4. g >= acked.generation
    BY ONLY <2>1, <2>2, <2>3
  <2> QED
    BY <1>6, <2>2, <2>4 DEF Recent
<1>10. Contents(m)'
  <2>1. pages'[f][m.root] = m.checkpoint_sequence
    BY <1>1, <1>5, <1>6
  <2>2. m.page_count = Len(pages'[f]) /\ Len(pages'[f]) \in Nat /\ m.root \in 1 .. m.page_count
    BY <1>5, <1>6
  <2>3. m.page_count <= Len(pages'[f])
    BY ONLY <2>2
  <2> QED
    BY <1>6, <2>1, <2>2, <2>3 DEF Contents, CompletePages
<1>11. manifest.page_count <= m.page_count
  <2>1. manifest.page_count \in Nat /\ manifest.page_count <= Len(pages[f])
    BY <1>2 DEF Contents, CompletePages, Manifests
  <2>2. m.page_count = count /\ count \in Nat /\ Len(pages[f]) <= count
    BY <1>5, <1>6
  <2> QED
    BY ONLY <1>3, <2>1, <2>2
<1> PICK k \in {"publish", "adopt"} : k = "adopt"
  OBVIOUS
<1> PICK z : z = (IF k = "adopt" THEN Reclaim ELSE <<>>)
  OBVIOUS
<1>12. z = Reclaim
  OBVIOUS
<1>13. t = FlushOnly(z) \/ (t = WriteManifest(z) /\ m.page_count = manifest.page_count)
  <2>1. CASE m.page_count = manifest.page_count
    <3>1. (FALSE \/ m.page_count # manifest.page_count) = FALSE
      BY <2>1
    <3> QED
      BY <1>12, <2>1, <3>1, Plans
  <2>2. CASE m.page_count # manifest.page_count
    <3>1. (FALSE \/ m.page_count # manifest.page_count) = TRUE
      BY <2>2
    <3> QED
      BY <1>12, <3>1, Plans
  <2> QED
    BY <2>1, <2>2
<1>14. t = FlushBoth(z) \/ t = FlushOnly(z)
         \/ (t = WriteManifest(z) /\ m.page_count = manifest.page_count)
  BY <1>13
<1>15. /\ m.page_file_id = manifest.page_file_id /\ manifest.page_count <= m.page_count
       /\ m.namespace = manifest.namespace /\ root \in 1 .. Len(pages'[manifest.page_file_id])
       /\ (k = "adopt" => mode = "serving") /\ job' = [kind |-> k, todo |-> t, manifest |-> m]
       /\ mode \in {"recovering", "serving"} /\ Idle
       /\ UNCHANGED <<scenario, directory, synced, logged, mode, store, pins, acked, roles>>
  BY <1>1, <1>6, <1>11, <1>5
<1>16. z = (IF k = "adopt" THEN Reclaim ELSE <<>>) /\ k \in {"publish", "adopt"}
  OBVIOUS
<1>17. FilesKept
  BY <1>4
<1> QED
  BY ONLY PublicationInv, <1>8, <1>9, <1>10, <1>14, <1>15, <1>16, <1>17, Begins

(* What a compacted page file with a free name leaves of the others.       *)
LEMMA FreshFile ==
  ASSUME TypeOK, EntriesInv, scenario' = scenario, logged \in Nat,
         NEW f \in 1 .. MaxFile, ~IsFile(dir[PagesFile(f)]),
         pages' = [pages EXCEPT ![f] = <<logged>>], synced' = [synced EXCEPT ![f] = 0]
  PROVE  /\ FilesOK'
         /\ \A m : Settled(m) \/ Named(m) => m.page_file_id # f
         /\ \A m : m.page_file_id \in 1 .. MaxFile /\ m.page_file_id # f =>
              (Contents(m) => Contents(m)') /\ (Flushed(m) => Flushed(m)')
         /\ pages'[f] = <<logged>>
<1>1. /\ pages \in [1 .. MaxFile -> Seq(Nat)] /\ synced \in [1 .. MaxFile -> Nat]
      /\ \A h \in 1 .. MaxFile : synced[h] <= Len(pages[h])
      /\ \A n \in Names : dir[n] \in past[n]
  BY DEF TypeOK, EntriesInv
<1>2. MaxFile' = MaxFile
  BY Rigid
<1>3. <<logged>> \in Seq(Nat) /\ Len(<<logged>>) = 1
  OBVIOUS
<1>4. pages'[f] = <<logged>> /\ synced'[f] = 0
  BY <1>1
<1>5. \A h \in 1 .. MaxFile : h # f => pages'[h] = pages[h] /\ synced'[h] = synced[h]
  BY <1>1
<1>6. FilesOK'
  <2>1. pages' \in [1 .. MaxFile -> Seq(Nat)] /\ synced' \in [1 .. MaxFile -> Nat]
    BY <1>1, <1>3
  <2>2. \A h \in 1 .. MaxFile : synced'[h] <= Len(pages'[h])
    <3> TAKE h \in 1 .. MaxFile
    <3>1. CASE h = f
      BY <1>3, <1>4, <3>1
    <3>2. CASE h # f
      BY <1>1, <1>5, <3>2
    <3> QED
      BY <3>1, <3>2
  <2> QED
    BY <1>2, <2>1, <2>2 DEF FilesOK
<1>7. \A m : Settled(m) \/ Named(m) => m.page_file_id # f
  <2> SUFFICES ASSUME NEW m, Settled(m) \/ Named(m), m.page_file_id = f
               PROVE  FALSE
    OBVIOUS
  <2>1. dir[PagesFile(f)] = Mark("pages")
    BY <1>1, NamesHold DEF Settled, Named
  <2> QED
    BY <2>1, EntryFacts DEF IsFile
<1>8. \A m : m.page_file_id \in 1 .. MaxFile /\ m.page_file_id # f =>
        (Contents(m) => Contents(m)') /\ (Flushed(m) => Flushed(m)')
  BY <1>5 DEF Contents, Flushed, CompletePages
<1> QED
  BY <1>4, <1>6, <1>7, <1>8

(* adopt begins with a compacted page file, which nothing uses yet.        *)
LEMMA AdoptCompacted ==
  ASSUME PublicationInv, scenario' = scenario, NEW collected \in BOOLEAN,
         Adopt(TRUE, collected)
  PROVE  PublicationInv'
<1> PICK f : f = Allocate(manifest.page_file_id + 1)
  OBVIOUS
<1> PICK g : g = NextGeneration(manifest.generation)
  OBVIOUS
<1> PICK m : m = Manifest(g, f, 1, manifest.checkpoint_sequence, 1, manifest.namespace)
  OBVIOUS
<1> PICK n : n = PagesFile(f)
  OBVIOUS
<1> PICK t : t = <<"sync_new_pages">>
                   \o PublishFiles(TRUE, TRUE \/ m.page_count # manifest.page_count, TRUE)
                   \o <<"reclaim">>
  OBVIOUS
<1>1. /\ mode = "serving" /\ Idle /\ ~poisoned
      /\ manifest.checkpoint_sequence = logged
      /\ f <= MaxFile /\ m.generation <= MaxGeneration
      /\ PutEntry(n, Mark("pages"))
      /\ pages' = [pages EXCEPT ![f] = <<logged>>] /\ synced' = [synced EXCEPT ![f] = 0]
      /\ job' = [kind |-> "adopt", todo |-> t, manifest |-> m]
      /\ logged' = logged /\ mode' = mode /\ manifest' = manifest /\ root' = root
      /\ poisoned' = poisoned /\ pins' = pins /\ acked' = acked /\ roles' = roles
  BY DEF Adopt, Start, store, Idle
<1>2. /\ TypeOK /\ EntriesInv /\ SelectInv /\ StoreInv /\ PinInv /\ AttachInv /\ Directory
      /\ CURRENT \in Names /\ ATTACH_REQUIRED \in Names /\ READ_ONLY \in Names
      /\ InRange(manifest) /\ manifest \in Manifests /\ dir[CURRENT] = Selected(manifest)
      /\ Complete(manifest) /\ Recent(manifest) /\ root \in 1 .. Len(pages[manifest.page_file_id])
  BY <1>1, KnownDirectory, NamesHold, IdleStore DEF PublicationInv, Single
<1>3. logged \in Nat /\ f \in 1 .. MaxFile /\ ~IsFile(dir[n]) /\ n \in Names
  <2>1. manifest.page_file_id \in Nat /\ manifest.page_file_id + 1 >= 1
        /\ manifest.page_file_id + 1 \in Nat
    BY <1>2 DEF Manifests
  <2>2. f \in 1 .. MaxFile /\ ~IsFile(dir[PagesFile(f)])
    BY <1>1, <1>2, <2>1, AllocateIs
  <2> QED
    BY <1>2, <2>2, NamesHold DEF TypeOK
<1>4. /\ FilesOK'
      /\ \A c : Settled(c) \/ Named(c) => c.page_file_id # f
      /\ \A c : c.page_file_id \in 1 .. MaxFile /\ c.page_file_id # f =>
           (Contents(c) => Contents(c)') /\ (Flushed(c) => Flushed(c)')
      /\ pages'[f] = <<logged>>
  BY <1>1, <1>2, <1>3, FreshFile
<1>5. /\ Touches({n}) /\ dir'[n] = Mark("pages") /\ past'[n] = past[n] \cup {Mark("pages")}
  BY <1>1, <1>2, <1>3, EntryFacts, PutTouches
<1>6. n \notin Single /\ \A h : ManifestFile(h) # n
  BY NamesDiffer
<1>7. CURRENT \notin {n} /\ ATTACH_REQUIRED \notin {n} /\ READ_ONLY \notin {n}
  BY <1>6 DEF Single
<1>8. dir'[CURRENT] = Selected(manifest) /\ dir'[CURRENT] \in past'[CURRENT]
      /\ past'[CURRENT] \subseteq past[CURRENT]
  BY <1>2, <1>5, <1>7 DEF Touches
<1>9. \A c : Complete(c) => Complete(c)'
  <2> SUFFICES ASSUME NEW c, Complete(c)
               PROVE  Complete(c)'
    OBVIOUS
  <2>1. c.page_file_id \in 1 .. MaxFile /\ c.page_file_id # f /\ Flushed(c)
    BY <1>4 DEF Complete, InRange
  <2>2. PagesFile(c.page_file_id) \notin {n} /\ ManifestFile(c.generation) \notin {n}
    BY <1>6, <2>1, NamesDiffer
  <2>3. Flushed(c)'
    BY <1>4, <2>1
  <2> QED
    BY <1>5, <2>2, <2>3, KeepComplete
<1>10. SelectInv'
  <2>1. \A c \in past[CURRENT] : IsFile(c) => Complete(c.body)'
    BY <1>2, <1>9, ChoiceIs
  <2> QED
    BY <1>1, <1>2, <1>5, <1>7, <2>1, KeepSelect
<1>11. EntriesInv'
  <2>1. /\ past'[ATTACH_REQUIRED] \subseteq past[ATTACH_REQUIRED]
        /\ past'[READ_ONLY] \subseteq past[READ_ONLY]
    BY <1>2, <1>5, <1>7 DEF Touches
  <2>2. \A h \in 1 .. MaxFile : past'[PagesFile(h)] \subseteq {Absent, Mark("pages")}
    <3> TAKE h \in 1 .. MaxFile
    <3>1. past[PagesFile(h)] \subseteq {Absent, Mark("pages")} /\ PagesFile(h) \in Names
      BY <1>2, NamesHold DEF EntriesInv
    <3>2. past'[PagesFile(h)] \subseteq past[PagesFile(h)] \cup {Mark("pages")}
      BY <1>5, <3>1 DEF Touches
    <3> QED
      BY <3>1, <3>2
  <2>3. past'[ATTACH_REQUIRED] \subseteq {Absent, Mark("marker")}
        /\ past'[READ_ONLY] \subseteq {Absent, Mark("role")}
    BY <1>2, <2>1 DEF EntriesInv
  <2>4. MaxFile' = MaxFile /\ Names' = Names
    BY Rigid
  <2>5. \A h \in 1 .. MaxFile : synced'[h] <= Len(pages'[h])
    BY <1>4, <2>4 DEF FilesOK
  <2>6. \A k \in Names : dir'[k] \in past'[k]
    BY <1>5 DEF Touches
  <2> QED
    BY <2>2, <2>3, <2>4, <2>5, <2>6 DEF EntriesInv, PagesFile, ATTACH_REQUIRED, READ_ONLY,
       Absent, Mark, NoManifest, Manifest
<1>12. PinInv'
  <2>1. mode' # "serving" => pins' = {}
    BY <1>1
  <2>2. \A c \in pins : c.page_file_id \in 1 .. MaxFile /\ Named(c)' /\ Contents(c)'
    <3> TAKE c \in pins
    <3>1. c.page_file_id \in 1 .. MaxFile /\ Named(c) /\ Contents(c)
      BY <1>2 DEF PinInv
    <3>2. PagesFile(c.page_file_id) \in Names /\ c.page_file_id # f
      BY <1>4, <3>1, NamesHold
    <3>3. PagesFile(c.page_file_id) # n
      BY <3>2, NamesDiffer
    <3>4. dir'[PagesFile(c.page_file_id)] = dir[PagesFile(c.page_file_id)]
      BY <1>5, <3>2, <3>3 DEF Touches
    <3>5. Named(c)'
      BY <3>1, <3>4 DEF Named, PagesFile, Mark, NoManifest, Manifest
    <3> QED
      BY <1>4, <3>1, <3>2, <3>5
  <2> QED
    BY <1>1, <2>1, <2>2, Rigid DEF PinInv
<1>13. AttachInv'
  BY <1>1, <1>2, <1>5, <1>7, KeepAttach
<1>14. root \in 1 .. Len(pages'[manifest.page_file_id])
  <2>1. manifest.page_file_id # f /\ manifest.page_file_id \in 1 .. MaxFile
    BY <1>2, <1>4 DEF Complete, InRange
  <2>2. pages'[manifest.page_file_id] = pages[manifest.page_file_id]
    BY <1>1, <1>2, <2>1 DEF TypeOK
  <2> QED
    BY <1>2, <2>2
<1>15. job'.kind = "adopt" /\ job'.todo = t /\ job'.manifest = m /\ End' = Reclaim
  <2>1. job'.kind = "adopt" /\ job'.todo = t /\ job'.manifest = m
    BY <1>1
  <2> QED
    BY <2>1 DEF End, Reclaim
<1>16. StoreInv'
  <2>1. InRange(manifest)'
    BY <1>1, <1>2, Rigid
  <2> QED
    BY <1>1, <1>8, <1>14, <1>15, <2>1 DEF StoreInv, Selected, CURRENT, NoJob
<1>17. NewInv'
  BY <1>1, <1>15 DEF NewInv
<1>18. /\ m.generation = g /\ m.page_count = 1 /\ m.root = 1 /\ m.checkpoint_sequence = logged
       /\ m.page_file_id = f /\ m.namespace = manifest.namespace
  BY <1>1 DEF Manifest
<1>19. g \in 1 .. MaxGeneration /\ g > manifest.generation /\ manifest.generation \in Nat
  <2>1. manifest.generation \in Nat /\ g <= MaxGeneration
    BY <1>1, <1>2, <1>18 DEF Manifests
  <2> QED
    BY <1>2, <2>1, NextIs
<1>20. InRange(m)
  <2>1. g \in Nat /\ f \in Nat /\ 1 \in Nat
    BY <1>3, <1>19
  <2>2. manifest.namespace \in Nat
    BY <1>2 DEF Manifests
  <2>3. m \in Manifests
    BY <1>1, <1>3, <2>1, <2>2 DEF Manifest, Manifests
  <2> QED
    BY <1>3, <1>18, <1>19, <2>3 DEF InRange
<1>21. Recent(m)
  <2>1. acked.generation \in Nat
    BY <1>2 DEF TypeOK, Manifests
  <2> QED
    BY <1>1, <1>2, <1>18, <1>19, <2>1 DEF Recent
<1>22. TypeOK'
  <2>1. t = FlushNew(Reclaim)
    <3>1. (TRUE \/ m.page_count # manifest.page_count) = TRUE
      OBVIOUS
    <3> QED
      BY <3>1, Plans
  <2>2. Reclaim \in Seq(Steps)
    BY EndSteps DEF Goes
  <2>3. t \in Seq(Steps)
    BY <2>1, <2>2, PublishSteps DEF Goes
  <2>4. job' \in [kind : JobKinds, todo : Seq(Steps), manifest : Manifests]
    BY <1>1, <1>20, <2>3 DEF JobKinds, InRange
  <2> QED
    BY <1>1, <1>2, <1>4, <1>5, <2>4, NewTypes DEF TypeOK
<1>23. Before(m)'
  <2>1. \A c \in past'[CURRENT] : IsFile(c) => Within(c.body, m)
    <3> TAKE c \in past'[CURRENT]
    <3> HAVE IsFile(c)
    <3>1. Complete(c.body)
      BY <1>2, <1>8, ChoiceIs
    <3>2. c.body.page_file_id # f
      BY <1>4, <3>1 DEF Complete
    <3> QED
      BY <1>18, <3>2 DEF Within
  <2> QED
    BY <1>1, <1>8, <1>18, <2>1 DEF Before, IsFile, Within, Selected, CURRENT, Absent, NoManifest,
       Manifest
<1>24. Preparing(m)'
  <2>1. t = FlushNew(Reclaim)
    <3>1. (TRUE \/ m.page_count # manifest.page_count) = TRUE
      OBVIOUS
    <3> QED
      BY <3>1, Plans
  <2>2. Contents(m)'
    <3>1. Len(<<logged>>) = 1 /\ <<logged>>[1] = logged
      OBVIOUS
    <3> QED
      BY <1>4, <1>18, <3>1 DEF Contents, CompletePages
  <2>3. Named(m)'
    BY <1>5, <1>18 DEF Named, PagesFile, Mark, NoManifest, Manifest
  <2> QED
    BY <1>15, <1>23, <2>1, <2>2, <2>3 DEF Preparing
<1>25. JobInv'
  <2>1. Adopting(m)'
    BY <1>1, <1>24 DEF Adopting, Running
  <2>2. ~poisoned' /\ InRange(m)' /\ Recent(m)'
    BY <1>1, <1>20, <1>21, Rigid DEF Recent
  <2> QED
    BY <1>15, <2>1, <2>2, Zenon DEF JobInv
<1> QED
  BY <1>10, <1>11, <1>12, <1>13, <1>16, <1>17, <1>22, <1>25 DEF PublicationInv

(* adopt begins, with a compacted page file or with the one there is.      *)
LEMMA AdoptKeeps ==
  ASSUME PublicationInv, scenario' = scenario, NEW compact \in BOOLEAN,
         NEW collected \in BOOLEAN, Adopt(compact, collected)
  PROVE  PublicationInv'
<1>1. CASE compact = TRUE
  BY <1>1, AdoptCompacted
<1>2. CASE compact = FALSE
  BY <1>2, AdoptAsIs
<1> QED
  BY <1>1, <1>2

-----------------------------------------------------------------------------
(* A power loss.                                                           *)

(* A power loss cannot tear what is flushed.                               *)
LEMMA OnDiskFlushed ==
  ASSUME NEW n, \A e \in past[n] : e.flushed = TRUE
  PROVE  OnDisk(n) = past[n]
<1>1. \A e \in past[n] : Survivors(e) = {e}
  BY DEF Survivors
<1> QED
  BY <1>1 DEF OnDisk

(* The entries that are settled whatever step is in progress.              *)
LEMMA DiskIs ==
  ASSUME TypeOK, EntriesInv, SelectInv
  PROVE  /\ OnDisk(CURRENT) = past[CURRENT]
         /\ OnDisk(ATTACH_REQUIRED) = past[ATTACH_REQUIRED]
         /\ OnDisk(READ_ONLY) = past[READ_ONLY]
         /\ \A f \in 1 .. MaxFile : OnDisk(PagesFile(f)) = past[PagesFile(f)]
         /\ \A m : Complete(m) =>
              OnDisk(ManifestFile(m.generation)) = past[ManifestFile(m.generation)]
<1>1. OnDisk(CURRENT) = past[CURRENT]
  <2>1. \A c \in past[CURRENT] : c = Absent \/ c = Selected(c.body)
    BY DEF SelectInv
  <2>2. \A c \in past[CURRENT] : c.flushed = TRUE
    BY <2>1, EntryFacts
  <2> QED
    BY <2>2, OnDiskFlushed
<1>2. OnDisk(ATTACH_REQUIRED) = past[ATTACH_REQUIRED]
  <2>1. \A c \in past[ATTACH_REQUIRED] : c.flushed = TRUE
    BY EntryFacts DEF EntriesInv
  <2> QED
    BY <2>1, OnDiskFlushed
<1>3. OnDisk(READ_ONLY) = past[READ_ONLY]
  <2>1. \A c \in past[READ_ONLY] : c.flushed = TRUE
    BY EntryFacts DEF EntriesInv
  <2> QED
    BY <2>1, OnDiskFlushed
<1>4. ASSUME NEW f \in 1 .. MaxFile
      PROVE  OnDisk(PagesFile(f)) = past[PagesFile(f)]
  <2>1. \A c \in past[PagesFile(f)] : c.flushed = TRUE
    BY EntryFacts DEF EntriesInv
  <2> QED
    BY <2>1, OnDiskFlushed
<1>5. ASSUME NEW m, Complete(m)
      PROVE  OnDisk(ManifestFile(m.generation)) = past[ManifestFile(m.generation)]
  <2>1. \A c \in past[ManifestFile(m.generation)] : c.flushed = TRUE
    BY <1>5, EntryFacts DEF Complete
  <2> QED
    BY <2>1, OnDiskFlushed
<1> QED
  BY <1>1, <1>2, <1>3, <1>4, <1>5

(* What a power loss leaves of an entry is an entry.                       *)
LEMMA DiskType ==
  ASSUME TypeOK, NEW n \in Names
  PROVE  OnDisk(n) \subseteq Entries
<1>1. past[n] \subseteq Entries
  BY DEF TypeOK
<1>2. ASSUME NEW e \in Entries
      PROVE  Survivors(e) \subseteq Entries
  <2>1. Torn \in Entries
    BY EntryFacts DEF Torn, Entries, Kinds
  <2>2. [e EXCEPT !.flushed = TRUE] \in Entries
    BY DEF Entries
  <2> QED
    BY <2>1, <2>2 DEF Survivors
<1> QED
  BY <1>1, <1>2 DEF OnDisk

(* A directory that a power loss leaves has such an entry for every name.  *)
LEMMA LeftIs ==
  ASSUME TypeOK, NEW d \in AfterPowerLoss
  PROVE  d \in [Names -> Entries] /\ \A n \in Names : d[n] \in OnDisk(n)
<1> DEFINE selecting == Unsettled \cap {CURRENT, CURRENT_pending, manifest_pending}
           A == Left(selecting)
           B == Left(Unsettled \ selecting)
           F(a, b) == [n \in Names |-> IF n \in selecting THEN a[n]
                                       ELSE IF n \in Unsettled THEN b[n] ELSE dir[n]]
<1>1. PICK a \in A, b \in B : d = F(a, b)
  <2>1. AfterPowerLoss = {F(a, b) : a \in A, b \in B}
    BY DEF AfterPowerLoss
  <2> HIDE DEF A, B, F
  <2> QED
    BY <2>1
<1>2. \A S : \A x \in Left(S) : \A n \in S : x[n] \in OnDisk(n)
  BY DEF Left
<1>3. \A n \in selecting : a[n] \in OnDisk(n)
  BY <1>2
<1>4. \A n \in Unsettled \ selecting : b[n] \in OnDisk(n)
  BY <1>2
<1>5. \A n \in Names : n \notin Unsettled => OnDisk(n) = {dir[n]}
  BY DEF Unsettled
<1>6. selecting \subseteq Unsettled
  OBVIOUS
<1> HIDE DEF selecting
<1>7. \A n \in Names : d[n] \in OnDisk(n)
  <2> TAKE n \in Names
  <2>1. CASE n \in selecting
    BY <1>1, <1>3, <2>1
  <2>2. CASE n \in Unsettled \ selecting
    BY <1>1, <1>4, <2>2
  <2>3. CASE n \notin Unsettled
    BY <1>1, <1>5, <1>6, <2>3
  <2> QED
    BY <2>1, <2>2, <2>3
<1>8. d = [n \in Names |-> d[n]]
  BY <1>1
<1>9. \A n \in Names : d[n] \in Entries
  BY <1>7, DiskType
<1> QED
  BY <1>7, <1>8, <1>9

(* The flushed pages are left.                                             *)
LEMMA LostFiles ==
  ASSUME TypeOK, EntriesInv, scenario' = scenario, synced' = synced,
         pages' = [f \in 1 .. MaxFile |-> SubSeq(pages[f], 1, synced[f])]
  PROVE  /\ FilesOK'
         /\ \A m : InRange(m) /\ Flushed(m) => Flushed(m)'
<1>1. /\ pages \in [1 .. MaxFile -> Seq(Nat)] /\ synced \in [1 .. MaxFile -> Nat]
      /\ \A f \in 1 .. MaxFile : synced[f] <= Len(pages[f])
  BY DEF TypeOK, EntriesInv
<1>2. ASSUME NEW f \in 1 .. MaxFile
      PROVE  /\ pages'[f] \in Seq(Nat) /\ Len(pages'[f]) = synced[f]
             /\ \A i \in 1 .. synced[f] : pages'[f][i] = pages[f][i]
  <2> PICK s \in Seq(Nat) : s = pages[f]
    BY <1>1
  <2> PICK n \in Nat : n = synced[f]
    BY <1>1
  <2>1. Len(s) \in Nat /\ n <= Len(s)
    BY <1>1, LenProperties
  <2>2. \A i \in 1 .. n : s[i] \in Nat
    BY <2>1, ElementOfSeq
  <2> PICK t : t = SubSeq(s, 1, n)
    OBVIOUS
  <2>3. t \in Seq(Nat) /\ Len(t) = n /\ \A i \in 1 .. n : t[i] = s[i]
    BY <2>1, <2>2
  <2>4. pages'[f] = t
    OBVIOUS
  <2> QED
    BY <2>3, <2>4
<1>3. FilesOK'
  <2>1. pages' \in [1 .. MaxFile -> Seq(Nat)]
    BY <1>2
  <2>2. \A f \in 1 .. MaxFile : synced'[f] <= Len(pages'[f])
    BY <1>1, <1>2
  <2> QED
    BY <1>1, <2>1, <2>2, Rigid DEF FilesOK
<1>4. ASSUME NEW m, InRange(m), Flushed(m)
      PROVE  Flushed(m)'
  <2> PICK f \in 1 .. MaxFile : f = m.page_file_id
    BY <1>4 DEF InRange
  <2>1. m.page_count \in Nat /\ synced[f] \in Nat
    BY <1>1, <1>4 DEF InRange, Manifests
  <2>2. /\ m.page_count <= synced[f] /\ m.root \in 1 .. m.page_count
        /\ pages[f][m.root] = m.checkpoint_sequence
    BY <1>4 DEF Flushed, Contents, CompletePages
  <2>3. m.root \in 1 .. synced[f]
    BY <2>1, <2>2
  <2>4. pages'[f][m.root] = m.checkpoint_sequence /\ m.page_count <= Len(pages'[f])
    BY <1>2, <2>2, <2>3
  <2> QED
    BY <2>2, <2>4 DEF Flushed, Contents, CompletePages
<1> QED
  BY <1>3, <1>4

(* A power loss leaves one of the directories that the invariant allows.   *)
LEMMA PowerLossKeeps ==
  ASSUME PublicationInv, scenario' = scenario, PowerLoss
  PROVE  PublicationInv'
<1>1. TypeOK /\ EntriesInv /\ SelectInv /\ AttachInv
  BY DEF PublicationInv
<1>2. PICK d \in AfterPowerLoss : dir' = d /\ past' = [n \in Names |-> {d[n]}]
  BY DEF PowerLoss
<1>3. /\ pages' = [f \in 1 .. MaxFile |-> SubSeq(pages[f], 1, synced[f])]
      /\ mode' = "down" /\ manifest' = NoManifest /\ root' = 0 /\ poisoned' = FALSE
      /\ job' = NoJob /\ pins' = {}
      /\ synced' = synced /\ logged' = logged /\ acked' = acked /\ roles' = roles
  BY DEF PowerLoss, Stopped
<1>4. d \in [Names -> Entries] /\ \A n \in Names : d[n] \in OnDisk(n)
  BY <1>1, <1>2, LeftIs
<1>5. FilesOK' /\ \A m : InRange(m) /\ Flushed(m) => Flushed(m)'
  BY <1>1, <1>3, LostFiles
<1>6. /\ CURRENT \in Names /\ ATTACH_REQUIRED \in Names /\ READ_ONLY \in Names
      /\ \A f \in 1 .. MaxFile : PagesFile(f) \in Names
      /\ \A g \in 1 .. MaxGeneration : ManifestFile(g) \in Names
  BY NamesHold DEF Single
<1>7. /\ past'[CURRENT] = {d[CURRENT]} /\ d[CURRENT] \in past[CURRENT]
      /\ past'[ATTACH_REQUIRED] \subseteq past[ATTACH_REQUIRED]
      /\ past'[READ_ONLY] \subseteq past[READ_ONLY]
      /\ \A f \in 1 .. MaxFile : past'[PagesFile(f)] \subseteq past[PagesFile(f)]
  BY <1>1, <1>2, <1>4, <1>6, DiskIs
<1>8. Touches(Names)
  BY <1>2, <1>4 DEF Touches
<1>9. TypeOK'
  <2>1. /\ NoManifest \in Manifests /\ NoJob \in [kind : JobKinds, todo : Seq(Steps), manifest : Manifests]
    BY EntryFacts, NoJobType
  <2>2. logged' \in Nat /\ acked' \in Manifests /\ roles' \in Seq(BOOLEAN)
    BY <1>1, <1>3 DEF TypeOK
  <2>3. /\ mode' \in {"new", "creating", "down", "recovering", "serving"} /\ manifest' \in Manifests
        /\ root' \in Nat /\ poisoned' \in BOOLEAN /\ pins' \in SUBSET Manifests
        /\ job' \in [kind : JobKinds, todo : Seq(Steps), manifest : Manifests]
    BY <1>3, <2>1
  <2> QED
    BY <1>1, <1>5, <1>8, <2>2, <2>3, NewTypes
<1>10. EntriesInv'
  <2>1. /\ past'[ATTACH_REQUIRED] \subseteq {Absent, Mark("marker")}
        /\ past'[READ_ONLY] \subseteq {Absent, Mark("role")}
        /\ \A f \in 1 .. MaxFile : past'[PagesFile(f)] \subseteq {Absent, Mark("pages")}
    BY <1>1, <1>7 DEF EntriesInv
  <2>2. MaxFile' = MaxFile /\ Names' = Names
    BY Rigid
  <2>3. \A f \in 1 .. MaxFile : synced'[f] <= Len(pages'[f])
    BY <1>5, <2>2 DEF FilesOK
  <2>4. \A n \in Names : dir'[n] \in past'[n]
    BY <1>8 DEF Touches
  <2> QED
    BY <2>1, <2>2, <2>3, <2>4 DEF EntriesInv, PagesFile, ATTACH_REQUIRED, READ_ONLY,
       Absent, Mark, NoManifest, Manifest
<1>11. \A m : Complete(m) => Complete(m)'
  <2> SUFFICES ASSUME NEW m, Complete(m)
               PROVE  Complete(m)'
    OBVIOUS
  <2>1. InRange(m) /\ Flushed(m) /\ m.page_file_id \in 1 .. MaxFile /\ m.generation \in 1 .. MaxGeneration
    BY DEF Complete, InRange
  <2>2. OnDisk(PagesFile(m.page_file_id)) = {Mark("pages")}
    BY <1>1, <2>1, DiskIs DEF Complete, Settled
  <2>3. OnDisk(ManifestFile(m.generation)) = {Selected(m)}
    BY <1>1, DiskIs DEF Complete
  <2>4. d[PagesFile(m.page_file_id)] = Mark("pages")
    BY <1>4, <1>6, <2>1, <2>2
  <2>5. d[ManifestFile(m.generation)] = Selected(m)
    BY <1>4, <1>6, <2>1, <2>3
  <2>6. past'[PagesFile(m.page_file_id)] = {Mark("pages")}
    BY <1>2, <1>6, <2>1, <2>4
  <2>7. past'[ManifestFile(m.generation)] = {Selected(m)}
    BY <1>2, <1>6, <2>1, <2>5
  <2>8. Settled(m)'
    BY <2>6 DEF Settled, PagesFile, Mark, NoManifest, Manifest
  <2>9. InRange(m)' /\ Flushed(m)'
    BY <1>5, <2>1, Rigid
  <2> QED
    BY <2>7, <2>8, <2>9 DEF Complete, ManifestFile, Selected
<1>12. SelectInv'
  <2>1. SUFFICES ASSUME NEW c, c = d[CURRENT]
                 PROVE  \/ c = Absent /\ acked' = NoManifest
                        \/ /\ c = Selected(c.body) /\ Complete(c.body)' /\ Recent(c.body)'
                           /\ IsFile(dir'[CURRENT]) /\ Within(c.body, dir'[CURRENT].body)
    BY <1>7 DEF SelectInv, IsFile, Within, Selected, Absent, NoManifest, Manifest, CURRENT
  <2>2. c \in past[CURRENT] /\ dir'[CURRENT] = c
    BY <1>2, <1>7, <2>1
  <2>3. CASE c = Absent
    <3>1. acked = NoManifest
      BY <1>1, <2>2, <2>3, EntryFacts DEF SelectInv
    <3> QED
      BY <1>3, <2>3, <3>1
  <2>4. CASE IsFile(c)
    <3>1. c = Selected(c.body) /\ Complete(c.body) /\ Recent(c.body)
      BY <1>1, <2>2, <2>4, ChoiceIs
    <3>2. Recent(c.body)' /\ Complete(c.body)'
      BY <1>3, <1>11, <3>1 DEF Recent
    <3>3. Within(c.body, c.body)
      <4>1. c.body.page_count \in Nat
        BY <3>1 DEF Complete, InRange, Manifests
      <4> QED
        BY <4>1 DEF Within
    <3> QED
      BY <2>2, <2>4, <3>1, <3>2, <3>3
  <2> QED
    BY <2>3, <2>4 DEF IsFile
<1>13. AttachInv'
  <2>1. past'[CURRENT] \subseteq past[CURRENT]
    BY <1>7
  <2> QED
    BY <1>1, <1>3, <1>7, <2>1, Rigid DEF AttachInv, IsFile, Absent, NoManifest, Manifest, CURRENT,
       ATTACH_REQUIRED, READ_ONLY
<1>14. PinInv' /\ StoreInv'
  BY <1>3 DEF PinInv, StoreInv
<1>15. JobInv' /\ NewInv'
  BY <1>3, NoJobLeft
<1> QED
  BY <1>9, <1>10, <1>12, <1>13, <1>14, <1>15 DEF PublicationInv

-----------------------------------------------------------------------------
(* The results.                                                            *)

(* Every step of the system keeps the invariant.                           *)
LEMMA StepKeeps ==
  ASSUME PublicationInv, [Next]_vars
  PROVE  PublicationInv'
<1>1. CASE UNCHANGED vars
  <2>1. /\ UNCHANGED <<scenario, directory, files, logged, mode, store, job, acked, roles>>
        /\ pins' \subseteq pins
    BY <1>1 DEF vars
  <2> QED
    BY <2>1, PinsKeep
<1>2. CASE Next
  <2>1. Step /\ scenario' = scenario
    BY <1>2 DEF Next
  <2>2. CASE Create
    BY <2>1, <2>2, CreateKeeps
  <2>3. CASE Copy
    BY <2>1, <2>3, CopyKeeps
  <2>4. CASE Open
    BY <2>1, <2>4, OpenKeeps
  <2>5. CASE AppendWal
    <3>1. logged' \in Nat /\ job = NoJob /\ mode' = mode /\ mode # "new"
      BY <2>5 DEF AppendWal, Idle, PublicationInv, TypeOK
    <3>2. UNCHANGED <<scenario, directory, files, store, job, pins, acked, roles>>
      BY <2>1, <2>5 DEF AppendWal
    <3> QED
      BY <3>1, <3>2, QuietKeeps
  <2>6. CASE Apply
    BY <2>1, <2>6, ApplyKeeps
  <2>7. CASE EnableCache
    <3>1. logged' \in Nat /\ job = NoJob /\ mode = "recovering" /\ mode' = "serving"
      BY <2>7 DEF EnableCache, Idle, PublicationInv, TypeOK
    <3>2. UNCHANGED <<scenario, directory, files, store, job, pins, acked, roles>>
      BY <2>1, <2>7 DEF EnableCache
    <3> QED
      BY <3>1, <3>2, QuietKeeps
  <2>8. CASE \E s \in 0 .. MaxSequence : Publish(s)
    BY <2>1, <2>8, PublishKeeps
  <2>9. CASE \E read_only \in BOOLEAN : Attach(read_only)
    BY <2>1, <2>9, AttachKeeps
  <2>10. CASE \E compact, collected \in BOOLEAN : Adopt(compact, collected)
    BY <2>1, <2>10, AdoptKeeps
  <2>11. CASE Pin
    <3>1. /\ UNCHANGED <<scenario, directory, files, logged, mode, store, job, acked, roles>>
          /\ mode = "serving" /\ pins' = pins \cup {manifest}
      BY <2>1, <2>11 DEF Pin
    <3> QED
      BY <3>1, PinsKeep
  <2>12. CASE \E m \in pins : Unpin(m)
    <3>1. /\ UNCHANGED <<scenario, directory, files, logged, mode, store, job, acked, roles>>
          /\ pins' \subseteq pins
      BY <2>1, <2>12 DEF Unpin
    <3> QED
      BY <3>1, PinsKeep
  <2>13. CASE JobDirectory \/ JobPages
    BY <2>1, <2>13, JobKeeps
  <2>14. CASE JobReturns
    BY <2>1, <2>14, ReturnsKeeps
  <2>15. CASE JobReclaims
    BY <2>1, <2>15, ReclaimsKeeps
  <2>16. CASE JobReclaimed
    BY <2>1, <2>16, ReclaimedKeeps
  <2>17. CASE Fail
    BY <2>1, <2>17, FailKeeps
  <2>18. CASE Close \/ Crash
    <3>1. Stopped /\ UNCHANGED <<scenario, directory, files, logged, acked, roles>>
      BY <2>1, <2>18 DEF Close, Crash
    <3> QED
      BY <3>1, StoppedKeeps
  <2>19. CASE PowerLoss
    BY <2>1, <2>19, PowerLossKeeps
  <2> QED
    BY <2>1, <2>2, <2>3, <2>4, <2>5, <2>6, <2>7, <2>8, <2>9, <2>10, <2>11, <2>12, <2>13, <2>14,
       <2>15, <2>16, <2>17, <2>18, <2>19 DEF Step
<1> QED
  BY <1>1, <1>2

(* Between any two file steps of a creation, a publication, a handover, a  *)
(* reclamation, a copy or an attachment, the directory and the job's       *)
(* remaining steps fit together (publish_files, adopt, reclaim, copy,      *)
(* attach, open_directory).                                                *)
THEOREM PublicationInductive == Spec => []PublicationInv
<1>1. Init => PublicationInv
  BY InitHolds
<1>2. PublicationInv /\ [Next]_vars => PublicationInv'
  BY StepKeeps
<1> QED
  BY <1>1, <1>2, PTL DEF Spec

(* Whenever the power fails, CURRENT names a complete generation that is   *)
(* not older than the last reported one (publish_files, adopt, reclaim).   *)
THEOREM SelectionCompleteness == Spec => []SelectionIsComplete
<1>1. PublicationInv => SelectionIsComplete
  <2> SUFFICES ASSUME PublicationInv, acked # NoManifest, NEW c \in OnDisk(CURRENT)
               PROVE  /\ IsFile(c) /\ c # Torn
                      /\ \A e \in OnDisk(ManifestFile(c.body.generation)) : e.body = c.body
                      /\ \A e \in OnDisk(PagesFile(c.body.page_file_id)) : IsFile(e)
                      /\ CompletePages(c.body, SubSeq(pages[c.body.page_file_id], 1,
                                                      synced[c.body.page_file_id]))
                      /\ c.body.generation >= acked.generation
                      /\ c.body.checkpoint_sequence >= acked.checkpoint_sequence
    BY DEF SelectionIsComplete
  <2>1. TypeOK /\ EntriesInv /\ SelectInv
    BY DEF PublicationInv
  <2>2. c \in past[CURRENT]
    BY <2>1, DiskIs
  <2>3. IsFile(c)
    BY <2>1, <2>2, EntryFacts DEF SelectInv, IsFile
  <2> PICK m : m = c.body
    OBVIOUS
  <2>4. c = Selected(m) /\ Complete(m) /\ Recent(m)
    BY <2>1, <2>2, <2>3, ChoiceIs
  <2> PICK f \in 1 .. MaxFile : f = m.page_file_id
    BY <2>4 DEF Complete, InRange
  <2>5. \A e \in OnDisk(ManifestFile(m.generation)) : e.body = m
    <3>1. OnDisk(ManifestFile(m.generation)) = {Selected(m)}
      BY <2>1, <2>4, DiskIs DEF Complete
    <3> QED
      BY <3>1, EntryFacts
  <2>6. \A e \in OnDisk(PagesFile(f)) : IsFile(e)
    <3>1. OnDisk(PagesFile(f)) = {Mark("pages")}
      BY <2>1, <2>4, DiskIs DEF Complete, Settled
    <3> QED
      BY <3>1, EntryFacts DEF IsFile
  <2>7. CompletePages(m, SubSeq(pages[f], 1, synced[f]))
    <3> PICK s \in Seq(Nat) : s = pages[f]
      BY <2>1 DEF TypeOK
    <3> PICK n \in Nat : n = synced[f]
      BY <2>1 DEF TypeOK
    <3>1. Len(s) \in Nat /\ n <= Len(s)
      BY <2>1, LenProperties DEF EntriesInv
    <3>2. ASSUME NEW i \in 1 .. n
          PROVE  s[i] \in Nat
      <4>1. i \in 1 .. Len(s)
        BY <3>1
      <4> QED
        BY <4>1, ElementOfSeq
    <3> PICK t : t = SubSeq(s, 1, n)
      OBVIOUS
    <3>3. Len(t) = n /\ \A i \in 1 .. n : t[i] = s[i]
      BY <3>1, <3>2
    <3>4. /\ m.page_count \in Nat /\ m.page_count <= n /\ m.root \in 1 .. m.page_count
          /\ s[m.root] = m.checkpoint_sequence
      BY <2>4 DEF Complete, InRange, Manifests, Flushed, Contents, CompletePages
    <3>5. m.root \in 1 .. n
      BY <3>4
    <3>6. t[m.root] = m.checkpoint_sequence /\ m.page_count <= Len(t)
      BY <3>3, <3>4, <3>5
    <3> QED
      BY <3>4, <3>6 DEF CompletePages
  <2>8. c # Torn
    BY <2>4, EntryFacts
  <2> QED
    BY <2>3, <2>4, <2>5, <2>6, <2>7, <2>8 DEF Recent
<1> QED
  BY <1>1, PublicationInductive, PTL

(* The page file under a view or a backup image is neither deleted nor cut *)
(* short while the lease is shared (reclaim, adopt).                       *)
THEOREM PinnedFilesKept == Spec => []PinnedFilesStay
<1>1. PublicationInv => PinnedFilesStay
  <2> SUFFICES ASSUME PublicationInv, NEW m \in pins
               PROVE  /\ IsFile(dir[PagesFile(m.page_file_id)])
                      /\ CompletePages(m, pages[m.page_file_id])
    BY DEF PinnedFilesStay
  <2>1. Named(m) /\ Contents(m)
    BY DEF PublicationInv, PinInv
  <2> QED
    BY <2>1, EntryFacts DEF Named, Contents, IsFile
<1> QED
  BY <1>1, PublicationInductive, PTL

(* Whenever an attachment is interrupted, a copy whose marker is gone has  *)
(* the namespace and the role of one attachment (backup::attach).          *)
THEOREM AttachmentSafety == Spec => []AttachedOrMarked
<1>1. PublicationInv => AttachedOrMarked
  <2> SUFFICES ASSUME PublicationInv, Absent \in OnDisk(ATTACH_REQUIRED),
                      NEW c \in OnDisk(CURRENT), IsFile(c), Copied
               PROVE  /\ c.body.namespace # 0
                      /\ \A e \in OnDisk(READ_ONLY) : IsFile(e) = roles[c.body.namespace]
    BY DEF AttachedOrMarked
  <2>1. TypeOK /\ EntriesInv /\ SelectInv /\ AttachInv
    BY DEF PublicationInv
  <2>2. /\ Absent \in past[ATTACH_REQUIRED] /\ c \in past[CURRENT]
        /\ OnDisk(READ_ONLY) = past[READ_ONLY]
    BY <2>1, DiskIs
  <2>3. c.body.namespace \in 1 .. Len(roles)
    BY <2>1, <2>2 DEF AttachInv
  <2>4. \A e \in past[READ_ONLY] : IsFile(e) = roles[c.body.namespace]
    BY <2>1, <2>2 DEF AttachInv
  <2>5. Len(roles) \in Nat
    BY <2>1, LenProperties DEF TypeOK
  <2>6. c.body.namespace # 0
    BY <2>3, <2>5
  <2> QED
    BY <2>2, <2>4, <2>6
<1> QED
  BY <1>1, PublicationInductive, PTL
=============================================================================
