---------------------------- MODULE Publication ----------------------------
(***************************************************************************)
(* How a directory changes its selected generation: creation, checkpoint   *)
(* publication, handover to a compacted page file, reclamation, backup     *)
(* copies and attachment, each as the file steps the code performs, with   *)
(* I/O errors, process crashes and power losses between any two of them.   *)
(*                                                                         *)
(* The directory is seen as a process sees it (dir) and as a power loss    *)
(* may leave it (past: every value an entry had since its last flush).     *)
(* Entries reach the disk in any order until the directory is flushed.     *)
(* Log segments are the subject of Wal; here the log is its length.        *)
(***************************************************************************)
EXTENDS Naturals, SequencesExt, FiniteSetsExt

(* The circumstances that are explored, each a record of                   *)
(*   Copied         the directory is the copy of a backup, to be attached  *)
(*   Collects       collections may remove something                       *)
(*   MaxSequence    bound: log records                                     *)
(*   MaxGeneration  bound: manifest generations                            *)
(*   MaxFile        bound: page file ids                                   *)
(*   MaxPages       bound: pages of one file                               *)
(*   MaxFailures    bound: I/O errors, crashes and power losses            *)
(*   MaxPins        bound: views and backup images held at once            *)
(*   MaxAttaches    bound: attachments that are started                    *)
CONSTANT Scenarios

ASSUME PublicationBounds ==
  \A s \in Scenarios :
    /\ {s.Copied, s.Collects} \subseteq BOOLEAN
    /\ {s.MaxSequence, s.MaxFailures, s.MaxPins, s.MaxAttaches} \subseteq Nat
    /\ {s.MaxGeneration, s.MaxFile, s.MaxPages} \subseteq Nat \ {0}

VARIABLES
  scenario,   \* the member of Scenarios in force; never changes
  dir,        \* name -> entry, as the process sees the directory
  past,       \* name -> the entries a power loss may leave there
  pages,      \* page file id -> its pages: the sequence each root holds
  synced,     \* page file id -> how many of its pages are flushed
  logged,     \* records of the log (durable_sequence)
  mode,       \* "new", "creating", "down", "recovering", "serving"
  manifest,   \* store.manifest, also store.selected
  root,       \* store.roots: the page that holds the live state
  poisoned,   \* the store needs recovery
  job,        \* the publication in progress: steps left and its manifest
  pins,       \* leases held by views and by backup workers
  acked,      \* history: the last manifest whose publication returned
  roles,      \* history: whether each attachment makes a read-only replica
  failures

directory == <<dir, past>>
files == <<pages, synced>>
store == <<manifest, root, poisoned>>
vars == <<scenario, directory, files, logged, mode, store, job, pins, acked, roles, failures>>

Copied == scenario.Copied
Collects == scenario.Collects
MaxSequence == scenario.MaxSequence
MaxGeneration == scenario.MaxGeneration
MaxFile == scenario.MaxFile
MaxPages == scenario.MaxPages
MaxFailures == scenario.MaxFailures
MaxPins == scenario.MaxPins
MaxAttaches == scenario.MaxAttaches

-----------------------------------------------------------------------------
(* Entries.  A small file's contents are flushed or not; a page file's     *)
(* contents are in pages.                                                  *)

CURRENT == <<"CURRENT", 0>>
CURRENT_pending == <<"CURRENT.pending", 0>>
manifest_pending == <<"manifest.pending", 0>>
ATTACH_REQUIRED == <<"ATTACH_REQUIRED", 0>>
READ_ONLY == <<"READ_ONLY", 0>>
ManifestFile(g) == <<"manifest", g>>
PagesFile(f) == <<"pages", f>>

Names ==
  {CURRENT, CURRENT_pending, manifest_pending, ATTACH_REQUIRED, READ_ONLY}
    \cup {ManifestFile(g) : g \in 1 .. MaxGeneration}
    \cup {PagesFile(f) : f \in 1 .. MaxFile}

Manifest(g, f, c, s, r, n) ==
  [generation |-> g, page_file_id |-> f, page_count |-> c,
   checkpoint_sequence |-> s, root |-> r, namespace |-> n]

NoManifest == Manifest(0, 0, 0, 0, 0, 0)

Absent == [kind |-> "absent", body |-> NoManifest, flushed |-> TRUE]
Torn == [kind |-> "torn", body |-> NoManifest, flushed |-> TRUE]
Written(m) == [kind |-> "metadata", body |-> m, flushed |-> FALSE]
Mark(kind) == [kind |-> kind, body |-> NoManifest, flushed |-> TRUE]

(* What a power loss may make of an entry: unflushed contents may tear.    *)
Survivors(e) == IF e.flushed THEN {e} ELSE {[e EXCEPT !.flushed = TRUE], Torn}

NoJob == [kind |-> "none", todo |-> <<>>, manifest |-> NoManifest]

-----------------------------------------------------------------------------
(* platform.rs: operations on the directory.                               *)

PutEntry(n, e) ==
  /\ dir' = [dir EXCEPT ![n] = e]
  /\ past' = [past EXCEPT ![n] = @ \cup {e}]

(* sync_file: the contents are flushed whatever names the file has.        *)
FlushEntry(n) ==
  LET flush(e) == IF e = dir[n] THEN [e EXCEPT !.flushed = TRUE] ELSE e
  IN /\ dir' = [dir EXCEPT ![n].flushed = TRUE]
     /\ past' = [past EXCEPT ![n] = {flush(e) : e \in @}]

Rename(a, b) ==
  /\ dir' = [dir EXCEPT ![a] = Absent, ![b] = dir[a]]
  /\ past' = [past EXCEPT ![a] = @ \cup {Absent}, ![b] = @ \cup {dir[a]}]

SyncDirectory ==
  /\ past' = [n \in Names |-> {dir[n]}]
  /\ UNCHANGED dir

-----------------------------------------------------------------------------
(* Reading the directory.                                                  *)

IsFile(e) == e # Absent

(* A page file holds the manifest's prefix and the root its checkpoint.    *)
CompletePages(m, content) ==
  /\ m.page_count <= Len(content)
  /\ m.root \in 1 .. m.page_count
  /\ content[m.root] = m.checkpoint_sequence

(* open_directory: CURRENT, the manifest it names, and the page file.      *)
Openable(attaching) ==
  /\ attaching \/ ~IsFile(dir[ATTACH_REQUIRED])
  /\ IsFile(dir[CURRENT]) /\ dir[CURRENT] # Torn
  /\ LET current == dir[CURRENT].body
         m == current
     IN /\ dir[ManifestFile(m.generation)].body = current
        /\ IsFile(dir[PagesFile(m.page_file_id)])
        /\ CompletePages(m, pages[m.page_file_id])

(* next_generation: skip the manifests that interrupted publications left. *)
NextGeneration(g) ==
  IF \A h \in g + 1 .. MaxGeneration : IsFile(dir[ManifestFile(h)])
    THEN MaxGeneration + 1
    ELSE Min({h \in g + 1 .. MaxGeneration : ~IsFile(dir[ManifestFile(h)])})

(* allocate: the first page file id from f on whose name is free.          *)
Allocate(f) ==
  IF \A h \in f .. MaxFile : IsFile(dir[PagesFile(h)])
    THEN MaxFile + 1
    ELSE Min({h \in f .. MaxFile : ~IsFile(dir[PagesFile(h)])})

-----------------------------------------------------------------------------
(* The steps of publish_files, and of the operations that end in it.       *)

(* Mutant: pages already written are taken to be flushed.                  *)
SkipPages(reuse, new_pages, new_files) ==
  <<"write_manifest", "flush_manifest", "rename_manifest", "sync_directory",
    "write_current", "flush_current", "rename_current", "sync_directory">>

PublishFiles(reuse, new_pages, new_files) ==
  (IF ~reuse \/ new_pages THEN <<"sync_pages">> ELSE <<>>)
    \o (IF ~reuse \/ new_files THEN <<"sync_directory">> ELSE <<>>)
    \o <<"write_manifest", "flush_manifest", "rename_manifest", "sync_directory",
         "write_current", "flush_current", "rename_current", "sync_directory">>

Role(read_only) == IF read_only THEN <<"write_role">> ELSE <<"remove_role">>

(* Mutant: the marker goes before the role is recorded.                    *)
UnmarkFirst(read_only) ==
  <<"write_marker", "sync_directory">> \o PublishFiles(FALSE, FALSE, FALSE)
    \o <<"remove_marker", "sync_directory">> \o Role(read_only) \o <<"sync_directory">>

(* backup::attach, after open_directory: the marker goes last.             *)
AttachSteps(read_only) ==
  <<"write_marker", "sync_directory">> \o PublishFiles(FALSE, FALSE, FALSE)
    \o Role(read_only) \o <<"sync_directory", "remove_marker", "sync_directory">>

(* backup::copy into a fresh directory: the marker comes first.            *)
CopySteps ==
  <<"write_marker", "sync_directory", "copy_pages", "sync_pages",
    "copy_manifest", "flush_manifest_file", "sync_directory",
    "write_current", "flush_current", "rename_current", "sync_directory">>

Start(kind, todo, m) == job' = [kind |-> kind, todo |-> todo, manifest |-> m]

-----------------------------------------------------------------------------
Init ==
  /\ scenario \in Scenarios
  /\ dir = [n \in Names |-> Absent]
  /\ past = [n \in Names |-> {Absent}]
  /\ pages = [f \in 1 .. MaxFile |-> <<>>]
  /\ synced = [f \in 1 .. MaxFile |-> 0]
  /\ logged \in IF Copied THEN 0 .. MaxSequence ELSE {0}
  /\ mode = "new"
  /\ manifest = NoManifest /\ root = 0 /\ poisoned = FALSE
  /\ job = NoJob
  /\ pins = {}
  /\ acked = NoManifest
  /\ roles = <<>>
  /\ failures = 0

(* store::create: page zero and the policy root, then the first manifest.  *)
Create ==
  LET m == Manifest(1, 1, 1, 0, 1, 0)
  IN /\ mode = "new" /\ ~Copied
     /\ PutEntry(PagesFile(1), Mark("pages"))
     /\ pages' = [pages EXCEPT ![1] = <<0>>]
     /\ manifest' = m /\ root' = 1
     /\ mode' = "creating"
     /\ Start("create", PublishFiles(FALSE, FALSE, FALSE), m)
     /\ UNCHANGED <<synced, logged, poisoned, pins, acked, roles, failures>>

(* backup::copy of an image that was captured at some sequence.            *)
Copy ==
  LET m == Manifest(1, 1, 1, logged, 1, 0)
  IN /\ mode = "new" /\ Copied
     /\ manifest' = m /\ root' = 1
     /\ mode' = "creating"
     /\ Start("copy", CopySteps, m)
     /\ UNCHANGED <<directory, files, logged, poisoned, pins, acked, roles, failures>>

(* open_directory and the tail truncation that follows.  The rest of the   *)
(* log is replayed by Apply before the store serves.                       *)
Open ==
  LET m == dir[CURRENT].body
      f == m.page_file_id
  IN /\ mode = "down"
     /\ Openable(FALSE)
     /\ manifest' = m /\ root' = m.root /\ poisoned' = FALSE
     /\ pages' = [pages EXCEPT ![f] = SubSeq(@, 1, m.page_count)]
     /\ synced' = [synced EXCEPT ![f] = Min({@, m.page_count})]
     /\ mode' = "recovering"
     /\ UNCHANGED <<directory, logged, job, pins, acked, roles, failures>>

(* attach: the same checks but for the marker, a random namespace, then    *)
(* the attachment's steps.                                                 *)
Attach(read_only) ==
  LET m == dir[CURRENT].body
      f == m.page_file_id
      next == [m EXCEPT !.generation = NextGeneration(m.generation),
                        !.namespace = Len(roles) + 1]
  IN /\ mode = "down" /\ Copied
     /\ Openable(TRUE)
     /\ Len(roles) < MaxAttaches /\ next.generation <= MaxGeneration
     /\ manifest' = m /\ root' = m.root /\ poisoned' = FALSE
     /\ pages' = [pages EXCEPT ![f] = SubSeq(@, 1, m.page_count)]
     /\ synced' = [synced EXCEPT ![f] = Min({@, m.page_count})]
     /\ mode' = "recovering"
     /\ roles' = Append(roles, read_only)
     /\ Start("attach", AttachSteps(read_only), next)
     /\ UNCHANGED <<directory, logged, pins, acked, failures>>

Idle == job = NoJob /\ ~poisoned

(* append_wal: the durable frontier moves without a publication.           *)
AppendWal ==
  /\ mode = "serving" /\ Idle
  /\ logged < MaxSequence
  /\ logged' = logged + 1
  /\ UNCHANGED <<directory, files, mode, store, job, pins, acked, roles, failures>>

AppendPage(f, s) == pages' = [pages EXCEPT ![f] = Append(@, s)]

LiveSequence == pages[manifest.page_file_id][root]

(* store::apply: the next record's batch on the latest roots.              *)
Apply ==
  LET f == manifest.page_file_id
  IN /\ mode \in {"recovering", "serving"} /\ Idle
     /\ LiveSequence < logged /\ Len(pages[f]) < MaxPages
     /\ AppendPage(f, LiveSequence + 1)
     /\ root' = Len(pages[f]) + 1
     /\ UNCHANGED <<directory, synced, logged, mode, manifest, poisoned, job,
                    pins, acked, roles, failures>>

(* enable_runtime_cache, once recovery has replayed and published.         *)
EnableCache ==
  /\ mode = "recovering" /\ Idle
  /\ manifest.checkpoint_sequence = logged
  /\ mode' = "serving"
  /\ UNCHANGED <<directory, files, logged, store, job, pins, acked, roles, failures>>

(* publish: reusing the selected roots needs only their flushed prefix.    *)
PageCount(r, f) ==
  IF mode = "serving" /\ r = manifest.root THEN manifest.page_count ELSE Len(pages[f])

Reuse == mode = "serving"

(* prepare_checkpoint and publish.  A checkpoint below the live state gets *)
(* a root of its own; publication of the selected roots keeps them.        *)
Publish(s) ==
  LET f == manifest.page_file_id
      own == s # LiveSequence /\ s # manifest.checkpoint_sequence
      r == IF own THEN Len(pages[f]) + 1
           ELSE IF s = LiveSequence THEN root ELSE manifest.root
      count == IF own THEN Len(pages[f]) + 1 ELSE PageCount(r, f)
      m == [manifest EXCEPT !.generation = NextGeneration(manifest.generation),
              !.page_count = count, !.checkpoint_sequence = s, !.root = r]
  IN /\ mode \in {"recovering", "serving"} /\ Idle
     /\ s \in manifest.checkpoint_sequence .. LiveSequence
     /\ mode = "recovering" => s = logged /\ s # manifest.checkpoint_sequence
     /\ m.generation <= MaxGeneration /\ count <= MaxPages
     /\ IF own THEN AppendPage(f, s) ELSE UNCHANGED pages
     /\ Start("publish", PublishFiles(Reuse, count # manifest.page_count, FALSE), m)
     /\ UNCHANGED <<directory, synced, logged, mode, store, pins, acked, roles, failures>>

(* maintenance::prepare and adopt, from a drained checkpoint: a compacted  *)
(* copy of the trees in a new page file, or the file there is, to which a  *)
(* collection that removed something has appended its roots.  What a       *)
(* collection appends before a compaction is left behind with the old file. *)
Adopt(compact, collected) ==
  LET f == IF compact THEN Allocate(manifest.page_file_id + 1)
           ELSE manifest.page_file_id
      count == IF compact THEN 1 ELSE IF collected THEN Len(pages[f]) + 1 ELSE Len(pages[f])
      m == Manifest(NextGeneration(manifest.generation), f, count,
                    manifest.checkpoint_sequence,
                    IF compact THEN 1 ELSE IF collected THEN count ELSE root,
                    manifest.namespace)
  IN /\ mode = "serving" /\ Idle
     /\ LiveSequence = logged /\ manifest.checkpoint_sequence = logged
     /\ f <= MaxFile /\ m.generation <= MaxGeneration /\ count <= MaxPages
     /\ collected => Collects /\ logged > 0
     /\ IF compact
          THEN /\ PutEntry(PagesFile(f), Mark("pages"))
               /\ pages' = [pages EXCEPT ![f] = <<logged>>]
               /\ synced' = [synced EXCEPT ![f] = 0]
          ELSE /\ IF collected THEN AppendPage(f, logged) ELSE UNCHANGED pages
               /\ UNCHANGED <<directory, synced>>
     /\ Start("adopt",
              (IF compact THEN <<"sync_new_pages">> ELSE <<>>)
                \o PublishFiles(TRUE, compact \/ m.page_count # manifest.page_count,
                                compact)
                \o <<"reclaim">>, m)
     /\ UNCHANGED <<logged, mode, store, pins, acked, roles, failures>>

(* view and backup::capture: share the lease, which pins every file.       *)
Pin ==
  /\ mode = "serving" /\ Cardinality(pins) < MaxPins
  /\ pins' = pins \cup {manifest}
  /\ UNCHANGED <<directory, files, logged, mode, store, job, acked, roles, failures>>

(* The view is dropped, or the backup worker has copied its image.         *)
Unpin(m) ==
  /\ m \in pins
  /\ pins' = pins \ {m}
  /\ UNCHANGED <<directory, files, logged, mode, store, job, acked, roles, failures>>

-----------------------------------------------------------------------------
(* One step of the job in progress.                                        *)

(* Mutant: the lease's other owners are not counted.                       *)
ObsoleteAnyway(n) ==
  /\ IsFile(dir[n])
  /\ \/ \E f \in 1 .. MaxFile : n = PagesFile(f) /\ f # manifest.page_file_id
     \/ \E g \in 1 .. MaxGeneration : n = ManifestFile(g) /\ g # manifest.generation

(* reclaim: the files a selected manifest does not name, unless a lease is *)
(* shared.                                                                 *)
Obsolete(n) ==
  /\ pins = {}
  /\ IsFile(dir[n])
  /\ \/ \E f \in 1 .. MaxFile : n = PagesFile(f) /\ f # manifest.page_file_id
     \/ \E g \in 1 .. MaxGeneration : n = ManifestFile(g) /\ g # manifest.generation

(* What the store holds once its publication has returned.                 *)
Adopted(m) ==
  /\ manifest' = m
  /\ root' = IF job.kind = "adopt" THEN m.root ELSE root
  /\ acked' = m

Selecting == job.todo = <<"sync_directory">> \/ job.todo = <<"sync_directory", "reclaim">>

(* The steps that flush a page file.                                       *)
SyncPages(f) == synced' = [synced EXCEPT ![f] = Len(pages[f])]

Unlink(n) == PutEntry(n, Absent)

DirectoryStep(step) ==
  LET m == job.manifest
  IN \/ step = "sync_directory" /\ SyncDirectory
     \/ step = "write_manifest" /\ PutEntry(manifest_pending, Written(m))
     \/ step = "flush_manifest" /\ FlushEntry(manifest_pending)
     \/ /\ step = "rename_manifest"
        /\ ~IsFile(dir[ManifestFile(m.generation)])
        /\ Rename(manifest_pending, ManifestFile(m.generation))
     \/ step = "copy_manifest" /\ PutEntry(ManifestFile(m.generation), Written(m))
     \/ step = "flush_manifest_file" /\ FlushEntry(ManifestFile(m.generation))
     \/ step = "write_current" /\ PutEntry(CURRENT_pending, Written(m))
     \/ step = "flush_current" /\ FlushEntry(CURRENT_pending)
     \/ step = "rename_current" /\ Rename(CURRENT_pending, CURRENT)
     \/ step = "write_marker" /\ PutEntry(ATTACH_REQUIRED, Mark("marker"))
     \/ step = "write_role" /\ PutEntry(READ_ONLY, Mark("role"))
     \/ step = "remove_role" /\ Unlink(READ_ONLY)
     \/ step = "remove_marker" /\ Unlink(ATTACH_REQUIRED)

(* One of the steps on the directory that neither begins nor ends a job.   *)
JobDirectory ==
  /\ Len(job.todo) > 1 /\ ~Selecting /\ ~poisoned
  /\ DirectoryStep(Head(job.todo))
  /\ job' = [job EXCEPT !.todo = Tail(@)]
  /\ UNCHANGED <<files, logged, mode, store, pins, acked, roles, failures>>

(* A page file is written or flushed.                                      *)
JobPages ==
  /\ job.todo # <<>> /\ ~poisoned
  /\ \/ /\ Head(job.todo) = "sync_pages"
        /\ SyncPages(manifest.page_file_id)
        /\ UNCHANGED <<directory, pages>>
     \/ /\ Head(job.todo) = "sync_new_pages"
        /\ SyncPages(job.manifest.page_file_id)
        /\ UNCHANGED <<directory, pages>>
     \/ /\ Head(job.todo) = "copy_pages"
        /\ PutEntry(PagesFile(1), Mark("pages"))
        /\ pages' = [pages EXCEPT ![1] = <<logged>>]
        /\ UNCHANGED synced
  /\ job' = [job EXCEPT !.todo = Tail(@)]
  /\ UNCHANGED <<logged, mode, store, pins, acked, roles, failures>>

(* The last flush of the directory: the publication returns.  A creation   *)
(* leaves a store with nothing to replay, an attachment one to recover.    *)
JobReturns ==
  /\ job.kind # "none" /\ ~poisoned
  /\ Selecting \/ (Len(job.todo) = 1 /\ job.todo # <<"reclaim">>)
  /\ DirectoryStep(Head(job.todo))
  /\ Adopted(job.manifest)
  /\ job' = IF Tail(job.todo) = <<>> THEN NoJob ELSE [job EXCEPT !.todo = Tail(@)]
  /\ mode' = CASE job.kind = "create" -> "serving"
               [] job.kind = "copy" -> "down"
               [] OTHER -> mode
  /\ UNCHANGED <<files, logged, poisoned, pins, roles, failures>>

(* reclaim deletes one file after another, then flushes the directory.     *)
JobReclaims ==
  /\ job.todo = <<"reclaim">> /\ ~poisoned
  /\ \E n \in Names : Obsolete(n) /\ Unlink(n)
  /\ UNCHANGED <<files, logged, mode, store, job, pins, acked, roles, failures>>

JobReclaimed ==
  /\ job.todo = <<"reclaim">> /\ ~poisoned
  /\ \A n \in Names : ~Obsolete(n)
  /\ SyncDirectory
  /\ job' = NoJob
  /\ UNCHANGED <<files, logged, mode, store, pins, acked, roles, failures>>

-----------------------------------------------------------------------------
(* Faults.                                                                 *)

Stopped ==
  /\ mode' = "down"
  /\ manifest' = NoManifest /\ root' = 0 /\ poisoned' = FALSE
  /\ job' = NoJob /\ pins' = {}

(* A step reports an error, before or after it took effect: a creation or  *)
(* an attachment gives up, a store is poisoned until it is reopened.       *)
Fail ==
  /\ failures < MaxFailures /\ job # NoJob
  /\ IF mode = "serving" \/ job.kind = "publish"
       THEN /\ poisoned' = TRUE
            /\ job' = NoJob
            /\ UNCHANGED <<mode, manifest, root, pins>>
       ELSE Stopped
  /\ failures' = failures + 1
  /\ UNCHANGED <<directory, files, logged, acked, roles>>

(* The owner drops the store; a shared lease would keep the lock.          *)
Close ==
  /\ mode \in {"recovering", "serving"} /\ job = NoJob /\ pins = {}
  /\ Stopped
  /\ UNCHANGED <<directory, files, logged, acked, roles, failures>>

Crash ==
  /\ mode \in {"creating", "recovering", "serving"}
  /\ failures < MaxFailures
  /\ Stopped
  /\ failures' = failures + 1
  /\ UNCHANGED <<directory, files, logged, acked, roles>>

(* The values an entry may have after a power loss now.                    *)
OnDisk(n) == UNION {Survivors(e) : e \in past[n]}

(* The directories a power loss may leave: for every entry, one of those.  *)
Unsettled == {n \in Names : OnDisk(n) # {dir[n]}}
Left(S) ==
  LET values == [n \in S |-> OnDisk(n)]
  IN {d \in [S -> UNION {values[n] : n \in S}] : \A n \in S : d[n] \in values[n]}
AfterPowerLoss ==
  LET selecting == Unsettled \cap {CURRENT, CURRENT_pending, manifest_pending}
  IN {[n \in Names |-> IF n \in selecting THEN a[n]
                       ELSE IF n \in Unsettled THEN b[n] ELSE dir[n]] :
        a \in Left(selecting), b \in Left(Unsettled \ selecting)}

(* Pages beyond the flushed ones are gone.                                 *)
PowerLoss ==
  /\ mode # "new" /\ failures < MaxFailures
  /\ \E d \in AfterPowerLoss :
       dir' = d /\ past' = [n \in Names |-> {d[n]}]
  /\ pages' = [f \in 1 .. MaxFile |-> SubSeq(pages[f], 1, synced[f])]
  /\ Stopped
  /\ failures' = failures + 1
  /\ UNCHANGED <<synced, logged, acked, roles>>

Step ==
  \/ Create \/ Copy \/ Open \/ AppendWal \/ Apply \/ EnableCache
  \/ \E s \in 0 .. MaxSequence : Publish(s)
  \/ \E read_only \in BOOLEAN : Attach(read_only)
  \/ \E compact, collected \in BOOLEAN : Adopt(compact, collected)
  \/ Pin \/ \E m \in pins : Unpin(m)
  \/ JobDirectory \/ JobPages \/ JobReturns \/ JobReclaims \/ JobReclaimed
  \/ Fail \/ Close \/ Crash \/ PowerLoss

Next == Step /\ UNCHANGED scenario

Spec == Init /\ [][Next]_vars

-----------------------------------------------------------------------------
(* Properties.                                                             *)

(* Whatever step of a publication, a handover, a reclamation or an         *)
(* attachment the power fails in, CURRENT names a manifest that exists and *)
(* whose page file holds its whole prefix and the state of its checkpoint, *)
(* and not an older one than the last that was reported (publish_files,    *)
(* adopt, reclaim).                                                        *)
SelectionIsComplete ==
  acked # NoManifest =>
    \A c \in OnDisk(CURRENT) :
      /\ IsFile(c) /\ c # Torn
      /\ \A e \in OnDisk(ManifestFile(c.body.generation)) : e.body = c.body
      /\ \A e \in OnDisk(PagesFile(c.body.page_file_id)) : IsFile(e)
      /\ CompletePages(c.body, SubSeq(pages[c.body.page_file_id], 1,
                                      synced[c.body.page_file_id]))
      /\ c.body.generation >= acked.generation
      /\ c.body.checkpoint_sequence >= acked.checkpoint_sequence

(* A copy without its marker is attached: it has a namespace of its own    *)
(* and the role that was asked for with that namespace, whenever the       *)
(* attachment is interrupted (backup::attach).                             *)
AttachedOrMarked ==
  Absent \in OnDisk(ATTACH_REQUIRED) =>
    \A c \in OnDisk(CURRENT) : IsFile(c) /\ Copied =>
      /\ c.body.namespace # 0
      /\ \A e \in OnDisk(READ_ONLY) : IsFile(e) = roles[c.body.namespace]

(* The page file under a view or a backup image stays in the directory and *)
(* keeps its prefix while the lease is shared (reclaim).                   *)
PinnedFilesStay ==
  \A m \in pins :
    /\ IsFile(dir[PagesFile(m.page_file_id)])
    /\ CompletePages(m, pages[m.page_file_id])
=============================================================================
