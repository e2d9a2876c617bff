--------------------------- MODULE CheckpointReuse ---------------------------
(***************************************************************************)
(* Reuse of validation results by the live owner of a store: the proofs    *)
(* and the bounded index of edits above the checkpoint that                *)
(* storage/checkpoint.rs maintains across apply, prepare_checkpoint,       *)
(* publish and adopt of storage/store.rs.                                  *)
(*                                                                         *)
(* A tree is a function from keys to values.  A key is the sequence it     *)
(* decodes to, or BadKey when entry_sequence refuses it; a value is good   *)
(* or bad.  A good value of the policy key 0 is the genesis policy.  Root  *)
(* identities are never reused, whatever the tree under them holds.        *)
(***************************************************************************)
EXTENDS Naturals, FiniteSets, FiniteSetsExt, Functions

CONSTANTS
  MaxSequence,    \* bound: sequences 1 .. MaxSequence
  PENDING,        \* edits above the checkpoint that fit the index
  MaxEdits        \* bound: edits that change a tree

Trees == {"state", "policy"}
BadKey == MaxSequence + 1
EntryKeys == 0 .. BadKey

VARIABLES
  nextRoot,    \* root identities handed out
  roots,       \* tree -> [id, content]: the live roots
  manifest,    \* [checkpoint, roots]: the checkpoint the owner works from
  current,     \* [checkpoint, roots]: the manifest CURRENT names
  live,        \* tree -> proof of the live root
  published,   \* tree -> proof of the manifest's root
  pending,     \* [known, keys]: edits above the checkpoint
  runtime,     \* the live database owns the store
  poisoned,
  view         \* the last prepared checkpoint: [roots, proofs, sequence, content]

reuseVars == <<nextRoot, roots, manifest, current, live, published, pending, runtime,
               poisoned, view>>

NoProof == [root |-> 0, sequence |-> 0]
NoProofs == [t \in Trees |-> NoProof]
Unknown == [known |-> FALSE, keys |-> {}]
Nothing == [known |-> TRUE, keys |-> {}]

Decodes(t, k) == k # BadKey /\ (t = "state" => k # 0)

-----------------------------------------------------------------------------
(* Validation of a whole tree against a checkpoint sequence.               *)

EntrySequences(content) == DOMAIN content
Maximum(content) == Max(EntrySequences(content) \cup {0})

ValidTree(t, content, sequence) ==
  /\ \A k \in DOMAIN content : Decodes(t, k) /\ k <= sequence /\ content[k] = "good"
  /\ t = "policy" => 0 \in DOMAIN content

(* Mutant: the proof's maximum is not compared with the checkpoint.        *)
ProvenRoot(proof, root, sequence) == proof # NoProof /\ proof.root = root.id

(* A proof for the root spares the scan when its maximum is low enough.    *)
Proven(proof, root, sequence) ==
  proof # NoProof /\ proof.root = root.id /\ proof.sequence <= sequence

(* validate: the proofs of a root set, each reused or established.         *)
Validates(all, sequence, proofs) ==
  \A t \in Trees : Proven(proofs[t], all[t], sequence)
                     \/ ValidTree(t, all[t].content, sequence)

ValidatedProofs(all, sequence, proofs) ==
  [t \in Trees |->
     IF Proven(proofs[t], all[t], sequence) THEN proofs[t]
     ELSE [root |-> all[t].id, sequence |-> Maximum(all[t].content)]]

-----------------------------------------------------------------------------
(* observe, for a change of key k of tree t.  "none" deletes.              *)

ValidChange(t, k, v) ==
  /\ Decodes(t, k) /\ v # "bad"
  /\ ~(t = "policy" /\ k = 0 /\ v # "good")

(* A proof of another root is dropped; a good entry raises the maximum.    *)
ObservedProof(t, k, v, proof, previous, root) ==
  IF proof = NoProof \/ proof.root # previous \/ ~ValidChange(t, k, v) THEN NoProof
  ELSE [root |-> root, sequence |-> IF v # "none" /\ k > proof.sequence THEN k
                                    ELSE proof.sequence]

ObservedPending(t, k, v) ==
  LET rest == pending.keys \ {<<t, k>>}
  IN IF ~pending.known \/ ~Decodes(t, k) THEN Unknown
     ELSE IF v = "none" \/ k <= manifest.checkpoint THEN [known |-> TRUE, keys |-> rest]
     ELSE IF Cardinality(rest) = PENDING THEN Unknown
     ELSE [known |-> TRUE, keys |-> rest \cup {<<t, k>>}]

-----------------------------------------------------------------------------
NewRoot(id, content) == [id |-> id, content |-> content]
Put(content, k, v) == [x \in DOMAIN content \cup {k} |-> IF x = k THEN v ELSE content[x]]
Delete(content, keys) == Restrict(content, DOMAIN content \ keys)

NoView == [roots |-> [t \in Trees |-> NewRoot(0, <<>>)], proofs |-> NoProofs,
           sequence |-> 0, from |-> [t \in Trees |-> <<>>], some |-> FALSE]

ReuseInit ==
  LET first == [t \in Trees |-> IF t = "policy" THEN NewRoot(1, [k \in {0} |-> "good"])
                                ELSE NewRoot(2, <<>>)]
  IN /\ nextRoot = 3
     /\ roots = first
     /\ manifest = [checkpoint |-> 0, roots |-> first] /\ current = manifest
     /\ live = NoProofs /\ published = NoProofs /\ pending = Unknown
     /\ runtime = FALSE /\ poisoned = FALSE /\ view = NoView

(* enable_runtime_cache.                                                   *)
Enable ==
  /\ ~runtime
  /\ runtime' = TRUE
  /\ pending' = IF \A t \in Trees : roots[t].id = manifest.roots[t].id THEN Nothing
                ELSE Unknown
  /\ live' = NoProofs /\ published' = NoProofs
  /\ UNCHANGED <<nextRoot, roots, manifest, current, poisoned, view>>

(* apply with one change; a batch observes its changes one by one.         *)
Apply(t, k, v) ==
  LET old == roots[t].content
      changes == v # "none" \/ k \in DOMAIN old
      new == IF v = "none" THEN Delete(old, {k}) ELSE Put(old, k, v)
      id == IF changes THEN nextRoot ELSE roots[t].id
  IN /\ ~poisoned /\ nextRoot < 3 + MaxEdits
     /\ roots' = [roots EXCEPT ![t] = NewRoot(id, new)]
     /\ nextRoot' = IF changes THEN nextRoot + 1 ELSE nextRoot
     /\ live' = IF ~runtime THEN live
                ELSE [u \in Trees |->
                        IF u = t THEN ObservedProof(t, k, v, live[t], roots[t].id, id)
                        ELSE IF live[u].root = roots[u].id THEN live[u] ELSE NoProof]
     /\ pending' = IF runtime THEN ObservedPending(t, k, v) ELSE pending
     /\ UNCHANGED <<manifest, current, published, runtime, poisoned, view>>

(* Remove the keys above the sequence from each tree; a tree without any   *)
(* keeps its root.                                                         *)
Filtered(above) ==
  [t \in Trees |->
     IF above[t] \cap DOMAIN roots[t].content = {} THEN roots[t]
     ELSE NewRoot(nextRoot + (IF t = "state" THEN 0 ELSE 1),
                  Delete(roots[t].content, above[t]))]

(* prepare_checkpoint: from the index when every live root is proven, else *)
(* by a scan, which ends with an error at a key that does not decode.      *)
PrepareCheckpoint(sequence) ==
  LET fast == /\ runtime /\ pending.known
              /\ \A t \in Trees : live[t] # NoProof /\ live[t].root = roots[t].id
      indexed == [t \in Trees |-> {k \in EntryKeys : <<t, k>> \in pending.keys /\ k > sequence}]
      scanned == [t \in Trees |-> {k \in DOMAIN roots[t].content : k > sequence}]
      new == Filtered(IF fast THEN indexed ELSE scanned)
  IN /\ ~poisoned /\ sequence >= manifest.checkpoint
     /\ fast \/ \A t \in Trees : \A k \in DOMAIN roots[t].content : Decodes(t, k)
     /\ view' = [roots |-> new, sequence |-> sequence, some |-> TRUE,
                 from |-> [t \in Trees |-> roots[t].content],
                 proofs |-> IF fast
                              THEN [t \in Trees |->
                                      [root |-> new[t].id,
                                       sequence |-> IF live[t].sequence < sequence
                                                      THEN live[t].sequence ELSE sequence]]
                              ELSE IF runtime THEN live ELSE NoProofs]
     /\ nextRoot' = nextRoot + 2
     /\ UNCHANGED <<roots, manifest, current, live, published, pending, runtime, poisoned>>

(* published: the proofs the live owner keeps after a publication.         *)
AfterPublication(all, sequence, proofs) ==
  LET same(t) == roots[t].id = all[t].id
  IN /\ published' = proofs
     /\ live' = [t \in Trees |-> IF same(t) THEN proofs[t] ELSE live[t]]
     /\ pending' = IF pending.known
                     THEN [known |-> TRUE, keys |-> {p \in pending.keys : p[2] > sequence}]
                     ELSE IF \A t \in Trees : same(t) THEN Nothing ELSE Unknown

(* publish_files: the last of its steps rename CURRENT and flush the       *)
(* directory.  An error before the rename leaves the old manifest named,   *)
(* one after it the new; either way the owner is poisoned and keeps the    *)
(* manifest it had.                                                        *)
PublishFilesFail(new) ==
  /\ poisoned' = TRUE
  /\ current' \in {current, new}

(* publish: the roots of a view and the proofs that come with it.  A view  *)
(* that fails validation changes nothing; an I/O error poisons the store.  *)
Publish(all, sequence, proofs) ==
  LET given == IF runtime THEN proofs ELSE NoProofs
      new == [checkpoint |-> sequence, roots |-> all]
  IN /\ ~poisoned /\ sequence >= manifest.checkpoint
     /\ Validates(all, sequence, given)
     /\ \/ /\ manifest' = new /\ current' = new
           /\ IF runtime
                THEN AfterPublication(all, sequence, ValidatedProofs(all, sequence, given))
                ELSE UNCHANGED <<live, published, pending>>
           /\ UNCHANGED poisoned
        \/ /\ PublishFilesFail(new)
           /\ UNCHANGED <<manifest, live, published, pending>>
     /\ UNCHANGED <<nextRoot, roots, runtime, view>>

(* The views a caller can publish: prepared, checkpoint_view and view.     *)
PublishPrepared(sequence) == view.some /\ Publish(view.roots, sequence, view.proofs)
PublishCheckpointView(sequence) == Publish(manifest.roots, sequence, published)
PublishLive(sequence) == Publish(roots, sequence, live)

(* The roots of a handover: collection has removed entries of the state    *)
(* tree, never of the policy; a compaction copies both trees to a new      *)
(* file, and otherwise a tree without a removal keeps its root.            *)
Collected(compact, removed) ==
  LET gone(t) == IF t = "state" THEN removed ELSE {}
  IN [t \in Trees |->
        IF ~compact /\ gone(t) = {} THEN roots[t]
        ELSE NewRoot(nextRoot + (IF t = "state" THEN 0 ELSE 1),
                     Delete(roots[t].content, gone(t)))]

(* adopt: the roots of a handover, validated from nothing; all proofs go.  *)
(* Views of a file that was replaced can no longer be published, those of  *)
(* a file that stays can.                                                  *)
Adopt(compact, removed) ==
  LET all == Collected(compact, removed)
      new == [checkpoint |-> manifest.checkpoint, roots |-> all]
  IN /\ ~poisoned
     /\ Validates(all, manifest.checkpoint, NoProofs)
     /\ nextRoot' = nextRoot + 2
     /\ \/ /\ manifest' = new /\ current' = new /\ roots' = all
           /\ live' = NoProofs /\ published' = NoProofs
           /\ pending' = IF runtime THEN Nothing ELSE pending
           /\ view' = IF compact THEN NoView ELSE view
           /\ UNCHANGED poisoned
        \/ /\ PublishFilesFail(new)
           /\ UNCHANGED <<roots, manifest, live, published, pending, view>>
     /\ UNCHANGED runtime

(* The process ends and the directory is opened again at the checkpoint    *)
(* CURRENT names.                                                          *)
Reopen ==
  /\ Validates(current.roots, current.checkpoint, NoProofs)
  /\ roots' = current.roots /\ manifest' = current
  /\ live' = NoProofs /\ published' = NoProofs /\ pending' = Unknown
  /\ runtime' = FALSE /\ poisoned' = FALSE /\ view' = NoView
  /\ UNCHANGED <<nextRoot, current>>

ReuseNext ==
  \/ Enable
  \/ \E t \in Trees, k \in EntryKeys, v \in {"good", "bad", "none"} : Apply(t, k, v)
  \/ \E s \in 0 .. MaxSequence :
       \/ nextRoot < 3 + MaxEdits /\ PrepareCheckpoint(s)
       \/ PublishPrepared(s)
       \/ PublishCheckpointView(s)
       \/ PublishLive(s)
  \/ \E compact \in BOOLEAN, removed \in SUBSET DOMAIN roots["state"].content :
       nextRoot < 3 + MaxEdits /\ Adopt(compact, removed)
  \/ Reopen

ReuseSpec == ReuseInit /\ [][ReuseNext]_reuseVars

-----------------------------------------------------------------------------
(* Properties.                                                             *)

ProofHolds(t, proof, root) ==
  proof # NoProof /\ proof.root = root.id => ValidTree(t, root.content, proof.sequence)

(* A proof that can be used says the truth: the tree under the root it     *)
(* names passes full validation at its maximum, whatever edits, checkpoints *)
(* and publications it was inherited through.                              *)
ProofsAreTrue ==
  \A t \in Trees :
    /\ ProofHolds(t, live[t], roots[t])
    /\ ProofHolds(t, published[t], manifest.roots[t])
    /\ ProofHolds(t, view.proofs[t], view.roots[t])

(* The index of edits above the checkpoint is complete while it is known,  *)
(* its overflow at the byte bound included.                                *)
PendingIsExact ==
  pending.known =>
    pending.keys = {p \in Trees \X EntryKeys :
                      p[2] \in DOMAIN roots[p[1]].content /\ p[2] > manifest.checkpoint}

(* The fast path prepares what the scan would: every entry of the live     *)
(* roots up to the sequence and none above it.                             *)
PreparedIsFiltered ==
  view.some =>
    \A t \in Trees :
      view.roots[t].content =
        Restrict(view.from[t], {k \in DOMAIN view.from[t] : k <= view.sequence})

(* What the owner keeps is right: the checkpoint it works from, and the    *)
(* shortcuts through which it publishes the next one.                      *)
OwnerIsRight ==
  /\ \A t \in Trees : ValidTree(t, manifest.roots[t].content, manifest.checkpoint)
  /\ ProofsAreTrue /\ PendingIsExact /\ PreparedIsFiltered

(* The checkpoint that CURRENT names, after a publication that failed too, *)
(* is always one that a full scan accepts, so reopening, which trusts no   *)
(* proof, never refuses what was published; and the shortcuts it was       *)
(* published through are exact: the proofs, the index of edits and the     *)
(* checkpoint prepared from them.                                          *)
PublishedIsValid ==
  /\ \A t \in Trees : ValidTree(t, current.roots[t].content, current.checkpoint)
  /\ OwnerIsRight
=============================================================================
