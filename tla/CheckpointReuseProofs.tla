------------------------ MODULE CheckpointReuseProofs ------------------------
(***************************************************************************)
(* Why a publication may skip validation: for every number of sequences,   *)
(* every size of the index and every sequence of edits, checkpoints and    *)
(* publications, a proof that can be used tells the truth about the tree   *)
(* it names, and the index of edits is complete while it is known.         *)
(***************************************************************************)
EXTENDS CheckpointReuse, Sums

-----------------------------------------------------------------------------
(* The inductive invariant.                                                *)

(* A tree: some of the keys, each with a value.                            *)
IsContent(c) == c = [k \in DOMAIN c |-> c[k]] /\ DOMAIN c \subseteq EntryKeys

(* Roots with their identities from 1 to n - 1.                            *)
AreRoots(all, n) ==
  /\ all = [t \in Trees |-> all[t]]
  /\ \A t \in Trees :
       /\ all[t] = NewRoot(all[t].id, all[t].content)
       /\ all[t].id \in 1 .. n - 1 /\ IsContent(all[t].content)

(* Proofs for roots with identities below n, or for none.                  *)
AreProofs(proofs, n) ==
  /\ proofs = [t \in Trees |-> proofs[t]]
  /\ \A t \in Trees : proofs[t].root \in 0 .. n - 1 /\ proofs[t].sequence \in Nat

(* An identity names one tree.                                             *)
Agree(all, other) ==
  \A t \in Trees : all[t].id = other[t].id => all[t].content = other[t].content

(* What the variables hold.                                                *)
ReuseTypeInv ==
  /\ nextRoot \in Nat /\ nextRoot > 2
  /\ AreRoots(roots, nextRoot)
  /\ manifest = [checkpoint |-> manifest.checkpoint, roots |-> manifest.roots]
  /\ manifest.checkpoint \in Nat /\ AreRoots(manifest.roots, nextRoot)
  /\ AreProofs(live, nextRoot) /\ AreProofs(published, nextRoot)
  /\ AreProofs(view.proofs, nextRoot)
  /\ view.some => AreRoots(view.roots, nextRoot)
  /\ pending = [known |-> pending.known, keys |-> pending.keys]
  /\ pending.keys \subseteq Trees \X EntryKeys

(* Identities name trees, only the live owner has proofs, and there is no  *)
(* view that was not prepared.                                             *)
ReuseInv ==
  /\ ReuseTypeInv
  /\ Agree(roots, manifest.roots)
  /\ view.some => Agree(roots, view.roots)
  /\ ~view.some => view = NoView
  /\ ~runtime => live = NoProofs /\ published = NoProofs /\ ~pending.known
  /\ OwnerIsRight

(* What CURRENT names, after a publication that failed too.                *)
CurrentInv ==
  /\ current = [checkpoint |-> current.checkpoint, roots |-> current.roots]
  /\ current.checkpoint \in Nat /\ AreRoots(current.roots, nextRoot)
  /\ \A t \in Trees : ValidTree(t, current.roots[t].content, current.checkpoint)

-----------------------------------------------------------------------------
(* Trees and proofs.                                                       *)

(* Validity at a sequence is validity at every later one.                  *)
LEMMA LaterIsValid ==
  ASSUME MaxSequence \in Nat, NEW t \in Trees, NEW c, IsContent(c), NEW s \in Nat, NEW r \in Nat,
         s <= r, ValidTree(t, c, s)
  PROVE  ValidTree(t, c, r)
<1>1. \A k \in DOMAIN c : k \in Nat
  BY DEF IsContent, EntryKeys, BadKey
<1> QED
  BY <1>1 DEF ValidTree

(* A valid tree is valid at its maximum.                                   *)
LEMMA ValidAtMaximum ==
  ASSUME MaxSequence \in Nat, NEW t \in Trees, NEW c, IsContent(c), NEW s \in Nat,
         ValidTree(t, c, s)
  PROVE  Maximum(c) \in Nat /\ ValidTree(t, c, Maximum(c))
<1> DEFINE S == DOMAIN c \cup {0}
<1>1. S \subseteq 0 .. BadKey /\ BadKey \in Nat
  BY DEF IsContent, EntryKeys, BadKey
<1>2. S \in SUBSET Nat /\ S # {} /\ \A x \in S : x <= BadKey
  BY <1>1
<1>3. \E x \in S : \A y \in S : x >= y
  <2> HIDE DEF S
  <2> QED
    BY <1>1, <1>2, Greatest
<1>4. Max(S) \in S /\ \A y \in S : Max(S) >= y
  BY <1>3 DEF Max
<1>5. Maximum(c) = Max(S)
  BY DEF Maximum, EntrySequences
<1> QED
  BY <1>1, <1>4, <1>5 DEF ValidTree

(* Identities that are in use stay in use.                                 *)
LEMMA RootsStay ==
  ASSUME NEW all, NEW n \in Nat, AreRoots(all, n), NEW m \in Nat, n <= m
  PROVE  AreRoots(all, m)
BY DEF AreRoots

(* Proofs for them stay proofs.                                            *)
LEMMA ProofsStay ==
  ASSUME NEW proofs, NEW n \in Nat, AreProofs(proofs, n), NEW m \in Nat, n <= m
  PROVE  AreProofs(proofs, m)
BY DEF AreProofs

(* Having no proofs is sound.                                              *)
LEMMA NoProofsAreProofs ==
  /\ \A n \in Nat : n > 0 => AreProofs(NoProofs, n)
  /\ \A t \in Trees : NoProofs[t] = NoProof
  /\ \A t \in Trees : \A root : ProofHolds(t, NoProofs[t], root)
BY DEF AreProofs, NoProofs, NoProof, ProofHolds

(* Putting and deleting entries.                                           *)
LEMMA PutIsContent ==
  ASSUME NEW c, IsContent(c), NEW k \in EntryKeys, NEW v
  PROVE  /\ IsContent(Put(c, k, v)) /\ DOMAIN Put(c, k, v) = DOMAIN c \cup {k}
         /\ Put(c, k, v)[k] = v
         /\ \A x \in DOMAIN c : x # k => Put(c, k, v)[x] = c[x]
BY DEF IsContent, Put

(* Deleting keys leaves the other entries alone.                           *)
LEMMA DeleteIsContent ==
  ASSUME NEW c, IsContent(c), NEW S
  PROVE  /\ IsContent(Delete(c, S)) /\ DOMAIN Delete(c, S) = DOMAIN c \ S
         /\ \A x \in DOMAIN c \ S : Delete(c, S)[x] = c[x]
         /\ S \cap DOMAIN c = {} => Delete(c, S) = c
<1>1. Delete(c, S) = [x \in DOMAIN c \ S |-> c[x]]
  BY DEF Delete, Restrict
<1>2. IsContent(Delete(c, S)) /\ DOMAIN Delete(c, S) = DOMAIN c \ S
  BY <1>1 DEF IsContent
<1>3. S \cap DOMAIN c = {} => Delete(c, S) = c
  <2> SUFFICES ASSUME S \cap DOMAIN c = {}
               PROVE  Delete(c, S) = c
    OBVIOUS
  <2>1. DOMAIN c \ S = DOMAIN c
    OBVIOUS
  <2> QED
    BY <1>1, <2>1 DEF IsContent
<1> QED
  BY <1>1, <1>2, <1>3

(* observe: a valid change of a valid tree leaves a tree that is valid at  *)
(* the raised maximum.                                                     *)
LEMMA ValidChangeIsValid ==
  ASSUME MaxSequence \in Nat, NEW t \in Trees, NEW c, IsContent(c), NEW k \in EntryKeys,
         NEW v \in {"good", "bad", "none"}, ValidChange(t, k, v), NEW s \in Nat,
         ValidTree(t, c, s)
  PROVE  ValidTree(t, IF v = "none" THEN Delete(c, {k}) ELSE Put(c, k, v),
                   IF v # "none" /\ k > s THEN k ELSE s)
<1>1. k \in Nat /\ \A x \in DOMAIN c : x \in Nat
  BY DEF IsContent, EntryKeys, BadKey
<1>2. CASE v = "none"
  <2>1. /\ DOMAIN Delete(c, {k}) = DOMAIN c \ {k}
        /\ \A x \in DOMAIN c \ {k} : Delete(c, {k})[x] = c[x]
    BY DeleteIsContent
  <2>2. t = "policy" => k # 0
    BY <1>2 DEF ValidChange
  <2>3. ValidTree(t, Delete(c, {k}), s)
    BY <2>1, <2>2 DEF ValidTree
  <2> QED
    BY <1>2, <2>3
<1>3. CASE v # "none"
  <2> PICK r : r = IF k > s THEN k ELSE s
    OBVIOUS
  <2>1. r \in Nat /\ s <= r /\ k <= r
    BY <1>1
  <2>2. /\ DOMAIN Put(c, k, v) = DOMAIN c \cup {k} /\ Put(c, k, v)[k] = v
        /\ \A x \in DOMAIN c : x # k => Put(c, k, v)[x] = c[x]
    BY PutIsContent
  <2>3. v = "good" /\ Decodes(t, k)
    BY <1>3 DEF ValidChange
  <2>4. ValidTree(t, c, r)
    BY <2>1, LaterIsValid
  <2>5. ValidTree(t, Put(c, k, v), r)
    BY <2>1, <2>2, <2>3, <2>4 DEF ValidTree
  <2> QED
    BY <1>3, <2>5
<1> QED
  BY <1>2, <1>3

(* A tree without its entries above a sequence.                            *)
LEMMA FilteredIsValid ==
  ASSUME MaxSequence \in Nat, NEW t \in Trees, NEW c, IsContent(c), NEW p \in Nat, ValidTree(t, c, p),
         NEW s \in Nat, NEW d, d = Restrict(c, {k \in DOMAIN c : k <= s})
  PROVE  ValidTree(t, d, IF p < s THEN p ELSE s)
<1>1. \A x \in DOMAIN c : x \in Nat
  BY DEF IsContent, EntryKeys, BadKey
<1>2. DOMAIN d = {k \in DOMAIN c : k <= s} /\ \A k \in DOMAIN d : d[k] = c[k]
  BY DEF Restrict
<1> QED
  BY <1>1, <1>2 DEF ValidTree

(* Deleting what is above a sequence leaves the rest.                      *)
LEMMA DeletedIsFiltered ==
  ASSUME MaxSequence \in Nat, NEW c, IsContent(c), NEW s \in Nat, NEW above,
         \A k \in DOMAIN c : k \in above <=> k > s
  PROVE  Delete(c, above) = Restrict(c, {k \in DOMAIN c : k <= s})
<1>1. \A x \in DOMAIN c : x \in Nat
  BY DEF IsContent, EntryKeys, BadKey
<1>2. DOMAIN c \ above = {k \in DOMAIN c : k <= s}
  BY <1>1
<1> QED
  BY <1>2 DEF Delete

-----------------------------------------------------------------------------
(* The steps.                                                              *)

(* A new store holds the genesis policy and no proofs.                     *)
LEMMA InitReuse ==
  ASSUME MaxSequence \in Nat, ReuseInit
  PROVE  ReuseInv
<1>1. /\ nextRoot = 3 /\ roots = manifest.roots /\ manifest.checkpoint = 0
      /\ manifest = [checkpoint |-> manifest.checkpoint, roots |-> manifest.roots]
      /\ roots = [t \in Trees |-> IF t = "policy" THEN NewRoot(1, [k \in {0} |-> "good"])
                                  ELSE NewRoot(2, <<>>)]
      /\ live = NoProofs /\ published = NoProofs /\ pending = Unknown
      /\ runtime = FALSE /\ view = NoView
  BY DEF ReuseInit
<1>2. /\ IsContent([k \in {0} |-> "good"]) /\ IsContent(<<>>)
      /\ ValidTree("policy", [k \in {0} |-> "good"], 0) /\ ValidTree("state", <<>>, 0)
  BY DEF IsContent, EntryKeys, BadKey, ValidTree, Decodes
<1>3. AreRoots(roots, nextRoot)
  BY <1>1, <1>2 DEF AreRoots, NewRoot, Trees
<1>4. \A t \in Trees : ValidTree(t, roots[t].content, 0)
  BY <1>1, <1>2 DEF NewRoot, Trees
<1>5. view.proofs = NoProofs /\ ~view.some
  BY <1>1 DEF NoView
<1>6. ~pending.known /\ ReuseTypeInv
  <2>1. /\ AreProofs(live, nextRoot) /\ AreProofs(published, nextRoot)
        /\ AreProofs(view.proofs, nextRoot)
    BY <1>1, <1>5, NoProofsAreProofs
  <2>2. /\ ~pending.known /\ pending = [known |-> pending.known, keys |-> pending.keys]
        /\ pending.keys \subseteq Trees \X EntryKeys
    BY <1>1 DEF Unknown
  <2> QED
    BY <1>1, <1>3, <1>5, <2>1, <2>2 DEF ReuseTypeInv
<1>7. OwnerIsRight
  BY <1>1, <1>4, <1>5, <1>6, NoProofsAreProofs
     DEF OwnerIsRight, ProofsAreTrue, PendingIsExact, PreparedIsFiltered
<1> QED
  BY <1>1, <1>5, <1>6, <1>7 DEF ReuseInv, Agree

(* The invariant, from what it says of the next state.                     *)
LEMMA ReuseAfter ==
  ASSUME nextRoot' \in Nat, nextRoot' > 2, AreRoots(roots', nextRoot'),
         manifest' = [checkpoint |-> manifest'.checkpoint, roots |-> manifest'.roots],
         manifest'.checkpoint \in Nat, AreRoots(manifest'.roots, nextRoot'),
         AreProofs(live', nextRoot'), AreProofs(published', nextRoot'),
         AreProofs(view'.proofs, nextRoot'),
         view'.some => AreRoots(view'.roots, nextRoot'),
         pending' = [known |-> pending'.known, keys |-> pending'.keys],
         pending'.keys \subseteq Trees \X EntryKeys,
         Agree(roots', manifest'.roots),
         view'.some => Agree(roots', view'.roots),
         ~view'.some => view' = NoView,
         ~runtime' => live' = NoProofs /\ published' = NoProofs /\ ~pending'.known,
         \A t \in Trees : ValidTree(t, manifest'.roots[t].content, manifest'.checkpoint),
         \A t \in Trees : ProofHolds(t, live'[t], roots'[t]),
         \A t \in Trees : ProofHolds(t, published'[t], manifest'.roots[t]),
         \A t \in Trees : ProofHolds(t, view'.proofs[t], view'.roots[t]),
         PendingIsExact', PreparedIsFiltered'
  PROVE  ReuseInv'
<1>1. ReuseTypeInv'
  BY DEF ReuseTypeInv, AreRoots, AreProofs, IsContent, NewRoot, EntryKeys, BadKey
<1>2. OwnerIsRight'
  BY DEF OwnerIsRight, ProofsAreTrue, ProofHolds, ValidTree, Decodes, BadKey
<1> QED
  BY <1>1, <1>2 DEF ReuseInv, Agree, NoView, NoProofs, NoProof, NewRoot

(* The live owner starts without proofs, and with an index only if nothing *)
(* differs from the checkpoint.                                            *)
LEMMA EnableReuse ==
  ASSUME MaxSequence \in Nat, ReuseInv, Enable
  PROVE  ReuseInv'
<1>1. /\ UNCHANGED <<nextRoot, roots, manifest, view>>
      /\ live' = NoProofs /\ published' = NoProofs /\ runtime' = TRUE
      /\ pending' \in {Nothing, Unknown}
  BY DEF Enable
<1>2. ReuseTypeInv'
  <2>1. AreProofs(NoProofs, nextRoot)
    BY NoProofsAreProofs DEF ReuseInv, ReuseTypeInv
  <2>2. /\ pending' = [known |-> pending'.known, keys |-> pending'.keys]
        /\ pending'.keys \subseteq Trees \X EntryKeys
    BY <1>1 DEF Nothing, Unknown
  <2> QED
    BY <1>1, <2>1, <2>2 DEF ReuseInv, ReuseTypeInv, AreProofs, AreRoots, IsContent, NewRoot, EntryKeys, BadKey
<1>3. PendingIsExact'
  <2> SUFFICES ASSUME pending'.known
               PROVE  PendingIsExact'
    BY DEF PendingIsExact
  <2>1. pending' = Nothing /\ \A t \in Trees : roots[t].id = manifest.roots[t].id
    BY <1>1 DEF Enable, Unknown
  <2>2. \A t \in Trees : ValidTree(t, roots[t].content, manifest.checkpoint)
    BY <2>1 DEF ReuseInv, Agree, OwnerIsRight
  <2>3. \A p \in Trees \X EntryKeys : p[2] \in DOMAIN roots[p[1]].content => ~(p[2] > manifest.checkpoint)
    <3>1. manifest.checkpoint \in Nat /\ \A k \in EntryKeys : k \in Nat
      BY DEF ReuseInv, ReuseTypeInv, EntryKeys, BadKey
    <3> QED
      BY <2>2, <3>1 DEF ValidTree
  <2> QED
    BY <1>1, <2>1, <2>3 DEF PendingIsExact, Nothing
<1>4. OwnerIsRight'
  <2>1. /\ \A t \in Trees : ValidTree(t, manifest.roots[t].content, manifest.checkpoint)
        /\ \A t \in Trees : ProofHolds(t, view.proofs[t], view.roots[t])
        /\ PreparedIsFiltered
    BY DEF ReuseInv, OwnerIsRight, ProofsAreTrue
  <2>2. \A t \in Trees : /\ ProofHolds(t, live[t], roots[t])'
                        /\ ProofHolds(t, published[t], manifest.roots[t])'
    BY <1>1, NoProofsAreProofs DEF ProofHolds
  <2>3. PreparedIsFiltered'
    BY <1>1, <2>1 DEF PreparedIsFiltered
  <2> QED
    BY <1>1, <1>3, <2>1, <2>2, <2>3 DEF OwnerIsRight, ProofsAreTrue, ProofHolds
<1> QED
  BY <1>1, <1>2, <1>4 DEF ReuseInv, Agree

(* An edit gives a tree a new identity, or is none.                        *)
LEMMA ApplyReuse ==
  ASSUME MaxSequence \in Nat, ReuseInv, NEW t \in Trees, NEW k \in EntryKeys,
         NEW v \in {"good", "bad", "none"}, Apply(t, k, v)
  PROVE  ReuseInv'
<1> PICK n \in Nat : n = nextRoot /\ n > 2
  BY DEF ReuseInv, ReuseTypeInv
<1> PICK old : old = roots[t].content
  OBVIOUS
<1> PICK new : new = IF v = "none" THEN Delete(old, {k}) ELSE Put(old, k, v)
  OBVIOUS
<1> PICK id : id = roots'[t].id
  OBVIOUS
<1>1. /\ AreRoots(roots, n) /\ AreRoots(manifest.roots, n)
      /\ AreProofs(live, n) /\ AreProofs(published, n) /\ AreProofs(view.proofs, n)
      /\ view.some => AreRoots(view.roots, n)
      /\ pending = [known |-> pending.known, keys |-> pending.keys]
      /\ pending.keys \subseteq Trees \X EntryKeys /\ manifest.checkpoint \in Nat
      /\ \A u \in Trees : ProofHolds(u, live[u], roots[u])
      /\ PendingIsExact
  BY DEF ReuseInv, ReuseTypeInv, OwnerIsRight, ProofsAreTrue
<1>2. /\ UNCHANGED <<manifest, published, runtime, view>>
      /\ roots' = [roots EXCEPT ![t] =
           NewRoot(IF v # "none" \/ k \in DOMAIN old THEN n ELSE roots[t].id, new)]
      /\ nextRoot' = IF v # "none" \/ k \in DOMAIN old THEN n + 1 ELSE n
  BY DEF Apply
<1>3. IsContent(old) /\ roots[t].id \in 1 .. n - 1 /\ roots = [u \in Trees |-> roots[u]]
  BY <1>1 DEF AreRoots
<1>4. IsContent(new)
  BY <1>3, PutIsContent, DeleteIsContent
<1>5. /\ roots'[t] = NewRoot(id, new)
      /\ id = IF v # "none" \/ k \in DOMAIN old THEN n ELSE roots[t].id
      /\ \A u \in Trees : u # t => roots'[u] = roots[u]
      /\ roots' = [u \in Trees |-> roots'[u]]
      /\ roots'[t].content = new
  BY <1>2, <1>3 DEF NewRoot
<1>6. /\ nextRoot' \in Nat /\ n <= nextRoot' /\ nextRoot' > 2 /\ id \in 1 .. nextRoot' - 1
      /\ id = n \/ (id = roots[t].id /\ new = old)
  <2>1. CASE v # "none" \/ k \in DOMAIN old
    BY <1>2, <1>5, <2>1
  <2>2. CASE ~(v # "none" \/ k \in DOMAIN old)
    <3>1. {k} \cap DOMAIN old = {}
      BY <2>2
    <3>2. new = old
      BY <1>3, <2>2, <3>1, DeleteIsContent
    <3> QED
      BY <1>2, <1>3, <1>5, <2>2, <3>2
  <2> QED
    BY <2>1, <2>2
<1>7. AreRoots(roots', nextRoot')
  <2>1. AreRoots(roots, nextRoot')
    BY <1>1, <1>6, RootsStay
  <2> QED
    BY <1>4, <1>5, <1>6, <2>1 DEF AreRoots
<1>8. ASSUME NEW all, AreRoots(all, n), Agree(roots, all)
      PROVE  Agree(roots', all)
  <2>1. all[t].id # n
    BY <1>8 DEF AreRoots
  <2>2. roots'[t].id = all[t].id => roots'[t].content = all[t].content
    BY <1>5, <1>6, <1>8, <2>1 DEF Agree
  <2> QED
    BY <1>5, <1>8, <2>2 DEF Agree
<1>9. ASSUME NEW u \in Trees
      PROVE  /\ ProofHolds(u, live'[u], roots'[u])
             /\ live'[u].root \in 0 .. nextRoot' - 1 /\ live'[u].sequence \in Nat
  <2>0. /\ live[u].root \in 0 .. n - 1 /\ live[u].sequence \in Nat
        /\ NoProof.root = 0 /\ NoProof.sequence = 0
    BY <1>1 DEF AreProofs, NoProof
  <2>1. CASE ~runtime
    <3>1. live' = NoProofs
      BY <2>1 DEF Apply, ReuseInv
    <3> QED
      BY <1>6, <2>0, <3>1, NoProofsAreProofs
  <2>2. CASE runtime /\ u # t
    <3>1. live'[u] \in {live[u], NoProof} /\ roots'[u] = roots[u]
      BY <1>5, <2>2 DEF Apply
    <3> QED
      BY <1>1, <1>6, <2>0, <3>1 DEF ProofHolds
  <2>3. CASE runtime /\ u = t
    <3>1. live'[u] = ObservedProof(t, k, v, live[t], roots[t].id, id)
      <4>1. live' = [w \in Trees |->
               IF w = t THEN ObservedProof(t, k, v, live[t], roots[t].id,
                               IF v # "none" \/ k \in DOMAIN roots[t].content THEN nextRoot ELSE roots[t].id)
               ELSE IF live[w].root = roots[w].id THEN live[w] ELSE NoProof]
        BY <2>3 DEF Apply
      <4> QED
        BY <1>5, <2>3, <4>1
    <3>2. CASE live'[u] = NoProof
      BY <1>6, <2>0, <3>2 DEF ProofHolds
    <3>3. CASE live'[u] # NoProof
      <4>1. /\ live[t] # NoProof /\ live[t].root = roots[t].id /\ ValidChange(t, k, v)
            /\ live'[u] = [root |-> id,
                          sequence |-> IF v # "none" /\ k > live[t].sequence THEN k ELSE live[t].sequence]
        BY <3>1, <3>3 DEF ObservedProof
      <4>2. ValidTree(t, old, live[t].sequence)
        BY <1>1, <4>1 DEF ProofHolds
      <4>3. ValidTree(t, new, live'[u].sequence)
        <5> PICK s \in Nat : s = live[t].sequence
          BY <2>0, <2>3
        <5>1. ValidTree(t, old, s) /\ ValidChange(t, k, v)
          BY <4>1, <4>2
        <5>2. ValidTree(t, new, IF v # "none" /\ k > s THEN k ELSE s)
          BY <1>3, <5>1, ValidChangeIsValid
        <5>3. live'[u].sequence = IF v # "none" /\ k > s THEN k ELSE s
          BY <4>1
        <5> QED
          BY <5>2, <5>3
      <4>4. k \in Nat
        BY DEF EntryKeys, BadKey
      <4> QED
        <5>1. live'[u].root = id /\ live'[u].sequence \in Nat
          BY <2>0, <2>3, <4>1, <4>4
        <5>2. roots'[u].content = new
          BY <1>5, <2>3
        <5> QED
          BY <1>6, <2>3, <4>3, <5>1, <5>2 DEF ProofHolds
    <3> QED
      BY <3>2, <3>3
  <2> QED
    BY <2>1, <2>2, <2>3
<1>10. live' = [u \in Trees |-> live'[u]]
  BY <1>1 DEF Apply, AreProofs
<1>11. /\ AreProofs(live', nextRoot') /\ AreProofs(published, nextRoot')
       /\ AreProofs(view.proofs, nextRoot') /\ AreRoots(manifest.roots, nextRoot')
       /\ view.some => AreRoots(view.roots, nextRoot')
  BY <1>1, <1>6, <1>9, <1>10, RootsStay, ProofsStay DEF AreProofs
<1>12. /\ PendingIsExact' /\ pending' = [known |-> pending'.known, keys |-> pending'.keys]
       /\ pending'.keys \subseteq Trees \X EntryKeys
       /\ ~runtime => ~pending'.known
  <2>0. ~runtime => ~pending.known
    BY DEF ReuseInv
  <2>1. CASE ~runtime \/ pending' = Unknown
    <3>1. pending' = Unknown \/ (pending' = pending /\ ~pending.known)
      BY <2>0, <2>1 DEF Apply
    <3>2. ~Unknown.known /\ Unknown = [known |-> Unknown.known, keys |-> Unknown.keys] /\ Unknown.keys = {}
      BY DEF Unknown
    <3> QED
      BY <1>1, <3>1, <3>2 DEF PendingIsExact
  <2>2. CASE runtime /\ pending' # Unknown
    <3> PICK rest : rest = pending.keys \ {<<t, k>>}
      OBVIOUS
    <3>1. /\ pending.known
          /\ pending' = [known |-> TRUE,
               keys |-> IF v = "none" \/ k <= manifest.checkpoint THEN rest
                        ELSE rest \cup {<<t, k>>}]
      BY <2>2 DEF Apply, ObservedPending
    <3>2. pending.keys = {p \in Trees \X EntryKeys :
             p[2] \in DOMAIN roots[p[1]].content /\ p[2] > manifest.checkpoint}
      BY <1>1, <3>1 DEF PendingIsExact
    <3>3. DOMAIN new = IF v = "none" THEN DOMAIN old \ {k} ELSE DOMAIN old \cup {k}
      BY <1>3, PutIsContent, DeleteIsContent
    <3>4. k \in Nat /\ <<t, k>> \in Trees \X EntryKeys
      BY DEF EntryKeys, BadKey
    <3>5. ASSUME NEW p \in Trees \X EntryKeys
          PROVE  p \in pending'.keys
                   <=> p[2] \in DOMAIN roots'[p[1]].content /\ p[2] > manifest.checkpoint
      <4>1. p[1] \in Trees /\ p[2] \in EntryKeys /\ p = <<p[1], p[2]>>
        OBVIOUS
      <4>2. CASE p = <<t, k>>
        <5>1. p[1] = t /\ p[2] = k /\ p \notin rest /\ roots'[p[1]].content = new
          BY <1>5, <4>2
        <5> QED
          BY <1>1, <3>1, <3>3, <3>4, <4>2, <5>1
      <4>3. CASE p # <<t, k>>
        <5>1. p \in pending'.keys <=> p \in pending.keys
          BY <3>1, <4>3
        <5>2. p[2] \in DOMAIN roots'[p[1]].content <=> p[2] \in DOMAIN roots[p[1]].content
          <6>1. CASE p[1] = t
            <7>1. p[2] # k /\ roots'[p[1]].content = new /\ roots[p[1]].content = old
              BY <1>5, <4>1, <4>3, <6>1
            <7> QED
              BY <3>3, <7>1
          <6>2. CASE p[1] # t
            BY <1>5, <4>1, <6>2
          <6> QED
            BY <6>1, <6>2
        <5> QED
          BY <3>2, <5>1, <5>2
      <4> QED
        BY <4>2, <4>3
    <3>6. pending'.keys \subseteq Trees \X EntryKeys
      BY <1>1, <3>1, <3>4
    <3> QED
      BY <1>2, <2>2, <3>1, <3>5, <3>6 DEF PendingIsExact
  <2> QED
    BY <2>1, <2>2
<1>13. PreparedIsFiltered'
  BY <1>2 DEF ReuseInv, OwnerIsRight, PreparedIsFiltered
<1>14. /\ Agree(roots', manifest.roots)
       /\ view.some => Agree(roots', view.roots)
  BY <1>1, <1>8 DEF ReuseInv
<1>15. /\ \A u \in Trees : ValidTree(u, manifest.roots[u].content, manifest.checkpoint)
       /\ \A u \in Trees : ProofHolds(u, published[u], manifest.roots[u])
       /\ \A u \in Trees : ProofHolds(u, view.proofs[u], view.roots[u])
  BY DEF ReuseInv, OwnerIsRight, ProofsAreTrue
<1>16. /\ manifest = [checkpoint |-> manifest.checkpoint, roots |-> manifest.roots]
       /\ ~view.some => view = NoView
       /\ ~runtime => live' = NoProofs /\ published = NoProofs
  BY DEF ReuseInv, ReuseTypeInv, Apply
<1>17. manifest' = manifest /\ published' = published /\ view' = view /\ runtime' = runtime
  BY <1>2
<1>18. /\ manifest' = [checkpoint |-> manifest'.checkpoint, roots |-> manifest'.roots]
       /\ manifest'.checkpoint \in Nat /\ AreRoots(manifest'.roots, nextRoot')
       /\ AreProofs(published', nextRoot') /\ AreProofs(view'.proofs, nextRoot')
       /\ view'.some => AreRoots(view'.roots, nextRoot')
       /\ Agree(roots', manifest'.roots)
       /\ view'.some => Agree(roots', view'.roots)
       /\ ~view'.some => view' = NoView
       /\ ~runtime' => live' = NoProofs /\ published' = NoProofs /\ ~pending'.known
       /\ \A u \in Trees : ValidTree(u, manifest'.roots[u].content, manifest'.checkpoint)
       /\ \A u \in Trees : ProofHolds(u, published'[u], manifest'.roots[u])
       /\ \A u \in Trees : ProofHolds(u, view'.proofs[u], view'.roots[u])
  BY <1>1, <1>11, <1>12, <1>14, <1>15, <1>16, <1>17
<1> QED
  BY ONLY <1>6, <1>7, <1>9, <1>11, <1>12, <1>13, <1>18, ReuseAfter

(* A prepared checkpoint has the entries up to its sequence, whether they  *)
(* were found by the index or by a scan.                                   *)
LEMMA PrepareReuse ==
  ASSUME MaxSequence \in Nat, ReuseInv, NEW s \in Nat, PrepareCheckpoint(s)
  PROVE  ReuseInv'
<1> PICK n \in Nat : n = nextRoot /\ n > 2
  BY DEF ReuseInv, ReuseTypeInv
<1> DEFINE Fast == /\ runtime /\ pending.known
                   /\ \A t \in Trees : live[t] # NoProof /\ live[t].root = roots[t].id
           Indexed == [t \in Trees |-> {k \in EntryKeys : <<t, k>> \in pending.keys /\ k > s}]
           Scanned == [t \in Trees |-> {k \in DOMAIN roots[t].content : k > s}]
<1> PICK above : above = IF Fast THEN Indexed ELSE Scanned
  OBVIOUS
<1> PICK new : new = Filtered(above)
  OBVIOUS
<1>1. /\ AreRoots(roots, n) /\ AreRoots(manifest.roots, n)
      /\ AreProofs(live, n) /\ AreProofs(published, n)
      /\ manifest.checkpoint \in Nat
      /\ \A t \in Trees : ProofHolds(t, live[t], roots[t])
      /\ PendingIsExact
  BY DEF ReuseInv, ReuseTypeInv, OwnerIsRight, ProofsAreTrue
<1>2. /\ UNCHANGED <<roots, manifest, live, published, pending, runtime>>
      /\ nextRoot' = n + 2 /\ s >= manifest.checkpoint
      /\ view'.roots = new /\ view'.sequence = s /\ view'.some = TRUE
      /\ view'.from = [t \in Trees |-> roots[t].content]
      /\ view'.proofs = IF Fast
           THEN [t \in Trees |-> [root |-> new[t].id,
                                  sequence |-> IF live[t].sequence < s THEN live[t].sequence ELSE s]]
           ELSE IF runtime THEN live ELSE NoProofs
  BY DEF PrepareCheckpoint
<1>3. ASSUME NEW t \in Trees
      PROVE  /\ IsContent(roots[t].content) /\ roots[t].id \in 1 .. n - 1
             /\ roots[t] = NewRoot(roots[t].id, roots[t].content)
             /\ \A k \in DOMAIN roots[t].content : k \in Nat /\ k \in EntryKeys
  BY <1>1 DEF AreRoots, IsContent, EntryKeys, BadKey
<1>4. ASSUME NEW t \in Trees, NEW k \in DOMAIN roots[t].content
      PROVE  k \in above[t] <=> k > s
  <2>1. CASE Fast
    <3>1. pending.keys = {p \in Trees \X EntryKeys :
             p[2] \in DOMAIN roots[p[1]].content /\ p[2] > manifest.checkpoint}
      BY <1>1, <2>1 DEF PendingIsExact
    <3>2. <<t, k>> \in Trees \X EntryKeys /\ k \in Nat
      BY <1>3
    <3>3. <<t, k>> \in pending.keys <=> k > manifest.checkpoint
      <4> PICK p : p = <<t, k>>
        OBVIOUS
      <4>1. p \in Trees \X EntryKeys /\ p[1] = t /\ p[2] = k
        BY <3>2
      <4>2. p \in pending.keys <=> p[2] \in DOMAIN roots[p[1]].content /\ p[2] > manifest.checkpoint
        BY <3>1, <4>1
      <4> QED
        BY <4>1, <4>2
    <3>4. k \in above[t] <=> <<t, k>> \in pending.keys /\ k > s
      BY <2>1, <3>2
    <3> QED
      BY <1>1, <1>2, <3>2, <3>3, <3>4
  <2>2. CASE ~Fast
    BY <2>2
  <2> QED
    BY <2>1, <2>2
<1> HIDE DEF Fast, Indexed, Scanned
<1>5. ASSUME NEW t \in Trees
      PROVE  /\ new[t].content = Restrict(roots[t].content, {k \in DOMAIN roots[t].content : k <= s})
             /\ IsContent(new[t].content) /\ new[t] = NewRoot(new[t].id, new[t].content)
             /\ new[t].id \in 1 .. n + 1
             /\ new[t] = roots[t] \/ new[t].id >= n
  <2> PICK c : c = roots[t].content
    OBVIOUS
  <2>1. IsContent(c)
    BY <1>3
  <2>2. /\ Delete(c, above[t]) = Restrict(c, {k \in DOMAIN c : k <= s})
        /\ IsContent(Delete(c, above[t]))
        /\ above[t] \cap DOMAIN c = {} => Delete(c, above[t]) = c
    <3> PICK a : a = above[t]
      OBVIOUS
    <3>1. \A k \in DOMAIN c : k \in a <=> k > s
      BY <1>4
    <3>2. Delete(c, a) = Restrict(c, {k \in DOMAIN c : k <= s})
      BY ONLY MaxSequence \in Nat, s \in Nat, <2>1, <3>1, DeletedIsFiltered
    <3>3. IsContent(Delete(c, a)) /\ (a \cap DOMAIN c = {} => Delete(c, a) = c)
      BY ONLY <2>1, DeleteIsContent
    <3> QED
      BY <3>2, <3>3
  <2>3. new[t] = IF above[t] \cap DOMAIN c = {} THEN roots[t]
                 ELSE NewRoot(n + (IF t = "state" THEN 0 ELSE 1), Delete(c, above[t]))
    BY DEF Filtered
  <2>4. CASE above[t] \cap DOMAIN c = {}
    <3>1. new[t] = roots[t]
      BY <2>3, <2>4
    <3> QED
      BY <1>3, <2>2, <2>4, <3>1
  <2>5. CASE above[t] \cap DOMAIN c # {}
    <3>1. /\ new[t].id \in {n, n + 1} /\ new[t].content = Delete(c, above[t])
          /\ new[t] = NewRoot(new[t].id, new[t].content)
      BY <2>3, <2>5 DEF NewRoot
    <3> QED
      BY <2>2, <3>1
  <2> QED
    BY <2>4, <2>5
<1>6. nextRoot' \in Nat /\ n <= nextRoot' /\ nextRoot' > 2 /\ nextRoot' = n + 2
  BY <1>2
<1>7. new = [t \in Trees |-> new[t]]
  BY DEF Filtered
<1>8. \A t \in Trees : /\ IsContent(new[t].content)
                         /\ new[t] = NewRoot(new[t].id, new[t].content)
  BY <1>5
<1>9. \A t \in Trees : new[t].id \in 1 .. n + 1
  BY <1>5
<1>10. \A t \in Trees : new[t] = roots[t] \/ new[t].id >= n
  BY <1>5
<1>11. \A t \in Trees : roots[t].id \in 1 .. n - 1
  BY <1>3
<1>12. AreRoots(new, nextRoot')
  <2>1. \A t \in Trees : new[t].id \in 1 .. nextRoot' - 1
    BY <1>6, <1>9
  <2> QED
    BY <1>7, <1>8, <2>1 DEF AreRoots
<1>13. Agree(roots, new)
  <2> SUFFICES ASSUME NEW t \in Trees, roots[t].id = new[t].id
               PROVE  roots[t].content = new[t].content
    BY DEF Agree
  <2>1. new[t] = roots[t]
    BY <1>10, <1>11
  <2> QED
    BY <2>1
<1>14. ASSUME NEW t \in Trees
       PROVE  /\ ProofHolds(t, view'.proofs[t], new[t])
              /\ view'.proofs[t].root \in 0 .. nextRoot' - 1 /\ view'.proofs[t].sequence \in Nat
  <2>0. live[t].root \in 0 .. n - 1 /\ live[t].sequence \in Nat
    BY <1>1 DEF AreProofs
  <2>1. CASE Fast
    <3>1. view'.proofs[t] = [root |-> new[t].id,
                             sequence |-> IF live[t].sequence < s THEN live[t].sequence ELSE s]
      BY <1>2, <2>1
    <3>2. ValidTree(t, roots[t].content, live[t].sequence)
      BY <1>1, <2>1 DEF ProofHolds, Fast
    <3>3. ValidTree(t, new[t].content, view'.proofs[t].sequence)
      <4> PICK c : c = roots[t].content
        OBVIOUS
      <4> PICK m \in Nat : m = live[t].sequence
        BY <2>0
      <4>1. IsContent(c) /\ ValidTree(t, c, m)
        BY <1>3, <3>2
      <4>2. new[t].content = Restrict(c, {k \in DOMAIN c : k <= s})
        BY <1>5
      <4>3. view'.proofs[t].sequence = IF m < s THEN m ELSE s
        BY <3>1
      <4> QED
        BY <4>1, <4>2, <4>3, FilteredIsValid
    <3>4. view'.proofs[t].root \in 0 .. n + 1 /\ view'.proofs[t].sequence \in Nat
      BY <1>9, <2>0, <3>1
    <3> QED
      BY <1>6, <3>3, <3>4 DEF ProofHolds
  <2>2. CASE ~Fast /\ runtime
    <3>1. view'.proofs[t] = live[t]
      BY <1>2, <2>2
    <3>2. live[t].root = new[t].id => new[t] = roots[t]
      BY <1>10, <2>0
    <3> QED
      BY <1>1, <1>6, <2>0, <3>1, <3>2 DEF ProofHolds
  <2>3. CASE ~Fast /\ ~runtime
    <3>1. view'.proofs = NoProofs
      BY <1>2, <2>3
    <3>2. NoProof.root = 0 /\ NoProof.sequence = 0
      BY DEF NoProof
    <3> QED
      BY <1>6, <3>1, <3>2, NoProofsAreProofs
  <2> QED
    BY <2>1, <2>2, <2>3
<1>15. view'.proofs = [t \in Trees |-> view'.proofs[t]]
  BY <1>1, <1>2 DEF AreProofs, NoProofs
<1>16. AreProofs(view'.proofs, nextRoot')
  BY <1>14, <1>15 DEF AreProofs
<1>17. PreparedIsFiltered'
  <2> SUFFICES ASSUME NEW t \in Trees
               PROVE  view'.roots[t].content =
                        Restrict(view'.from[t], {k \in DOMAIN view'.from[t] : k <= view'.sequence})
    BY DEF PreparedIsFiltered, Restrict
  <2> QED
    BY <1>2, <1>5
<1>18. PendingIsExact'
  BY <1>1, <1>2 DEF PendingIsExact, EntryKeys, BadKey
<1>19. /\ AreRoots(roots', nextRoot') /\ AreRoots(manifest'.roots, nextRoot')
       /\ AreProofs(live', nextRoot') /\ AreProofs(published', nextRoot')
  BY <1>1, <1>2, <1>6, RootsStay, ProofsStay
<1>20. /\ manifest' = [checkpoint |-> manifest'.checkpoint, roots |-> manifest'.roots]
       /\ manifest'.checkpoint \in Nat
       /\ pending' = [known |-> pending'.known, keys |-> pending'.keys]
       /\ pending'.keys \subseteq Trees \X EntryKeys
       /\ Agree(roots', manifest'.roots)
       /\ ~runtime' => live' = NoProofs /\ published' = NoProofs /\ ~pending'.known
       /\ \A u \in Trees : ValidTree(u, manifest'.roots[u].content, manifest'.checkpoint)
       /\ \A u \in Trees : ProofHolds(u, live'[u], roots'[u])
       /\ \A u \in Trees : ProofHolds(u, published'[u], manifest'.roots[u])
  BY <1>2 DEF ReuseInv, ReuseTypeInv, OwnerIsRight, ProofsAreTrue
<1>21. /\ AreRoots(view'.roots, nextRoot') /\ Agree(roots', view'.roots) /\ view'.some
       /\ \A t \in Trees : ProofHolds(t, view'.proofs[t], view'.roots[t])
  BY <1>2, <1>12, <1>13, <1>14
<1> QED
  BY ONLY <1>6, <1>16, <1>17, <1>18, <1>19, <1>20, <1>21, ReuseAfter

(* A publication that spares the scan publishes what the scan accepts.     *)
LEMMA PublishAccepts ==
  ASSUME MaxSequence \in Nat, NEW s \in Nat, NEW n \in Nat, n > 0, NEW all, NEW proofs,
         AreRoots(all, n), AreProofs(proofs, n),
         \A t \in Trees : ProofHolds(t, proofs[t], all[t]),
         Validates(all, s, proofs), NEW t \in Trees
  PROVE  ValidTree(t, all[t].content, s)
<1>1. IsContent(all[t].content) /\ proofs[t].sequence \in Nat
  BY DEF AreRoots, AreProofs
<1>2. CASE Proven(proofs[t], all[t], s)
  <2> PICK c : c = all[t].content
    OBVIOUS
  <2> PICK m \in Nat : m = proofs[t].sequence
    BY <1>1
  <2>1. m <= s /\ ValidTree(t, c, m)
    BY <1>2 DEF Proven, ProofHolds
  <2>2. IsContent(c)
    BY <1>1
  <2> QED
    BY <2>1, <2>2, LaterIsValid
<1> QED
  BY <1>2 DEF Validates

(* The proofs a publication keeps are true of the live roots with the same *)
(* identity.                                                               *)
LEMMA PublishReuse ==
  ASSUME MaxSequence \in Nat, ReuseInv, NEW s \in Nat, NEW all, NEW proofs,
         AreRoots(all, nextRoot), Agree(roots, all), AreProofs(proofs, nextRoot),
         \A t \in Trees : ProofHolds(t, proofs[t], all[t]),
         Publish(all, s, proofs)
  PROVE  ReuseInv'
<1> PICK n \in Nat : n = nextRoot /\ n > 2
  BY DEF ReuseInv, ReuseTypeInv
<1> PICK given : given = IF runtime THEN proofs ELSE NoProofs
  OBVIOUS
<1> PICK kept : kept = ValidatedProofs(all, s, given)
  OBVIOUS
<1>1. /\ UNCHANGED <<nextRoot, roots, runtime, view>>
      /\ Validates(all, s, given) /\ s >= manifest.checkpoint
      /\ \/ /\ manifest' = [checkpoint |-> s, roots |-> all]
            /\ IF runtime THEN AfterPublication(all, s, kept)
               ELSE UNCHANGED <<live, published, pending>>
         \/ UNCHANGED <<manifest, live, published, pending>>
  BY DEF Publish
<1>2. /\ AreRoots(roots, n) /\ AreRoots(manifest.roots, n)
      /\ AreProofs(live, n) /\ AreProofs(published, n) /\ AreProofs(view.proofs, n)
      /\ view.some => AreRoots(view.roots, n)
      /\ pending = [known |-> pending.known, keys |-> pending.keys]
      /\ pending.keys \subseteq Trees \X EntryKeys /\ manifest.checkpoint \in Nat
      /\ manifest = [checkpoint |-> manifest.checkpoint, roots |-> manifest.roots]
      /\ Agree(roots, manifest.roots)
      /\ view.some => Agree(roots, view.roots)
      /\ ~view.some => view = NoView
      /\ ~runtime => live = NoProofs /\ published = NoProofs /\ ~pending.known
  BY DEF ReuseInv, ReuseTypeInv
<1>3. /\ \A t \in Trees : ValidTree(t, manifest.roots[t].content, manifest.checkpoint)
      /\ \A t \in Trees : ProofHolds(t, live[t], roots[t])
      /\ \A t \in Trees : ProofHolds(t, published[t], manifest.roots[t])
      /\ \A t \in Trees : ProofHolds(t, view.proofs[t], view.roots[t])
      /\ PendingIsExact /\ PreparedIsFiltered
  BY DEF ReuseInv, OwnerIsRight, ProofsAreTrue
<1>4. AreRoots(all, n) /\ AreProofs(proofs, n)
  OBVIOUS
<1>5. AreProofs(given, n) /\ \A t \in Trees : ProofHolds(t, given[t], all[t])
  BY <1>4, NoProofsAreProofs
<1>6. ASSUME NEW t \in Trees
      PROVE  /\ IsContent(all[t].content) /\ all[t].id \in 1 .. n - 1
             /\ given[t].root \in 0 .. n - 1 /\ given[t].sequence \in Nat
  BY <1>4, <1>5 DEF AreRoots, AreProofs
<1>8. ASSUME NEW t \in Trees
      PROVE  ValidTree(t, all[t].content, s)
  BY <1>1, <1>4, <1>5, PublishAccepts
<1>9. ASSUME NEW t \in Trees
      PROVE  /\ kept[t].root \in 0 .. n - 1 /\ kept[t].sequence \in Nat
             /\ ProofHolds(t, kept[t], all[t])
  <2>1. kept[t] = IF Proven(given[t], all[t], s) THEN given[t]
                  ELSE [root |-> all[t].id, sequence |-> Maximum(all[t].content)]
    BY DEF ValidatedProofs
  <2>2. CASE Proven(given[t], all[t], s)
    BY <1>5, <1>6, <2>1, <2>2
  <2>3. CASE ~Proven(given[t], all[t], s)
    <3> PICK c : c = all[t].content
      OBVIOUS
    <3>1. IsContent(c) /\ ValidTree(t, c, s)
      BY <1>6, <1>8
    <3>2. Maximum(c) \in Nat /\ ValidTree(t, c, Maximum(c))
      BY <3>1, ValidAtMaximum
    <3>3. kept[t].root = all[t].id /\ kept[t].sequence = Maximum(c)
      BY <2>1, <2>3
    <3> QED
      BY <1>6, <3>2, <3>3 DEF ProofHolds
  <2> QED
    BY <2>2, <2>3
<1>10. AreProofs(kept, n)
  <2>1. kept = [t \in Trees |-> kept[t]]
    BY DEF ValidatedProofs
  <2> QED
    BY <1>9, <2>1 DEF AreProofs
<1>11. CASE UNCHANGED <<manifest, live, published, pending>>
  <2>1. PendingIsExact' /\ PreparedIsFiltered'
    BY <1>1, <1>3, <1>11 DEF PendingIsExact, PreparedIsFiltered, EntryKeys, BadKey
  <2> QED
    BY <1>1, <1>2, <1>3, <1>11, <2>1, ReuseAfter
<1>12. CASE /\ manifest' = [checkpoint |-> s, roots |-> all]
            /\ IF runtime THEN AfterPublication(all, s, kept)
               ELSE UNCHANGED <<live, published, pending>>
  <2>1. manifest'.checkpoint = s /\ manifest'.roots = all
    BY <1>12
  <2>2. PreparedIsFiltered'
    BY <1>1, <1>3 DEF PreparedIsFiltered
  <2>3. \A k \in EntryKeys : k \in Nat
    BY DEF EntryKeys, BadKey
  <2>4. /\ AreProofs(live', n) /\ AreProofs(published', n)
        /\ \A t \in Trees : ProofHolds(t, live'[t], roots[t])
        /\ \A t \in Trees : ProofHolds(t, published'[t], all[t])
    <3>1. CASE runtime
      <4>1. /\ published' = kept
            /\ live' = [t \in Trees |-> IF roots[t].id = all[t].id THEN kept[t] ELSE live[t]]
        BY <1>12, <3>1 DEF AfterPublication
      <4>2. ASSUME NEW t \in Trees
            PROVE  ProofHolds(t, live'[t], roots[t])
        <5>1. CASE roots[t].id = all[t].id
          <6>1. live'[t] = kept[t] /\ roots[t].content = all[t].content
            BY <4>1, <5>1 DEF Agree
          <6> QED
            BY <1>9, <5>1, <6>1 DEF ProofHolds
        <5>2. CASE roots[t].id # all[t].id
          BY <1>3, <4>1, <5>2
        <5> QED
          BY <5>1, <5>2
      <4>3. AreProofs(live', n)
        <5>1. \A t \in Trees : live[t].root \in 0 .. n - 1 /\ live[t].sequence \in Nat
          BY <1>2 DEF AreProofs
        <5>2. \A t \in Trees : kept[t].root \in 0 .. n - 1 /\ kept[t].sequence \in Nat
          BY <1>9
        <5>3. \A t \in Trees : live'[t] = live[t] \/ live'[t] = kept[t]
          BY <4>1
        <5>4. live' = [t \in Trees |-> live'[t]]
          BY <4>1
        <5> QED
          BY <5>1, <5>2, <5>3, <5>4 DEF AreProofs
      <4> QED
        BY <1>9, <1>10, <4>1, <4>2, <4>3
    <3>2. CASE ~runtime
      <4>1. live' = NoProofs /\ published' = NoProofs
        BY <1>2, <1>12, <3>2
      <4> QED
        BY <4>1, NoProofsAreProofs
    <3> QED
      BY <3>1, <3>2
  <2>5. /\ pending' = [known |-> pending'.known, keys |-> pending'.keys]
        /\ pending'.keys \subseteq Trees \X EntryKeys
        /\ pending'.known =>
             pending'.keys = {p \in Trees \X EntryKeys : p[2] \in DOMAIN roots[p[1]].content /\ p[2] > s}
        /\ ~runtime => ~pending'.known
    <3>1. CASE ~runtime
      BY <1>2, <1>12, <3>1
    <3>2. CASE runtime /\ pending.known
      <4>1. pending' = [known |-> TRUE, keys |-> {p \in pending.keys : p[2] > s}]
        BY <1>12, <3>2 DEF AfterPublication
      <4>2. pending.keys = {p \in Trees \X EntryKeys :
               p[2] \in DOMAIN roots[p[1]].content /\ p[2] > manifest.checkpoint}
        BY <1>3, <3>2 DEF PendingIsExact
      <4>3. \A p \in Trees \X EntryKeys : p[2] > s => p[2] > manifest.checkpoint
        BY <1>1, <1>2, <2>3
      <4>4. pending'.keys = {p \in Trees \X EntryKeys : p[2] \in DOMAIN roots[p[1]].content /\ p[2] > s}
        BY <4>1, <4>2, <4>3
      <4> QED
        BY <3>2, <4>1, <4>4
    <3>3. CASE runtime /\ ~pending.known
      <4>1. pending' = IF \A t \in Trees : roots[t].id = all[t].id THEN Nothing ELSE Unknown
        BY <1>12, <3>3 DEF AfterPublication
      <4>2. CASE \A t \in Trees : roots[t].id = all[t].id
        <5>1. \A t \in Trees : roots[t].content = all[t].content
          BY <4>2 DEF Agree
        <5>2. \A t \in Trees : \A k \in DOMAIN roots[t].content : k <= s
          BY <1>8, <5>1 DEF ValidTree
        <5>3. \A p \in Trees \X EntryKeys : p[2] \in DOMAIN roots[p[1]].content => ~(p[2] > s)
          BY <2>3, <5>2
        <5> QED
          BY <3>3, <4>1, <4>2, <5>3 DEF Nothing
      <4>3. CASE ~(\A t \in Trees : roots[t].id = all[t].id)
        BY <4>1, <4>3 DEF Unknown
      <4> QED
        BY <4>2, <4>3
    <3> QED
      BY <3>1, <3>2, <3>3
  <2>6. PendingIsExact'
    BY <1>1, <2>1, <2>5 DEF PendingIsExact, EntryKeys, BadKey
  <2>7. /\ nextRoot' \in Nat /\ nextRoot' > 2 /\ AreRoots(roots', nextRoot')
        /\ manifest' = [checkpoint |-> manifest'.checkpoint, roots |-> manifest'.roots]
        /\ manifest'.checkpoint \in Nat /\ AreRoots(manifest'.roots, nextRoot')
        /\ AreProofs(live', nextRoot') /\ AreProofs(published', nextRoot')
        /\ AreProofs(view'.proofs, nextRoot')
        /\ view'.some => AreRoots(view'.roots, nextRoot')
        /\ Agree(roots', manifest'.roots)
        /\ view'.some => Agree(roots', view'.roots)
        /\ ~view'.some => view' = NoView
    BY <1>1, <1>2, <1>4, <1>12, <2>1, <2>4
  <2>8. ~runtime' => live' = NoProofs /\ published' = NoProofs /\ ~pending'.known
    BY <1>1, <1>2, <1>12
  <2>9. /\ \A t \in Trees : ValidTree(t, manifest'.roots[t].content, manifest'.checkpoint)
        /\ \A t \in Trees : ProofHolds(t, live'[t], roots'[t])
        /\ \A t \in Trees : ProofHolds(t, published'[t], manifest'.roots[t])
        /\ \A t \in Trees : ProofHolds(t, view'.proofs[t], view'.roots[t])
    BY <1>1, <1>3, <1>8, <2>1, <2>4
  <2> QED
    BY ONLY <2>2, <2>5, <2>6, <2>7, <2>8, <2>9, ReuseAfter
<1> QED
  BY <1>1, <1>11, <1>12

(* The roots of a handover are live ones or new, and what is new is a tree *)
(* that the live one's entries are taken from.                             *)
LEMMA CollectedRoots ==
  ASSUME NEW n \in Nat, n > 2, n = nextRoot, AreRoots(roots, n), NEW compact \in BOOLEAN, NEW removed,
         NEW all, all = Collected(compact, removed)
  PROVE  /\ AreRoots(all, n + 2)
         /\ \A t \in Trees : all[t] = roots[t] \/ all[t].id >= n
<1>1. ASSUME NEW t \in Trees
      PROVE  /\ all[t].id \in 1 .. n + 1 /\ IsContent(all[t].content)
             /\ all[t] = NewRoot(all[t].id, all[t].content)
             /\ all[t] = roots[t] \/ all[t].id >= n
  <2> PICK gone : gone = IF t = "state" THEN removed ELSE {}
    OBVIOUS
  <2>1. all[t] = IF ~compact /\ gone = {} THEN roots[t]
                 ELSE NewRoot(n + (IF t = "state" THEN 0 ELSE 1), Delete(roots[t].content, gone))
    BY DEF Collected
  <2>2. /\ roots[t] = NewRoot(roots[t].id, roots[t].content)
        /\ roots[t].id \in 1 .. n - 1 /\ IsContent(roots[t].content)
    BY DEF AreRoots
  <2>3. CASE all[t] = roots[t]
    BY <2>2, <2>3
  <2>4. CASE all[t] # roots[t]
    <3>1. all[t] = NewRoot(n + (IF t = "state" THEN 0 ELSE 1), Delete(roots[t].content, gone))
      BY <2>1, <2>4
    <3>2. /\ all[t].id \in {n, n + 1} /\ all[t].content = Delete(roots[t].content, gone)
          /\ all[t] = NewRoot(all[t].id, all[t].content)
      BY <3>1 DEF NewRoot
    <3>3. IsContent(all[t].content)
      <4> PICK c : c = roots[t].content
        OBVIOUS
      <4>1. IsContent(c) /\ all[t].content = Delete(c, gone)
        BY <2>2, <3>2
      <4>2. IsContent(Delete(c, gone))
        BY ONLY <4>1, DeleteIsContent
      <4> QED
        BY ONLY <4>1, <4>2
    <3> QED
      BY <3>2, <3>3
  <2> QED
    BY <2>3, <2>4
<1>2. all = [t \in Trees |-> all[t]]
  BY DEF Collected
<1>3. \A t \in Trees : all[t].id \in 1 .. (n + 2) - 1
  BY <1>1
<1>4. \A t \in Trees : IsContent(all[t].content) /\ all[t] = NewRoot(all[t].id, all[t].content)
  BY <1>1
<1> QED
  BY <1>1, <1>2, <1>3, <1>4 DEF AreRoots

(* A handover gives the owner trees that passed a full scan.               *)
LEMMA AdoptReuse ==
  ASSUME MaxSequence \in Nat, ReuseInv, NEW compact \in BOOLEAN, NEW removed,
         Adopt(compact, removed)
  PROVE  ReuseInv'
<1> PICK n \in Nat : n = nextRoot /\ n > 2
  BY DEF ReuseInv, ReuseTypeInv
<1> PICK all : all = Collected(compact, removed)
  OBVIOUS
<1> PICK s \in Nat : s = manifest.checkpoint
  BY DEF ReuseInv, ReuseTypeInv
<1>1. /\ Validates(all, s, NoProofs)
      /\ nextRoot' = n + 2 /\ runtime' = runtime
      /\ \/ /\ manifest' = [checkpoint |-> s, roots |-> all] /\ roots' = all
            /\ live' = NoProofs /\ published' = NoProofs
            /\ pending' = IF runtime THEN Nothing ELSE pending
            /\ view' = IF compact THEN NoView ELSE view
         \/ UNCHANGED <<roots, manifest, live, published, pending, view>>
  BY DEF Adopt
<1>2. /\ AreRoots(roots, n) /\ AreRoots(manifest.roots, n)
      /\ AreProofs(live, n) /\ AreProofs(published, n) /\ AreProofs(view.proofs, n)
      /\ view.some => AreRoots(view.roots, n)
      /\ pending = [known |-> pending.known, keys |-> pending.keys]
      /\ pending.keys \subseteq Trees \X EntryKeys /\ manifest.checkpoint \in Nat
      /\ manifest = [checkpoint |-> manifest.checkpoint, roots |-> manifest.roots]
      /\ Agree(roots, manifest.roots)
      /\ view.some => Agree(roots, view.roots)
      /\ ~view.some => view = NoView
      /\ ~runtime => live = NoProofs /\ published = NoProofs /\ ~pending.known
  BY DEF ReuseInv, ReuseTypeInv
<1>3. /\ \A t \in Trees : ValidTree(t, manifest.roots[t].content, manifest.checkpoint)
      /\ \A t \in Trees : ProofHolds(t, live[t], roots[t])
      /\ \A t \in Trees : ProofHolds(t, published[t], manifest.roots[t])
      /\ \A t \in Trees : ProofHolds(t, view.proofs[t], view.roots[t])
      /\ PendingIsExact /\ PreparedIsFiltered
  BY DEF ReuseInv, OwnerIsRight, ProofsAreTrue
<1>4. AreRoots(all, n + 2) /\ \A t \in Trees : all[t] = roots[t] \/ all[t].id >= n
  BY <1>2, CollectedRoots
<1>5. nextRoot' \in Nat /\ nextRoot' > 2 /\ n <= nextRoot'
  BY <1>1
<1>6. CASE UNCHANGED <<roots, manifest, live, published, pending, view>>
  <2>1. PendingIsExact' /\ PreparedIsFiltered'
    BY <1>3, <1>6 DEF PendingIsExact, PreparedIsFiltered, EntryKeys, BadKey
  <2>2. /\ AreRoots(roots', nextRoot') /\ AreRoots(manifest'.roots, nextRoot')
        /\ AreProofs(live', nextRoot') /\ AreProofs(published', nextRoot')
        /\ AreProofs(view'.proofs, nextRoot')
        /\ view'.some => AreRoots(view'.roots, nextRoot')
    BY <1>2, <1>5, <1>6, RootsStay, ProofsStay
  <2> QED
    BY <1>1, <1>2, <1>3, <1>5, <1>6, <2>1, <2>2, ReuseAfter
<1>7. CASE /\ manifest' = [checkpoint |-> s, roots |-> all] /\ roots' = all
           /\ live' = NoProofs /\ published' = NoProofs
           /\ pending' = IF runtime THEN Nothing ELSE pending
           /\ view' = IF compact THEN NoView ELSE view
  <2>1. /\ manifest'.checkpoint = s /\ manifest'.roots = all
        /\ manifest' = [checkpoint |-> manifest'.checkpoint, roots |-> manifest'.roots]
    BY <1>7
  <2>2. \A t \in Trees : ValidTree(t, all[t].content, s)
    BY <1>1, NoProofsAreProofs DEF Validates, Proven
  <2>3. /\ pending' = [known |-> pending'.known, keys |-> pending'.keys]
        /\ pending'.keys \subseteq Trees \X EntryKeys
        /\ ~runtime' => ~pending'.known
        /\ pending'.known => pending' = Nothing
    BY <1>1, <1>2, <1>7 DEF Nothing
  <2>4. PendingIsExact'
    <3>1. \A k \in EntryKeys : k \in Nat
      BY DEF EntryKeys, BadKey
    <3>2. \A p \in Trees \X EntryKeys : p[2] \in DOMAIN all[p[1]].content => ~(p[2] > s)
      <4>1. \A t \in Trees : \A k \in DOMAIN all[t].content : k <= s
        BY <2>2 DEF ValidTree
      <4> QED
        BY <3>1, <4>1
    <3>3. pending'.known => pending'.keys = {}
      BY <2>3 DEF Nothing
    <3> QED
      BY <1>7, <2>1, <3>2, <3>3 DEF PendingIsExact, EntryKeys, BadKey
  <2>5. /\ AreProofs(view'.proofs, nextRoot') /\ PreparedIsFiltered'
        /\ view'.some => AreRoots(view'.roots, nextRoot')
        /\ view'.some => Agree(roots', view'.roots)
        /\ ~view'.some => view' = NoView
        /\ \A t \in Trees : ProofHolds(t, view'.proofs[t], view'.roots[t])
    <3>1. CASE compact
      <4>1. view' = NoView /\ view'.proofs = NoProofs /\ view'.some = FALSE
        BY <1>7, <3>1 DEF NoView
      <4> QED
        BY <1>5, <4>1, NoProofsAreProofs DEF PreparedIsFiltered
    <3>2. CASE ~compact
      <4>1. view' = view
        BY <1>7, <3>2
      <4>2. view.some => Agree(all, view.roots)
        <5> SUFFICES ASSUME view.some, NEW t \in Trees, all[t].id = view.roots[t].id
                     PROVE  all[t].content = view.roots[t].content
          BY DEF Agree
        <5>1. view.roots[t].id \in 1 .. n - 1
          BY <1>2 DEF AreRoots
        <5>2. all[t] = roots[t]
          BY <1>4, <5>1
        <5> QED
          BY <1>2, <5>2 DEF Agree
      <4>3. /\ AreProofs(view.proofs, nextRoot')
            /\ view.some => AreRoots(view.roots, nextRoot')
        BY <1>2, <1>5, RootsStay, ProofsStay
      <4>4. PreparedIsFiltered'
        BY <1>3, <4>1 DEF PreparedIsFiltered
      <4> QED
        BY <1>2, <1>3, <1>7, <4>1, <4>2, <4>3, <4>4
    <3> QED
      BY <3>1, <3>2
  <2>6. /\ AreProofs(live', nextRoot') /\ AreProofs(published', nextRoot')
    BY <1>5, <1>7, NoProofsAreProofs
  <2>7. /\ AreRoots(roots', nextRoot') /\ AreRoots(manifest'.roots, nextRoot')
        /\ manifest'.checkpoint \in Nat
        /\ ~runtime' => live' = NoProofs /\ published' = NoProofs /\ ~pending'.known
        /\ \A t \in Trees : ValidTree(t, manifest'.roots[t].content, manifest'.checkpoint)
    BY <1>1, <1>4, <1>7, <2>1, <2>2, <2>3
  <2>8. /\ Agree(roots', manifest'.roots)
        /\ \A t \in Trees : ProofHolds(t, live'[t], roots'[t])
        /\ \A t \in Trees : ProofHolds(t, published'[t], manifest'.roots[t])
    BY <1>7, <2>1, NoProofsAreProofs DEF Agree
  <2> QED
    BY ONLY <1>5, <2>1, <2>3, <2>4, <2>5, <2>6, <2>7, <2>8, ReuseAfter
<1> QED
  BY <1>1, <1>6, <1>7

(* A process that opens the directory knows nothing.                       *)
LEMMA ReopenReuse ==
  ASSUME MaxSequence \in Nat, ReuseInv, CurrentInv, Reopen
  PROVE  ReuseInv'
<1>1. /\ roots' = current.roots /\ manifest' = current /\ UNCHANGED nextRoot
      /\ live' = NoProofs /\ published' = NoProofs /\ pending' = Unknown
      /\ runtime' = FALSE /\ view' = NoView
  BY DEF Reopen
<1>2. /\ nextRoot \in Nat /\ nextRoot > 2
      /\ AreRoots(current.roots, nextRoot) /\ current.checkpoint \in Nat
      /\ current = [checkpoint |-> current.checkpoint, roots |-> current.roots]
      /\ \A t \in Trees : ValidTree(t, current.roots[t].content, current.checkpoint)
  BY DEF ReuseInv, ReuseTypeInv, CurrentInv
<1>3. view'.proofs = NoProofs /\ view'.some = FALSE
  BY <1>1 DEF NoView
<1>4. /\ pending' = [known |-> pending'.known, keys |-> pending'.keys]
      /\ pending'.keys \subseteq Trees \X EntryKeys /\ ~pending'.known
  BY <1>1 DEF Unknown
<1>5. PendingIsExact' /\ PreparedIsFiltered'
  BY <1>3, <1>4 DEF PendingIsExact, PreparedIsFiltered
<1>6. /\ nextRoot' \in Nat /\ nextRoot' > 2
      /\ AreProofs(live', nextRoot') /\ AreProofs(published', nextRoot')
      /\ AreProofs(view'.proofs, nextRoot')
  BY <1>1, <1>2, <1>3, NoProofsAreProofs
<1>7. /\ AreRoots(roots', nextRoot') /\ AreRoots(manifest'.roots, nextRoot')
      /\ manifest'.checkpoint \in Nat
      /\ manifest' = [checkpoint |-> manifest'.checkpoint, roots |-> manifest'.roots]
      /\ view'.some => AreRoots(view'.roots, nextRoot')
      /\ view'.some => Agree(roots', view'.roots)
      /\ ~view'.some => view' = NoView
      /\ ~runtime' => live' = NoProofs /\ published' = NoProofs /\ ~pending'.known
      /\ \A t \in Trees : ValidTree(t, manifest'.roots[t].content, manifest'.checkpoint)
  BY <1>1, <1>2, <1>3, <1>4
<1>8. /\ Agree(roots', manifest'.roots)
      /\ \A t \in Trees : ProofHolds(t, live'[t], roots'[t])
      /\ \A t \in Trees : ProofHolds(t, published'[t], manifest'.roots[t])
      /\ \A t \in Trees : ProofHolds(t, view'.proofs[t], view'.roots[t])
  BY <1>1, <1>3, NoProofsAreProofs DEF Agree
<1> QED
  BY ONLY <1>4, <1>5, <1>6, <1>7, <1>8, ReuseAfter

-----------------------------------------------------------------------------
(* Each of the three views a caller can publish holds true proofs of the   *)
(* roots it has.                                                           *)
LEMMA PublishViewReuse ==
  ASSUME MaxSequence \in Nat, ReuseInv, NEW s \in Nat,
         PublishPrepared(s) \/ PublishCheckpointView(s) \/ PublishLive(s)
  PROVE  ReuseInv'
<1>1. /\ \A t \in Trees : ProofHolds(t, live[t], roots[t])
      /\ \A t \in Trees : ProofHolds(t, published[t], manifest.roots[t])
      /\ \A t \in Trees : ProofHolds(t, view.proofs[t], view.roots[t])
  BY DEF ReuseInv, OwnerIsRight, ProofsAreTrue
<1>2. CASE PublishPrepared(s)
  <2> PICK all, proofs : all = view.roots /\ proofs = view.proofs
    OBVIOUS
  <2>1. AreRoots(all, nextRoot) /\ Agree(roots, all) /\ AreProofs(proofs, nextRoot)
    BY <1>2 DEF PublishPrepared, ReuseInv, ReuseTypeInv
  <2>2. Publish(all, s, proofs)
    BY <1>2 DEF PublishPrepared
  <2> QED
    BY <1>1, <2>1, <2>2, PublishReuse
<1>3. CASE PublishCheckpointView(s)
  <2> PICK all, proofs : all = manifest.roots /\ proofs = published
    OBVIOUS
  <2>1. AreRoots(all, nextRoot) /\ Agree(roots, all) /\ AreProofs(proofs, nextRoot)
    BY DEF ReuseInv, ReuseTypeInv
  <2>2. Publish(all, s, proofs)
    BY <1>3 DEF PublishCheckpointView
  <2> QED
    BY <1>1, <2>1, <2>2, PublishReuse
<1>4. CASE PublishLive(s)
  <2> PICK all, proofs : all = roots /\ proofs = live
    OBVIOUS
  <2>1. AreRoots(all, nextRoot) /\ Agree(roots, all) /\ AreProofs(proofs, nextRoot)
    BY DEF ReuseInv, ReuseTypeInv, Agree
  <2>2. Publish(all, s, proofs)
    BY <1>4 DEF PublishLive
  <2> QED
    BY <1>1, <2>1, <2>2, PublishReuse
<1> QED
  BY <1>2, <1>3, <1>4

(* Nothing else changes what is known.                                     *)
LEMMA StutterReuse ==
  ASSUME ReuseInv, UNCHANGED reuseVars
  PROVE  ReuseInv'
<1>1. UNCHANGED <<nextRoot, roots, manifest, live, published, pending, runtime, view>>
  BY DEF reuseVars
<1>2. PendingIsExact' /\ PreparedIsFiltered'
  BY <1>1 DEF ReuseInv, OwnerIsRight, PendingIsExact, PreparedIsFiltered, EntryKeys, BadKey, Restrict
<1>3. /\ \A t \in Trees : ValidTree(t, manifest'.roots[t].content, manifest'.checkpoint)
      /\ \A t \in Trees : ProofHolds(t, live'[t], roots'[t])
      /\ \A t \in Trees : ProofHolds(t, published'[t], manifest'.roots[t])
      /\ \A t \in Trees : ProofHolds(t, view'.proofs[t], view'.roots[t])
  BY <1>1 DEF ReuseInv, OwnerIsRight, ProofsAreTrue
<1> QED
  BY <1>1, <1>2, <1>3, ReuseAfter DEF ReuseInv, ReuseTypeInv

(* ReuseInv is inductive.                                                  *)
LEMMA ReuseStep ==
  ASSUME MaxSequence \in Nat, ReuseInv, CurrentInv, [ReuseNext]_reuseVars
  PROVE  ReuseInv'
<1>1. CASE UNCHANGED reuseVars
  BY <1>1, StutterReuse
<1>2. CASE Enable
  BY <1>2, EnableReuse
<1>3. ASSUME NEW t \in Trees, NEW k \in EntryKeys, NEW v \in {"good", "bad", "none"}, Apply(t, k, v)
      PROVE  ReuseInv'
  BY <1>3, ApplyReuse
<1>4. ASSUME NEW s \in 0 .. MaxSequence,
             PrepareCheckpoint(s) \/ PublishPrepared(s) \/ PublishCheckpointView(s) \/ PublishLive(s)
      PROVE  ReuseInv'
  <2>1. s \in Nat
    OBVIOUS
  <2> QED
    BY <1>4, <2>1, PrepareReuse, PublishViewReuse
<1>5. ASSUME NEW compact \in BOOLEAN, NEW removed \in SUBSET DOMAIN roots["state"].content,
             Adopt(compact, removed)
      PROVE  ReuseInv'
  BY <1>5, AdoptReuse
<1>6. CASE Reopen
  BY <1>6, ReopenReuse
<1> QED
  BY <1>1, <1>2, <1>3, <1>4, <1>5, <1>6 DEF ReuseNext

(* What CURRENT names in the next state.                                   *)
LEMMA CurrentAfter ==
  ASSUME current' = [checkpoint |-> current'.checkpoint, roots |-> current'.roots],
         current'.checkpoint \in Nat, AreRoots(current'.roots, nextRoot'),
         \A t \in Trees : ValidTree(t, current'.roots[t].content, current'.checkpoint)
  PROVE  CurrentInv'
BY DEF CurrentInv, AreRoots, IsContent, NewRoot, EntryKeys, BadKey, ValidTree, Decodes

(* What CURRENT names stays valid when it does not change.                 *)
LEMMA CurrentStays ==
  ASSUME ReuseInv, CurrentInv, UNCHANGED current, nextRoot' \in Nat, nextRoot <= nextRoot'
  PROVE  CurrentInv'
<1>1. nextRoot \in Nat
  BY DEF ReuseInv, ReuseTypeInv
<1>2. AreRoots(current.roots, nextRoot')
  BY <1>1, RootsStay DEF CurrentInv
<1>3. PICK c : c = current /\ c = current'
  OBVIOUS
<1>4. AreRoots(current'.roots, nextRoot')
  BY <1>2, <1>3
<1>5. /\ current' = [checkpoint |-> current'.checkpoint, roots |-> current'.roots]
      /\ current'.checkpoint \in Nat
      /\ \A t \in Trees : ValidTree(t, current'.roots[t].content, current'.checkpoint)
  BY <1>3 DEF CurrentInv
<1> QED
  BY <1>4, <1>5, CurrentAfter

(* What CURRENT names when it is renamed to name new roots that the scan   *)
(* accepts.                                                                *)
LEMMA CurrentRenamed ==
  ASSUME ReuseInv, NEW s \in Nat, NEW all, AreRoots(all, nextRoot'),
         \A t \in Trees : ValidTree(t, all[t].content, s),
         current' = [checkpoint |-> s, roots |-> all]
  PROVE  CurrentInv'
<1>1. current'.checkpoint = s /\ current'.roots = all
  OBVIOUS
<1> QED
  BY <1>1, CurrentAfter

(* A publication renames CURRENT to what the scan accepts, or fails.       *)
LEMMA PublishCurrent ==
  ASSUME MaxSequence \in Nat, ReuseInv, CurrentInv, NEW s \in Nat, NEW all, NEW proofs,
         AreRoots(all, nextRoot), AreProofs(proofs, nextRoot),
         \A t \in Trees : ProofHolds(t, proofs[t], all[t]),
         Publish(all, s, proofs)
  PROVE  CurrentInv'
<1> PICK n \in Nat : n = nextRoot /\ n > 2
  BY DEF ReuseInv, ReuseTypeInv
<1> PICK given : given = IF runtime THEN proofs ELSE NoProofs
  OBVIOUS
<1>1. /\ nextRoot' = n /\ Validates(all, s, given)
      /\ current' = current \/ current' = [checkpoint |-> s, roots |-> all]
  BY DEF Publish, PublishFilesFail
<1>2. AreRoots(all, n) /\ AreProofs(given, n) /\ \A t \in Trees : ProofHolds(t, given[t], all[t])
  BY NoProofsAreProofs
<1>3. \A t \in Trees : ValidTree(t, all[t].content, s)
  BY <1>1, <1>2, PublishAccepts
<1>4. CASE current' = current
  BY <1>1, <1>4, CurrentStays
<1>5. CASE current' = [checkpoint |-> s, roots |-> all]
  BY <1>1, <1>2, <1>3, <1>5, CurrentRenamed
<1> QED
  BY <1>1, <1>4, <1>5

(* A handover renames CURRENT to what a full scan accepted, or fails.      *)
LEMMA AdoptCurrent ==
  ASSUME ReuseInv, CurrentInv, NEW compact \in BOOLEAN, NEW removed, Adopt(compact, removed)
  PROVE  CurrentInv'
<1> PICK n \in Nat : n = nextRoot /\ n > 2
  BY DEF ReuseInv, ReuseTypeInv
<1> PICK all : all = Collected(compact, removed)
  OBVIOUS
<1> PICK s \in Nat : s = manifest.checkpoint
  BY DEF ReuseInv, ReuseTypeInv
<1>1. /\ nextRoot' = n + 2 /\ Validates(all, s, NoProofs)
      /\ current' = current \/ current' = [checkpoint |-> s, roots |-> all]
  BY DEF Adopt, PublishFilesFail
<1>2. AreRoots(all, n + 2)
  BY CollectedRoots DEF ReuseInv, ReuseTypeInv
<1>3. \A t \in Trees : ValidTree(t, all[t].content, s)
  BY <1>1, NoProofsAreProofs DEF Validates, Proven
<1>4. CASE current' = current
  BY <1>1, <1>4, CurrentStays
<1>5. CASE current' = [checkpoint |-> s, roots |-> all]
  BY <1>1, <1>2, <1>3, <1>5, CurrentRenamed
<1> QED
  BY <1>1, <1>4, <1>5

(* CURRENT always names a checkpoint that reopening accepts.               *)
LEMMA CurrentStep ==
  ASSUME MaxSequence \in Nat, ReuseInv, CurrentInv, [ReuseNext]_reuseVars
  PROVE  CurrentInv'
<1> PICK n \in Nat : n = nextRoot
  BY DEF ReuseInv, ReuseTypeInv
<1>1. CASE UNCHANGED current /\ nextRoot' \in {n, n + 1, n + 2}
  BY <1>1, CurrentStays
<1>2. CASE UNCHANGED reuseVars \/ Enable \/ Reopen
  BY <1>1, <1>2 DEF reuseVars, Enable, Reopen
<1>3. ASSUME NEW t \in Trees, NEW k \in EntryKeys, NEW v \in {"good", "bad", "none"}, Apply(t, k, v)
      PROVE  CurrentInv'
  BY <1>1, <1>3 DEF Apply
<1>4. ASSUME NEW s \in 0 .. MaxSequence, PrepareCheckpoint(s)
      PROVE  CurrentInv'
  BY <1>1, <1>4 DEF PrepareCheckpoint
<1>5. ASSUME NEW s \in 0 .. MaxSequence,
             PublishPrepared(s) \/ PublishCheckpointView(s) \/ PublishLive(s)
      PROVE  CurrentInv'
  <2>1. s \in Nat
    OBVIOUS
  <2>2. PICK all, proofs :
          /\ AreRoots(all, nextRoot) /\ AreProofs(proofs, nextRoot)
          /\ \A t \in Trees : ProofHolds(t, proofs[t], all[t])
          /\ Publish(all, s, proofs)
    <3>1. CASE PublishPrepared(s)
      BY <3>1 DEF PublishPrepared, ReuseInv, ReuseTypeInv, OwnerIsRight, ProofsAreTrue
    <3>2. CASE PublishCheckpointView(s)
      BY <3>2 DEF PublishCheckpointView, ReuseInv, ReuseTypeInv, OwnerIsRight, ProofsAreTrue
    <3>3. CASE PublishLive(s)
      BY <3>3 DEF PublishLive, ReuseInv, ReuseTypeInv, OwnerIsRight, ProofsAreTrue
    <3> QED
      BY <1>5, <3>1, <3>2, <3>3
  <2> QED
    BY <2>1, <2>2, PublishCurrent
<1>6. ASSUME NEW compact \in BOOLEAN, NEW removed \in SUBSET DOMAIN roots["state"].content,
             Adopt(compact, removed)
      PROVE  CurrentInv'
  BY <1>6, AdoptCurrent
<1> QED
  BY <1>2, <1>3, <1>4, <1>5, <1>6 DEF ReuseNext

(* For every number of sequences and every size of the index: what CURRENT *)
(* names passes the scan that reopening makes, although publish            *)
(* (src/src/storage/store.rs) and checkpoint.rs skip it for proven roots;  *)
(* the proofs inherited through edits and publications are true, the index *)
(* of edits is complete, and a checkpoint prepared from it is the one a    *)
(* scan would prepare.                                                     *)
THEOREM CheckpointsAreValid ==
  ASSUME MaxSequence \in Nat
  PROVE  ReuseSpec => []PublishedIsValid
<1>1. ReuseInit => ReuseInv /\ CurrentInv
  <2> SUFFICES ASSUME ReuseInit
               PROVE  ReuseInv /\ CurrentInv
    OBVIOUS
  <2>1. ReuseInv /\ current = manifest
    BY InitReuse DEF ReuseInit
  <2> QED
    BY <2>1 DEF CurrentInv, ReuseInv, ReuseTypeInv, OwnerIsRight
<1>2. ReuseInv /\ CurrentInv /\ [ReuseNext]_reuseVars => (ReuseInv /\ CurrentInv)'
  BY ReuseStep, CurrentStep
<1>3. ReuseInv /\ CurrentInv => PublishedIsValid
  BY DEF ReuseInv, CurrentInv, PublishedIsValid
<1> QED
  BY <1>1, <1>2, <1>3, PTL DEF ReuseSpec
=============================================================================
