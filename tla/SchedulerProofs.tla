-------------------------- MODULE SchedulerProofs --------------------------
(***************************************************************************)
(* What the engine guarantees for every workload, every number of workers, *)
(* every limit and every placement of crashes and failures.                *)
(*                                                                         *)
(* The properties are not inductive by themselves: what is visible is      *)
(* serial because what is installed above the frontier is already final,   *)
(* which holds because each dispatched view lacks nothing the job can      *)
(* read, which in turn rests on the dependencies taken at registration and *)
(* on the numbering of the group being built.  IInv says all of this.      *)
(* Facts about versioned reads and scopes come first.                      *)
(*                                                                         *)
(* Then what the coordinator promises its callers: every one is answered   *)
(* at most once, and truly.  A command is in the submission channel, kept  *)
(* aside, the head, assigned, or in none of these places, never in two of  *)
(* them, and its caller waits while it is in one; so every answer is that  *)
(* of a waiting caller, a refusal is of something that was never logged,   *)
(* and the engine implements the serial database.  Last, three things it   *)
(* relies on without checking again: what is logged passes preparation on  *)
(* replay, nobody waits for completions that nobody will send, and the     *)
(* running counters are the bytes held.                                    *)
(***************************************************************************)
EXTENDS Scheduler, TLAPS, WellFoundedInduction, SequenceTheorems, Sums

-----------------------------------------------------------------------------
(* Least and greatest members of sets of sequences.                        *)

(* Every non-empty set of naturals has a least member.                     *)
LEMMA LeastMember ==
  ASSUME NEW T \in SUBSET Nat, T # {}
  PROVE  \E x \in T : \A y \in T : x <= y
<1>1. PICK x \in T : \A y \in T : ~(<<y, x>> \in OpToRel(<, Nat))
  BY WFMin, NatLessThanWellFounded
<1>2. \A y \in T : ~(y < x)
  BY <1>1 DEF OpToRel
<1> QED
  BY <1>2

(* Max picks a member of a non-empty set of naturals below a bound.        *)
LEMMA MaxIsMember ==
  ASSUME NEW n \in Nat, NEW W \in SUBSET Nat, W # {}, \A m \in W : m < n
  PROVE  Max(W) \in W /\ \A m \in W : Max(W) >= m
<1> DEFINE T == {n - m : m \in W}
<1>1. T \in SUBSET Nat /\ T # {}
  <2>1. \A m \in W : n - m \in Nat
    OBVIOUS
  <2>2. PICK m \in W : TRUE
    OBVIOUS
  <2>3. n - m \in T
    BY <2>2
  <2> QED
    BY <2>1, <2>3
<1>2. PICK x \in T : \A y \in T : x <= y
  BY <1>1, LeastMember
<1>3. PICK m \in W : x = n - m
  BY <1>2
<1>4. \A k \in W : m >= k
  <2> TAKE k \in W
  <2>1. n - k \in T
    OBVIOUS
  <2>2. n - m <= n - k
    BY <1>2, <1>3, <2>1
  <2> QED
    BY <2>2
<1>5. \E y \in W : \A k \in W : y >= k
  BY <1>4
<1> QED
  BY <1>5 DEF Max

-----------------------------------------------------------------------------
(* Scopes.                                                                 *)

(* The scheduler's overlap test is exactly address intersection, as far as *)
(* the tables have a key at all: two scopes overlap if and only if some    *)
(* address lies in both.                                                   *)
LEMMA OverlapIsIntersection ==
  ASSUME NEW s \in Scope, NEW r \in Scope, Key # {}
  PROVE  overlap(s, r) <=> Covered(s) \cap Covered(r) # {}
<1>1. ASSUME overlap(s, r) PROVE Covered(s) \cap Covered(r) # {}
  <2>1. PICK k \in Key : s.key \in {AnyKey, k} /\ r.key \in {AnyKey, k}
    <3>1. CASE s.key = AnyKey /\ r.key = AnyKey
      BY <3>1
    <3>2. CASE s.key # AnyKey
      <4>1. s.key \in Key
        BY <3>2 DEF Scope
      <4>2. r.key \in {AnyKey, s.key}
        BY <1>1, <3>2 DEF overlap
      <4> QED
        BY <4>1, <4>2
    <3>3. CASE r.key # AnyKey
      <4>1. r.key \in Key
        BY <3>3 DEF Scope
      <4>2. s.key \in {AnyKey, r.key}
        BY <1>1, <3>3 DEF overlap
      <4> QED
        BY <4>1, <4>2
    <3> QED
      BY <3>1, <3>2, <3>3
  <2>2. s.table \in Table /\ r.table = s.table
    BY <1>1 DEF overlap, Scope
  <2>3. <<s.table, k>> \in Covered(s) /\ <<s.table, k>> \in Covered(r)
    BY <2>1, <2>2 DEF Covered, Address
  <2> QED
    BY <2>3
<1>2. ASSUME Covered(s) \cap Covered(r) # {} PROVE overlap(s, r)
  <2>1. PICK a \in Address : a \in Covered(s) /\ a \in Covered(r)
    BY <1>2 DEF Covered
  <2>2. /\ a[1] = s.table /\ s.key \in {AnyKey, a[2]}
        /\ a[1] = r.table /\ r.key \in {AnyKey, a[2]}
    BY <2>1 DEF Covered
  <2> QED
    BY <2>2 DEF overlap
<1> QED
  BY <1>1, <1>2

(* What the scheduler does not see as overlapping cannot interact: no      *)
(* location a transaction may write is one the later transaction may read, *)
(* the undeclared catalogue and policy included.                           *)
LEMMA NoOverlapNoConflict ==
  ASSUME NEW c \in Txn, NEW d \in Txn, ~overlaps(Writes(c), Reads(d))
  PROVE  WriteSet(c) \cap ReadSet(d) = {}
<1> SUFFICES ASSUME NEW a \in WriteSet(c), a \in ReadSet(d) PROVE FALSE
  OBVIOUS
<1>1. PICK w \in Writes(c) : a \in Covered(w)
  BY DEF WriteSet
<1>2. a \in Address /\ a # Metadata
  BY <1>1, LocationsDiffer DEF Covered
<1>3. PICK r \in Reads(d) : a \in Covered(r)
  <2>1. a \in UNION {Covered(s) : s \in Reads(d)} \/ a = Metadata
    BY DEF ReadSet
  <2> QED
    BY <1>2, <2>1
<1>4. w \in Scope /\ r \in Scope
  BY <1>1, <1>3, ScopesDeclared
<1>5. Key # {}
  BY <1>2 DEF Address
<1>6. overlap(w, r)
  BY <1>1, <1>3, <1>4, <1>5, OverlapIsIntersection
<1> QED
  BY <1>6 DEF overlaps

-----------------------------------------------------------------------------
(* Versioned reads.                                                        *)

IsHistory(f) == DOMAIN f \subseteq Nat /\ \A m \in DOMAIN f : f[m] \in Outcome

(* A read through an image finds a stored value or none: it is a state.    *)
LEMMA BeforeIsState ==
  ASSUME NEW f, IsHistory(f), NEW n \in Nat
  PROVE  Before(f, n) \in State
<1> SUFFICES ASSUME NEW a \in Location
             PROVE  Before(f, n)[a] \in Value \cup {Absent}
  BY DEF Before, State
<1> DEFINE W == Writers(f, n, a)
<1>1. CASE W = {}
  BY <1>1 DEF Before
<1>2. CASE W # {}
  <2>1. W \in SUBSET Nat /\ \A m \in W : m < n
    BY DEF Writers, IsHistory
  <2>2. Max(W) \in W
    BY <1>2, <2>1, MaxIsMember
  <2> DEFINE m == Max(W)
  <2>3. m \in DOMAIN f /\ a \in DOMAIN f[m].effects
    BY <2>2 DEF Writers
  <2>4. PICK D \in SUBSET Location : f[m].effects \in [D -> Value \cup {Absent}]
    BY <2>3 DEF IsHistory, Outcome
  <2>5. f[m].effects[a] \in Value \cup {Absent}
    BY <2>3, <2>4
  <2>6. Before(f, n)[a] = f[m].effects[a]
    BY <1>2 DEF Before
  <2> QED
    BY <2>5, <2>6
<1> QED
  BY <1>1, <1>2

(* Two images give record n the same value of a location when they hold    *)
(* the same versions of it below n.                                        *)
LEMMA SameWritersSameRead ==
  ASSUME NEW f, NEW g, NEW n, NEW a \in Location,
         Writers(f, n, a) = Writers(g, n, a),
         \A m \in Writers(f, n, a) : f[m] = g[m],
         IsHistory(f), n \in Nat
  PROVE  Before(f, n)[a] = Before(g, n)[a]
<1> DEFINE W == Writers(f, n, a)
<1>1. CASE W = {}
  BY <1>1 DEF Before
<1>2. CASE W # {}
  <2>1. W \in SUBSET Nat /\ \A m \in W : m < n
    BY DEF Writers, IsHistory
  <2>2. Max(W) \in W
    BY <1>2, <2>1, MaxIsMember
  <2>3. f[Max(W)] = g[Max(W)]
    BY <2>2
  <2> QED
    BY <1>2, <2>3 DEF Before
<1> QED
  BY <1>1, <1>2

(* A record's interpretation is an outcome that stays in its write set.    *)
LEMMA InterpretationIsOutcome ==
  ASSUME NEW c \in Command, NEW f, IsHistory(f), NEW n \in Nat
  PROVE  /\ Interpretation(c, f, n) \in Outcome
         /\ DOMAIN Interpretation(c, f, n).effects \subseteq WriteSet(c)
BY BeforeIsState, RunHasOutcome, RunWritesItsScopes DEF Interpretation

(* Record n is interpreted the same through f and through an image g that  *)
(* extends f below n by nothing the record can read.                       *)
LEMMA SameReadsSameOutcome ==
  ASSUME NEW c \in Command, NEW f, NEW g, NEW n \in Nat,
         IsHistory(f), IsHistory(g),
         \A m \in DOMAIN f : m < n => m \in DOMAIN g /\ g[m] = f[m],
         \A m \in DOMAIN g \ DOMAIN f : m < n =>
           c \in Txn /\ DOMAIN g[m].effects \cap ReadSet(c) = {}
  PROVE  Interpretation(c, f, n) = Interpretation(c, g, n)
<1>1. Before(f, n) \in State /\ Before(g, n) \in State
  BY BeforeIsState
<1>2. CASE \E m \in DOMAIN g \ DOMAIN f : m < n
  <2>1. c \in Txn
    BY <1>2
  <2>2. ASSUME NEW a \in ReadSet(c), a \in Location
        PROVE  Before(f, n)[a] = Before(g, n)[a]
    <3>1. Writers(f, n, a) = Writers(g, n, a)
      BY <2>2 DEF Writers
    <3>2. \A m \in Writers(f, n, a) : f[m] = g[m]
      BY DEF Writers
    <3> QED
      BY <2>2, <3>1, <3>2, SameWritersSameRead
  <2>3. ReadSet(c) \subseteq Location
    BY DEF ReadSet, Location, Covered
  <2>4. \A a \in ReadSet(c) : Before(f, n)[a] = Before(g, n)[a]
    BY <2>2, <2>3
  <2> QED
    BY <1>1, <2>1, <2>4, RunReadsItsScopes DEF Interpretation
<1>3. CASE \A m \in DOMAIN g \ DOMAIN f : ~(m < n)
  <2>1. ASSUME NEW a \in Location
        PROVE  Before(f, n)[a] = Before(g, n)[a]
    <3>1. Writers(f, n, a) = Writers(g, n, a)
      BY <1>3 DEF Writers
    <3>2. \A m \in Writers(f, n, a) : f[m] = g[m]
      BY DEF Writers
    <3> QED
      BY <3>1, <3>2, SameWritersSameRead
  <2>2. Before(f, n) = Before(g, n)
    BY <1>1, <2>1 DEF State
  <2> QED
    BY <2>2 DEF Interpretation
<1> QED
  BY <1>2, <1>3

-----------------------------------------------------------------------------
(* Images of a log.                                                        *)

(* Nothing that record n may read is still to be written: each earlier     *)
(* record without an outcome in f is a transaction that does not overlap.  *)
Settled(L, f, n) ==
  \A m \in 1 .. n - 1 : m \notin DOMAIN f =>
    L[m] \in Txn /\ L[n] \in Txn /\ ~overlaps(Writes(L[m]), Reads(L[n]))

(* f holds final outcomes of some records of the log L: what is missing    *)
(* below a record cannot change its outcome.                               *)
Sound(L, f) ==
  /\ DOMAIN f \subseteq 1 .. Len(L)
  /\ \A n \in DOMAIN f : f[n] = Interpretation(L[n], f, n) /\ Settled(L, f, n)

(* When outcomes computed through a sound image are added to it, all of    *)
(* them at once, nothing that was read before changes.                     *)
LEMMA AddedOutcomesKeepReads ==
  ASSUME NEW L \in Seq(Command), NEW f, NEW g, IsHistory(f), IsHistory(g),
         DOMAIN g \subseteq 1 .. Len(L),
         \A m \in DOMAIN f : m \in DOMAIN g /\ g[m] = f[m],
         \A m \in DOMAIN g \ DOMAIN f : g[m] = Interpretation(L[m], f, m),
         NEW n \in 1 .. Len(L), Settled(L, f, n)
  PROVE  Interpretation(L[n], f, n) = Interpretation(L[n], g, n) /\ Settled(L, g, n)
<1>1. L[n] \in Command /\ n \in Nat
  OBVIOUS
<1>2. ASSUME NEW m \in DOMAIN g \ DOMAIN f, m < n
      PROVE  L[n] \in Txn /\ DOMAIN g[m].effects \cap ReadSet(L[n]) = {}
  <2>1. m \in 1 .. n - 1 /\ m \in Nat /\ L[m] \in Command
    BY <1>2
  <2>2. L[m] \in Txn /\ L[n] \in Txn /\ ~overlaps(Writes(L[m]), Reads(L[n]))
    BY <1>2, <2>1 DEF Settled
  <2>3. DOMAIN g[m].effects \subseteq WriteSet(L[m])
    BY <1>2, <2>1, InterpretationIsOutcome
  <2>4. WriteSet(L[m]) \cap ReadSet(L[n]) = {}
    BY <2>2, NoOverlapNoConflict
  <2> QED
    BY <2>2, <2>3, <2>4
<1>3. Interpretation(L[n], f, n) = Interpretation(L[n], g, n)
  BY <1>1, <1>2, SameReadsSameOutcome
<1>4. Settled(L, g, n)
  BY DEF Settled
<1> QED
  BY <1>3, <1>4

(* Hence a sound image stays sound when settled outcomes are installed.    *)
LEMMA InstallKeepsSound ==
  ASSUME NEW L \in Seq(Command), NEW f, NEW g, IsHistory(f), IsHistory(g),
         Sound(L, f),
         DOMAIN g \subseteq 1 .. Len(L),
         \A m \in DOMAIN f : m \in DOMAIN g /\ g[m] = f[m],
         \A m \in DOMAIN g \ DOMAIN f :
           g[m] = Interpretation(L[m], f, m) /\ Settled(L, f, m)
  PROVE  Sound(L, g)
<1> SUFFICES ASSUME NEW n \in DOMAIN g
             PROVE  g[n] = Interpretation(L[n], g, n) /\ Settled(L, g, n)
  BY DEF Sound
<1>1. n \in 1 .. Len(L)
  OBVIOUS
<1>2. g[n] = Interpretation(L[n], f, n) /\ Settled(L, f, n)
  BY DEF Sound
<1>3. Interpretation(L[n], f, n) = Interpretation(L[n], g, n) /\ Settled(L, g, n)
  BY <1>1, <1>2, AddedOutcomesKeepReads
<1> QED
  BY <1>2, <1>3

(* Removing everything above k keeps an image sound.                       *)
LEMMA PrefixIsSound ==
  ASSUME NEW L \in Seq(Command), NEW f, IsHistory(f), Sound(L, f), NEW k \in Nat
  PROVE  IsHistory(Through(f, k)) /\ Sound(L, Through(f, k))
<1> DEFINE g == Through(f, k)
<1>1. /\ DOMAIN g = {m \in DOMAIN f : m <= k}
      /\ \A m \in DOMAIN g : g[m] = f[m]
  BY DEF Through
<1>2. IsHistory(g)
  BY <1>1 DEF IsHistory
<1>3. DOMAIN g \subseteq 1 .. Len(L)
  BY <1>1 DEF Sound
<1>4. ASSUME NEW n \in DOMAIN g
      PROVE  g[n] = Interpretation(L[n], g, n) /\ Settled(L, g, n)
  <2>1. /\ n \in DOMAIN f /\ n <= k /\ n \in 1 .. Len(L) /\ L[n] \in Command
        /\ g[n] = Interpretation(L[n], f, n) /\ Settled(L, f, n)
    BY <1>1, <1>3, <1>4 DEF Sound
  <2>2. \A m \in DOMAIN f : m < n => m \in DOMAIN g
    BY <1>1, <2>1 DEF IsHistory
  <2>3. Interpretation(L[n], g, n) = Interpretation(L[n], f, n)
    <3>1. \A m \in DOMAIN g : m < n => m \in DOMAIN f /\ f[m] = g[m]
      BY <1>1
    <3>2. \A m \in DOMAIN f \ DOMAIN g : m < n =>
            L[n] \in Txn /\ DOMAIN f[m].effects \cap ReadSet(L[n]) = {}
      BY <2>2
    <3> QED
      BY <1>2, <2>1, <3>1, <3>2, SameReadsSameOutcome
  <2>4. Settled(L, g, n)
    BY <2>1, <2>2, <1>3 DEF Settled
  <2> QED
    BY <2>1, <2>3, <2>4
<1> QED
  BY <1>2, <1>3, <1>4 DEF Sound

(* Appending to the log keeps an image of it sound.                        *)
LEMMA LogGrowthKeepsSound ==
  ASSUME NEW L \in Seq(Command), NEW M \in Seq(Command), NEW f, Sound(L, f),
         Len(L) <= Len(M), \A i \in 1 .. Len(L) : M[i] = L[i]
  PROVE  Sound(M, f)
<1>1. ASSUME NEW n \in DOMAIN f
      PROVE  f[n] = Interpretation(M[n], f, n) /\ Settled(M, f, n)
  <2>1. n \in 1 .. Len(L) /\ M[n] = L[n]
    BY DEF Sound
  <2>2. f[n] = Interpretation(L[n], f, n) /\ Settled(L, f, n)
    BY DEF Sound
  <2>3. \A m \in 1 .. n - 1 : M[m] = L[m]
    BY <2>1
  <2> QED
    BY <2>1, <2>2, <2>3 DEF Settled
<1> QED
  BY <1>1 DEF Sound

(* f is a sound image of L that holds the outcomes of 1 .. k.              *)
Holds(L, f, k) ==
  /\ L \in Seq(Command) /\ IsHistory(f) /\ Sound(L, f)
  /\ k \in 0 .. Len(L) /\ 1 .. k \subseteq DOMAIN f

(* The log determines its outcomes: two sound images agree on every prefix *)
(* they both hold.                                                         *)
LEMMA SoundImagesAgree ==
  ASSUME NEW L, NEW f, NEW g, NEW k, Holds(L, f, k), Holds(L, g, k)
  PROVE  \A n \in 1 .. k : f[n] = g[n]
<1> USE DEF Holds
<1> DEFINE T == {n \in 1 .. k : f[n] # g[n]}
<1> SUFFICES ASSUME T # {} PROVE FALSE
  OBVIOUS
<1>1. PICK n \in T : \A m \in T : n <= m
  <2>1. T \in SUBSET Nat
    OBVIOUS
  <2> QED
    BY <2>1, LeastMember
<1>2. /\ n \in 1 .. k /\ n \in Nat /\ n \in 1 .. Len(L) /\ L[n] \in Command
      /\ n \in DOMAIN f /\ n \in DOMAIN g
  BY <1>1 DEF Sound
<1>3. \A m \in 1 .. n - 1 : m \in DOMAIN f /\ m \in DOMAIN g /\ f[m] = g[m]
  <2> TAKE m \in 1 .. n - 1
  <2>1. m \in 1 .. k /\ m < n
    BY <1>2
  <2> QED
    BY <1>1, <1>2, <2>1
<1>4. Interpretation(L[n], f, n) = Interpretation(L[n], g, n)
  <2>1. \A m \in DOMAIN f \cup DOMAIN g : m < n => m \in 1 .. n - 1
    BY <1>2 DEF Sound
  <2> QED
    BY <1>2, <1>3, <2>1, SameReadsSameOutcome
<1>5. f[n] = g[n]
  BY <1>2, <1>4 DEF Sound
<1> QED
  BY <1>1, <1>5

-----------------------------------------------------------------------------
(* The inductive invariant.                                                *)

(* The visible outcomes are a sound prefix of the log's.                   *)
ObservedInv ==
  /\ \E k \in 0 .. Len(log) : DOMAIN observed = 1 .. k
  /\ Sound(log, observed)

(* So are the published ones.                                              *)
CheckpointInv ==
  /\ DOMAIN checkpoint.image = 1 .. checkpoint.sequence
  /\ Sound(log, checkpoint.image)

(* The store's image is sound and holds everything up to the frontier,     *)
(* which has not fallen behind the checkpoint.                             *)
LiveInv ==
  /\ mode \in {"recovering", "running"} =>
       /\ Sound(log, live)
       /\ 1 .. frontier \subseteq DOMAIN live
       /\ checkpoint.sequence <= frontier
  /\ mode = "recovering" => DOMAIN live = 1 .. frontier
  /\ mode = "running" => DOMAIN observed = 1 .. frontier

(* The schedule holds the records between the frontier and the last        *)
(* assigned sequence, and the group being built is its tail.               *)
ScheduleInv ==
  mode = "running" =>
    /\ DOMAIN entries = frontier + 1 .. Len(log) + Len(records)
    /\ \A n \in DOMAIN entries : n <= Len(log) => entries[n].request = log[n]
    /\ \A i \in DOMAIN records :
         /\ records[i].sequence = Len(log) + i
         /\ records[i].request = entries[Len(log) + i].request
    /\ head # None /\ head.request \in Txn => head.sequence = NextSequence

(* Every unresolved earlier writer of something an entry reads is one of   *)
(* its dependencies.                                                       *)
DependencyInv ==
  mode = "running" =>
    \A n \in DOMAIN entries :
      /\ n \in DOMAIN live => ~entries[n].prepared
      /\ \A m \in unresolved :
           m < n /\ overlaps(Writes(entries[m].request), Reads(entries[n].request))
             => m \in entries[n].dependencies

Busy(w) == worker[w].kind \in {"running", "done"}

(* What a worker will report or has reported.                              *)
Result(w) ==
  IF worker[w].kind = "running"
    THEN Interpretation(log[worker[w].sequence], worker[w].view, worker[w].sequence)
    ELSE worker[w].outcome

(* Each busy worker holds a durable, unresolved record of its own, and its *)
(* result is what the record would give on the image of this moment.       *)
WorkerInv ==
  mode = "running" =>
    /\ \A w \in Workers : Busy(w) =>
         LET n == worker[w].sequence
         IN /\ n \in DOMAIN entries /\ n \in 1 .. Len(log)
            /\ n \notin DOMAIN live
            /\ ~entries[n].prepared
            /\ Settled(log, live, n)
            /\ Result(w) = Interpretation(log[n], live, n)
    /\ \A w, v \in Workers :
         Busy(w) /\ Busy(v) /\ worker[w].sequence = worker[v].sequence => w = v

(* An unopened directory has no memory.                                    *)
RestInv ==
  mode \notin {"running", "stopping"} =>
    /\ entries = NoEntries /\ records = <<>> /\ head = None
    /\ worker = [w \in Workers |-> Idle]

IInv ==
  /\ TypeOK /\ ObservedInv /\ CheckpointInv /\ LiveInv /\ ScheduleInv
  /\ DependencyInv /\ WorkerInv /\ RestInv

-----------------------------------------------------------------------------
(* Lemmas about the parts of a step.                                       *)

(* Images are histories.                                                   *)
LEMMA ImageIsHistory ==
  ASSUME NEW f, IsImage(f), StoreTypeOK
  PROVE  IsHistory(f)
BY DEF IsImage, IsHistory, StoreTypeOK

(* A checkpoint taken at k of a sound image that holds 1 .. k is one of    *)
(* exactly that prefix.                                                    *)
LEMMA CheckpointIsSound ==
  ASSUME NEW L, NEW f, NEW k, Holds(L, f, k)
  PROVE  LET cp == Checkpoint(k, f)
         IN /\ cp = [sequence |-> cp.sequence, image |-> cp.image]
            /\ cp.sequence = k
            /\ cp.image = [n \in 1 .. k |-> f[n]]
            /\ DOMAIN cp.image = 1 .. k
            /\ \A n \in 1 .. k : cp.image[n] \in Outcome
            /\ Sound(L, cp.image)
<1> USE DEF Holds
<1>1. {m \in DOMAIN f : m <= k} = 1 .. k
  BY DEF Sound
<1>2. Through(f, k) = [n \in 1 .. k |-> f[n]]
  BY <1>1 DEF Through
<1>3. \A n \in 1 .. k : f[n] \in Outcome
  BY DEF IsHistory
<1>4. Sound(L, Through(f, k))
  BY PrefixIsSound
<1> QED
  BY <1>2, <1>3, <1>4 DEF Checkpoint

(* Appending a group adds its requests to the end of the log.              *)
LEMMA AppendedIsLonger ==
  ASSUME StoreTypeOK, ScheduleTypeOK
  PROVE  /\ Appended \in Seq(Command)
         /\ Len(Appended) = Len(log) + Len(records)
         /\ \A i \in 1 .. Len(log) : Appended[i] = log[i]
         /\ \A i \in 1 .. Len(records) : Appended[Len(log) + i] = records[i].request
<1> DEFINE more == [i \in DOMAIN records |-> records[i].request]
<1>1. DOMAIN records = 1 .. Len(records) /\ Len(records) \in Nat
  BY DEF ScheduleTypeOK
<1>2. \A i \in 1 .. Len(records) : records[i].request \in Command
  <2>1. ASSUME NEW i \in 1 .. Len(records)
        PROVE  records[i] \in [request : Txn, sequence : Nat]
    BY ElementOfSeq DEF ScheduleTypeOK
  <2> QED
    BY <2>1 DEF Command
<1>3. more \in Seq(Command) /\ Len(more) = Len(records)
  BY <1>1, <1>2
<1>4. log \in Seq(Command)
  BY DEF StoreTypeOK
<1> HIDE DEF more
<1>5. Appended = log \o more
  BY DEF Appended, more
<1>6. \A i \in 1 .. Len(records) : more[i] = records[i].request
  BY <1>1 DEF more
<1>7. /\ log \o more \in Seq(Command)
      /\ Len(log \o more) = Len(log) + Len(more)
      /\ \A i \in 1 .. Len(log) + Len(more) :
           (log \o more)[i] = IF i <= Len(log) THEN log[i] ELSE more[i - Len(log)]
  BY <1>3, <1>4, ConcatProperties
<1>8. Len(log) \in Nat
  BY <1>4
<1>9. ASSUME NEW i \in 1 .. Len(records)
      PROVE  Appended[Len(log) + i] = records[i].request
  <2>1. /\ Len(log) + i \in 1 .. Len(log) + Len(more)
        /\ ~(Len(log) + i <= Len(log)) /\ (Len(log) + i) - Len(log) = i
    BY <1>1, <1>3, <1>8
  <2>2. (log \o more)[Len(log) + i] = more[(Len(log) + i) - Len(log)]
    BY <1>7, <2>1
  <2> QED
    BY <1>5, <1>6, <2>1, <2>2
<1>10. ASSUME NEW i \in 1 .. Len(log)
       PROVE  Appended[i] = log[i]
  BY <1>1, <1>3, <1>5, <1>7, <1>8
<1> QED
  BY <1>3, <1>5, <1>7, <1>9, <1>10

(* An answer keeps every reply well formed.                                *)
LEMMA AnswerType ==
  ASSUME CallerTypeOK, NEW cs, NEW r \in Replies
  PROVE  Answer(cs, r) \in [Command -> Replies]
BY DEF Answer, CallerTypeOK

(* A receipt is a reply.                                                   *)
LEMMA ReceiptType ==
  ASSUME NEW n \in Nat, NEW o \in Outcome
  PROVE  Receipt(n, o) \in Replies
BY DEF Receipt, Replies

(* A step that touches no part of the log, the images or the schedule.     *)
LEMMA QuietStep ==
  ASSUME IInv, CallerTypeOK', IntakeTypeOK', spare' \in 0 .. GroupLimit,
         UNCHANGED <<log, checkpoint, mode, observed, records, head, entries,
                     frontier, live, worker>>
  PROVE  IInv'
<1>1. StoreTypeOK'
  BY DEF IInv, TypeOK, StoreTypeOK, IsImage
<1>2. ScheduleTypeOK'
  BY DEF IInv, TypeOK, ScheduleTypeOK, IsJob, IsImage
<1>3. TypeOK'
  BY <1>1, <1>2 DEF TypeOK
<1>4. ObservedInv' /\ CheckpointInv' /\ LiveInv' /\ RestInv'
  BY DEF IInv, ObservedInv, CheckpointInv, LiveInv, RestInv
<1>5. ScheduleInv'
  BY DEF IInv, ScheduleInv, NextSequence
<1>6. DependencyInv'
  BY DEF IInv, DependencyInv, unresolved
<1>7. WorkerInv'
  BY DEF IInv, WorkerInv, Busy, Result
<1> QED
  BY <1>3, <1>4, <1>5, <1>6, <1>7 DEF IInv

(* A step into "stopping": only the durable state still matters.           *)
LEMMA StoppingStep ==
  ASSUME IInv, mode' = "stopping", TypeOK', ObservedInv', CheckpointInv'
  PROVE  IInv'
BY DEF IInv, LiveInv, ScheduleInv, DependencyInv, WorkerInv, RestInv

-----------------------------------------------------------------------------
(* Clients, and the coordinator's intake.                                  *)

(* So is every answer without a receipt.                                   *)
LEMMA PlainReplies ==
  {Unsent, Waiting, Rejected, Closed, Uncertain} \subseteq Replies
BY DEF Replies

(* submit, close and control messages only fill the channels, so they      *)
(* preserve the invariant.                                                 *)
LEMMA ClientsSafe ==
  ASSUME IInv, Clients
  PROVE  IInv'
<1> USE DEF IInv, TypeOK
<1>1. ASSUME NEW c \in Command, Submit(c)
      PROVE  IInv'
  <2>1. CallerTypeOK'
    BY <1>1, AnswerType, PlainReplies DEF Submit, CallerTypeOK
  <2>2. IntakeTypeOK'
    BY <1>1, AppendProperties DEF Submit, IntakeTypeOK, Request, intake, pool
  <2>3. UNCHANGED <<log, checkpoint, mode, observed, records, spare, head,
                    entries, frontier, live, worker>>
    BY <1>1 DEF Submit, disk, intake, group, schedule, pool
  <2> QED
    BY <2>1, <2>2, <2>3, QuietStep DEF ScheduleTypeOK
<1>2. ASSUME SubmitClose
      PROVE  IInv'
  <2>1. CallerTypeOK'
    BY <1>2 DEF SubmitClose, CallerTypeOK
  <2>2. IntakeTypeOK'
    BY <1>2, AppendProperties DEF SubmitClose, IntakeTypeOK, Request, intake, pool
  <2>3. UNCHANGED <<log, checkpoint, mode, observed, records, spare, head,
                    entries, frontier, live, worker>>
    BY <1>2 DEF SubmitClose, disk, intake, group, schedule, pool
  <2> QED
    BY <2>1, <2>2, <2>3, QuietStep DEF ScheduleTypeOK
<1>3. ASSUME NEW k \in Control, SubmitControl(k)
      PROVE  IInv'
  <2>1. CallerTypeOK'
    BY <1>3 DEF SubmitControl, CallerTypeOK
  <2>2. IntakeTypeOK'
    BY <1>3, AppendProperties DEF SubmitControl, IntakeTypeOK, intake, pool
  <2>3. UNCHANGED <<log, checkpoint, mode, observed, records, spare, head,
                    entries, frontier, live, worker>>
    BY <1>3 DEF SubmitControl, disk, intake, group, schedule, pool
  <2> QED
    BY <2>1, <2>2, <2>3, QuietStep DEF ScheduleTypeOK
<1> QED
  BY <1>1, <1>2, <1>3 DEF Clients

(* A request taken from the channel is a request.                          *)
LEMMA FirstOfQueue ==
  ASSUME IntakeTypeOK, queue # <<>>
  PROVE  queue[1] \in Request /\ Tail(queue) \in Seq(Request)
<1>1. queue \in Seq(Request)
  BY DEF IntakeTypeOK
<1>2. Len(queue) \in Nat \ {0}
  BY <1>1, EmptySeq
<1> QED
  BY <1>1, <1>2, HeadTailProperties, ElementOfSeq

(* Refusing a member of a group inside register preserves the invariant.   *)
LEMMA RejectInGroupSafe ==
  ASSUME IInv, RejectInGroup
  PROVE  IInv'
<1> USE DEF IInv, TypeOK
<1>1. CallerTypeOK'
  BY AnswerType, PlainReplies DEF RejectInGroup, CallerTypeOK
<1>2. IntakeTypeOK'
  BY FirstOfQueue DEF RejectInGroup, GroupGoesOn, IntakeTypeOK, intake, pool
<1>3. spare' \in 0 .. GroupLimit
  BY EngineOptions, SMTT(30) DEF RejectInGroup, GroupGoesOn, ScheduleTypeOK
<1>4. UNCHANGED <<log, checkpoint, mode, observed, records, head, entries,
                  frontier, live, worker>>
  BY DEF RejectInGroup, disk, intake, schedule, pool
<1> QED
  BY <1>1, <1>2, <1>3, <1>4, QuietStep

(* Keeping an administrative request or Close aside while a group forms    *)
(* preserves the invariant.                                                *)
LEMMA MeetBarrierSafe ==
  ASSUME IInv, MeetBarrier
  PROVE  IInv'
<1> USE DEF IInv, TypeOK
<1>1. CallerTypeOK'
  BY DEF MeetBarrier, CallerTypeOK
<1>2. IntakeTypeOK'
  BY FirstOfQueue DEF MeetBarrier, GroupGoesOn, IntakeTypeOK, pool
<1>3. UNCHANGED <<log, checkpoint, mode, observed, records, spare, head, entries,
                  frontier, live, worker>>
  BY DEF MeetBarrier, disk, group, schedule, pool
<1> QED
  BY <1>1, <1>2, <1>3, QuietStep DEF ScheduleTypeOK

(* Taking a request keeps the channel and the request kept aside typed.    *)
LEMMA TakeType ==
  ASSUME IntakeTypeOK, NEW r, Take(r)
  PROVE  /\ r \in Request
         /\ queue' \in Seq(Request)
         /\ barrier' = None \/ \E q \in Request : barrier' = Pending(q)
<1>1. CASE ReadyForEvent /\ barrier = Pending(r) /\ barrier' = None /\ UNCHANGED queue
  <2>1. barrier # None
    BY <1>1 DEF Pending, None
  <2>2. PICK q \in Request : barrier = Pending(q)
    BY <2>1 DEF IntakeTypeOK
  <2>3. r = q
    BY <1>1, <2>2 DEF Pending
  <2> QED
    BY <1>1, <2>3 DEF IntakeTypeOK
<1>2. CASE WaitsForRequest /\ queue # <<>> /\ r = queue[1] /\ queue' = Tail(queue)
           /\ UNCHANGED barrier
  BY <1>2, FirstOfQueue DEF IntakeTypeOK
<1> QED
  BY <1>1, <1>2 DEF Take

(* Taking a command from the channel, prepared or refused, preserves the   *)
(* invariant.                                                              *)
LEMMA TakeCommandSafe ==
  ASSUME IInv, NEW c \in Command, TakeCommand(c)
  PROVE  IInv'
<1> USE DEF IInv, TypeOK
<1>1. Take(c) /\ UNCHANGED <<log, checkpoint, mode, observed, records, spare,
                             entries, frontier, live, worker, poisoned>>
  BY DEF TakeCommand, disk, group, schedule, pool
<1>2. mode = "running" /\ records = <<>>
  BY <1>1 DEF Take, WaitsForRequest, ReadyForEvent, ReadyForHead, NothingReported,
              AtLoopTop
<1>3. Len(log) \in Nat
  BY DEF StoreTypeOK
<1>4. CallerTypeOK'
  BY AnswerType, PlainReplies DEF TakeCommand, CallerTypeOK
<1>5. CASE UNCHANGED head
  <2>1. IntakeTypeOK'
    BY <1>1, <1>5, TakeType DEF TakeCommand, IntakeTypeOK
  <2> QED
    BY <1>1, <1>4, <1>5, <2>1, QuietStep DEF ScheduleTypeOK
<1>6. CASE head' = Prepared(c, Len(log) + 1)
  <2>1. IntakeTypeOK'
    <3>1. /\ head'.request = c /\ head'.sequence = Len(log) + 1
          /\ head' = Prepared(head'.request, head'.sequence)
      BY <1>6 DEF Prepared
    <3>2. head'.request \in Command /\ head'.sequence \in Nat
      BY <1>3, <3>1
    <3> QED
      BY <1>1, <3>1, <3>2, TakeType DEF TakeCommand, IntakeTypeOK
  <2>2. StoreTypeOK'
    BY <1>1 DEF StoreTypeOK, IsImage
  <2>3. ScheduleTypeOK'
    BY <1>1 DEF ScheduleTypeOK, IsJob, IsImage
  <2>4. ObservedInv' /\ CheckpointInv' /\ LiveInv'
    BY <1>1 DEF ObservedInv, CheckpointInv, LiveInv
  <2>5. RestInv'
    BY <1>1, <1>2 DEF RestInv
  <2>6. ScheduleInv'
    <3>1. head'.sequence = NextSequence'
      <4>1. Len(records') = 0
        BY <1>1, <1>2
      <4> QED
        BY <1>1, <1>3, <1>6, <4>1 DEF NextSequence, Prepared
    <3> QED
      BY <1>1, <3>1 DEF ScheduleInv
  <2>7. DependencyInv'
    BY <1>1 DEF DependencyInv, unresolved
  <2>8. WorkerInv'
    BY <1>1 DEF WorkerInv, Busy, Result
  <2> QED
    BY <1>4, <2>1, <2>2, <2>3, <2>4, <2>5, <2>6, <2>7, <2>8
<1> QED
  BY <1>5, <1>6 DEF TakeCommand

(* Close, the end of the requests and control messages preserve the        *)
(* invariant.                                                              *)
LEMMA OtherEventsSafe ==
  ASSUME IInv, TakeClose \/ EndOfRequests \/ TakeControl
  PROVE  IInv'
<1> USE DEF IInv, TypeOK
<1>1. CallerTypeOK'
  BY DEF TakeClose, EndOfRequests, TakeControl, CallerTypeOK
<1>2. IntakeTypeOK'
  <2>1. CASE TakeClose
    BY <2>1, TakeType DEF TakeClose, IntakeTypeOK, pool
  <2>2. CASE EndOfRequests
    BY <2>2 DEF EndOfRequests, IntakeTypeOK, channels, pool
  <2>3. CASE TakeControl
    <3>1. control # <<>> /\ control \in Seq(Control)
      BY <2>3 DEF TakeControl, ControlPending, IntakeTypeOK
    <3>2. Tail(control) \in Seq(Control)
      BY <3>1, HeadTailProperties
    <3> QED
      BY <2>3, <3>2 DEF TakeControl, IntakeTypeOK, pool
  <2> QED
    BY <2>1, <2>2, <2>3
<1>3. UNCHANGED <<log, checkpoint, mode, observed, records, spare, head, entries,
                  frontier, live, worker>>
  BY DEF TakeClose, EndOfRequests, TakeControl, disk, group, schedule, pool
<1> QED
  BY <1>1, <1>2, <1>3, QuietStep DEF ScheduleTypeOK

-----------------------------------------------------------------------------
(* Stopping.                                                               *)

(* A stop that leaves the images and the schedule alone.                   *)
LEMMA QuietStop ==
  ASSUME IInv, mode' = "stopping", CallerTypeOK', IntakeTypeOK',
         UNCHANGED <<log, checkpoint, observed, frontier, live, entries, worker,
                     records, spare>>
  PROVE  IInv'
<1> USE DEF IInv, TypeOK
<1>1. StoreTypeOK'
  BY DEF StoreTypeOK, IsImage
<1>2. ScheduleTypeOK'
  BY DEF ScheduleTypeOK, IsJob, IsImage
<1>3. ObservedInv' /\ CheckpointInv'
  BY DEF ObservedInv, CheckpointInv
<1> QED
  BY <1>1, <1>2, <1>3, StoppingStep

(* The steps in which the coordinator stops without touching the disk      *)
(* preserve the invariant.                                                 *)
LEMMA QuietStopsSafe ==
  ASSUME IInv,
         \/ StopPoisoned \/ StopOnStorageError \/ PrepareFailsInGroup
         \/ \E c \in Command : TakeFails(c)
  PROVE  IInv'
<1> USE DEF IInv, TypeOK, Fail
<1>1. CASE StopPoisoned \/ StopOnStorageError
  <2>1. CallerTypeOK' /\ IntakeTypeOK'
    BY <1>1 DEF StopPoisoned, StopOnStorageError, CallerTypeOK, IntakeTypeOK,
                channels, intake, pool
  <2> QED
    BY <1>1, <2>1, QuietStop
    DEF StopPoisoned, StopOnStorageError, disk, group, schedule, pool
<1>2. CASE PrepareFailsInGroup
  <2>1. CallerTypeOK'
    BY <1>2, AnswerType, PlainReplies DEF PrepareFailsInGroup, CallerTypeOK
  <2>2. IntakeTypeOK'
    BY <1>2, FirstOfQueue
    DEF PrepareFailsInGroup, GroupGoesOn, IntakeTypeOK, intake, pool
  <2> QED
    BY <1>2, <2>1, <2>2, QuietStop DEF PrepareFailsInGroup, disk, group, schedule, pool
<1>3. ASSUME NEW c \in Command, TakeFails(c)
      PROVE  IInv'
  <2>1. CallerTypeOK'
    BY <1>3, AnswerType, PlainReplies DEF TakeFails, CallerTypeOK
  <2>2. IntakeTypeOK'
    BY <1>3, TakeType DEF TakeFails, IntakeTypeOK, pool
  <2> QED
    BY <1>3, <2>1, <2>2, QuietStop DEF TakeFails, disk, group, schedule, pool
<1> QED
  BY <1>1, <1>2, <1>3

(* A checkpoint of the live image at the frontier of an open database.     *)
LEMMA LiveCheckpoint ==
  ASSUME IInv, mode \in {"running", "recovering"}
  PROVE  LET cp == Checkpoint(frontier, live)
         IN /\ cp = [sequence |-> cp.sequence, image |-> cp.image]
            /\ cp.sequence = frontier
            /\ DOMAIN cp.image = 1 .. frontier
            /\ IsImage(cp.image)
            /\ Sound(log, cp.image)
<1> USE DEF IInv, TypeOK
<1>1. /\ log \in Seq(Command) /\ Sound(log, live) /\ frontier \in 0 .. Len(log)
      /\ 1 .. frontier \subseteq DOMAIN live
  BY DEF StoreTypeOK, LiveInv
<1>2. IsHistory(live)
  BY ImageIsHistory DEF StoreTypeOK
<1> DEFINE cp == Checkpoint(frontier, live)
<1>3. /\ cp = [sequence |-> cp.sequence, image |-> cp.image]
      /\ cp.sequence = frontier
      /\ cp.image = [n \in 1 .. frontier |-> live[n]]
      /\ DOMAIN cp.image = 1 .. frontier
      /\ \A n \in 1 .. frontier : cp.image[n] \in Outcome
      /\ Sound(log, cp.image)
  <2>1. Holds(log, live, frontier)
    BY <1>1, <1>2 DEF Holds
  <2> QED
    BY <2>1, CheckpointIsSound
<1>4. IsImage(cp.image)
  BY <1>1, <1>3 DEF IsImage
<1> QED
  BY <1>3, <1>4

(* The stops that may publish a checkpoint of the live image first.        *)
LEMMA CheckpointStop ==
  ASSUME IInv, mode = "running", mode' = "stopping", CallerTypeOK', IntakeTypeOK',
         checkpoint' \in {checkpoint, Checkpoint(frontier, live)},
         UNCHANGED <<log, observed, frontier, live, entries, worker, records, spare>>
  PROVE  IInv'
<1> USE DEF IInv, TypeOK
<1>1. /\ checkpoint' = [sequence |-> checkpoint'.sequence, image |-> checkpoint'.image]
      /\ checkpoint'.sequence \in 0 .. Len(log)
      /\ IsImage(checkpoint'.image)
      /\ DOMAIN checkpoint'.image = 1 .. checkpoint'.sequence
      /\ Sound(log, checkpoint'.image)
  <2>1. CASE checkpoint' = checkpoint
    BY <2>1 DEF StoreTypeOK, CheckpointInv
  <2>2. CASE checkpoint' = Checkpoint(frontier, live)
    BY <2>2, LiveCheckpoint DEF StoreTypeOK
  <2> QED
    BY <2>1, <2>2
<1>2. StoreTypeOK'
  BY <1>1 DEF StoreTypeOK, IsImage
<1>3. ScheduleTypeOK'
  BY DEF ScheduleTypeOK, IsJob, IsImage
<1>4. ObservedInv' /\ CheckpointInv'
  BY <1>1 DEF ObservedInv, CheckpointInv
<1> QED
  BY <1>2, <1>3, <1>4, StoppingStep

(* Stopping after a checkpoint that was, or was not, selected preserves    *)
(* the invariant.                                                          *)
LEMMA CheckpointStopsSafe ==
  ASSUME IInv, Shutdown \/ DrainFails
  PROVE  IInv'
<1> USE DEF IInv, TypeOK, Fail
<1>1. mode = "running"
  BY DEF Shutdown, DrainFails, AdminDue, ReadyForHead, NothingReported, AtLoopTop
<1>2. CallerTypeOK' /\ IntakeTypeOK'
  BY DEF Shutdown, DrainFails, CallerTypeOK, IntakeTypeOK, channels, intake, pool
<1> QED
  BY <1>1, <1>2, CheckpointStop DEF Shutdown, DrainFails, Drained, group, schedule, pool

(* Maintenance publishes a checkpoint of the drained database.             *)
LEMMA RunMaintenanceSafe ==
  ASSUME IInv, RunMaintenance
  PROVE  IInv'
<1> USE DEF IInv, TypeOK, Fail
<1>1. mode = "running"
  BY DEF RunMaintenance, NothingReported, AtLoopTop
<1>2. UNCHANGED <<log, opens, reply, observed, queue, control, barrier, head, closing,
                  requests, prefer_requests, records, spare, entries, frontier, live,
                  worker, poisoned>>
  BY DEF RunMaintenance, channels, group, schedule, pool
<1>3. maintenance' = FALSE
  BY DEF RunMaintenance
<1>4. IntakeTypeOK'
  BY <1>2, <1>3 DEF IntakeTypeOK
<1>5. CASE mode' = "stopping" /\ checkpoint' \in {checkpoint, Checkpoint(frontier, live)}
  <2>1. CallerTypeOK'
    BY <1>2, <1>5 DEF CallerTypeOK
  <2> QED
    BY <1>1, <1>2, <1>4, <1>5, <2>1, CheckpointStop
<1>6. CASE UNCHANGED mode /\ checkpoint' = Checkpoint(frontier, live)
  <2>1. CallerTypeOK'
    BY <1>2, <1>6 DEF CallerTypeOK
  <2>2. /\ checkpoint' = [sequence |-> checkpoint'.sequence, image |-> checkpoint'.image]
        /\ checkpoint'.sequence = frontier
        /\ IsImage(checkpoint'.image)
        /\ DOMAIN checkpoint'.image = 1 .. checkpoint'.sequence
        /\ Sound(log, checkpoint'.image)
    BY <1>1, <1>6, LiveCheckpoint
  <2>3. StoreTypeOK'
    BY <1>2, <2>2 DEF StoreTypeOK, IsImage
  <2>4. ScheduleTypeOK'
    BY <1>2 DEF ScheduleTypeOK, IsJob, IsImage
  <2>5. ObservedInv' /\ CheckpointInv'
    BY <1>2, <2>2 DEF ObservedInv, CheckpointInv
  <2>6. LiveInv'
    BY <1>1, <1>2, <1>6, <2>2 DEF LiveInv, StoreTypeOK
  <2>7. ScheduleInv' /\ RestInv'
    BY <1>1, <1>2, <1>6 DEF ScheduleInv, RestInv, NextSequence
  <2>8. DependencyInv'
    BY <1>2, <1>6 DEF DependencyInv, unresolved
  <2>9. WorkerInv'
    BY <1>2, <1>6 DEF WorkerInv, Busy, Result
  <2> QED
    BY <1>4, <2>1, <2>3, <2>4, <2>5, <2>6, <2>7, <2>8, <2>9
<1> QED
  BY <1>5, <1>6 DEF RunMaintenance

-----------------------------------------------------------------------------
(* The log grows.                                                          *)

(* The durable part of the invariant survives an extension of the log.     *)
LEMMA LongerLog ==
  ASSUME IInv, log' \in Seq(Command), Len(log) <= Len(log'),
         \A i \in 1 .. Len(log) : log'[i] = log[i],
         UNCHANGED <<checkpoint, observed, live, frontier>>
  PROVE  StoreTypeOK' /\ ObservedInv' /\ CheckpointInv' /\ (Sound(log, live) => Sound(log', live))
<1> USE DEF IInv, TypeOK
<1>1. log \in Seq(Command) /\ Len(log) \in Nat /\ Len(log') \in Nat
  BY DEF StoreTypeOK
<1>2. StoreTypeOK'
  BY <1>1 DEF StoreTypeOK, IsImage
<1>3. ASSUME NEW f, Sound(log, f) PROVE Sound(log', f)
  BY <1>1, <1>3, LogGrowthKeepsSound
<1>4. ObservedInv'
  <2>1. Sound(log', observed)
    BY <1>3 DEF ObservedInv
  <2>2. \E k \in 0 .. Len(log') : DOMAIN observed = 1 .. k
    BY <1>1 DEF ObservedInv
  <2> QED
    BY <2>1, <2>2 DEF ObservedInv
<1>5. CheckpointInv'
  BY <1>3 DEF CheckpointInv
<1> QED
  BY <1>2, <1>3, <1>4, <1>5

(* The group becomes durable: the log takes over the tail of the schedule. *)
LEMMA AppendGroupSafe ==
  ASSUME IInv, AppendGroup
  PROVE  IInv'
<1> USE DEF IInv, TypeOK
<1>1. /\ log' = Appended /\ records' = <<>> /\ spare' = 0 /\ mode = "running"
      /\ UNCHANGED <<checkpoint, mode, opens, reply, observed, queue, control, barrier,
                     head, maintenance, closing, requests, prefer_requests, entries,
                     frontier, live, worker, poisoned>>
  BY DEF AppendGroup, channels, intake, schedule, pool
<1>2. /\ log' \in Seq(Command) /\ Len(log') = Len(log) + Len(records)
      /\ \A i \in 1 .. Len(log) : log'[i] = log[i]
      /\ \A i \in 1 .. Len(records) : log'[Len(log) + i] = records[i].request
  BY <1>1, AppendedIsLonger
<1>3. Len(log) \in Nat /\ Len(records) \in Nat /\ DOMAIN records = 1 .. Len(records)
  BY DEF StoreTypeOK, ScheduleTypeOK
<1>4. StoreTypeOK' /\ ObservedInv' /\ CheckpointInv' /\ (Sound(log, live) => Sound(log', live))
  BY <1>1, <1>2, <1>3, LongerLog
<1>5. CallerTypeOK' /\ IntakeTypeOK'
  BY <1>1 DEF CallerTypeOK, IntakeTypeOK
<1>6. Len(records') = 0 /\ records' \in Seq([request : Txn, sequence : Nat])
      /\ DOMAIN records' = {}
  BY <1>1
<1>7. ScheduleTypeOK'
  <2>1. DOMAIN entries \subseteq 1 .. Len(log') + Len(records')
    BY <1>2, <1>3, <1>6 DEF ScheduleTypeOK
  <2>2. \A w \in Workers : IsJob(worker[w])'
    <3> SUFFICES ASSUME NEW w \in Workers PROVE IsJob(worker[w])'
      OBVIOUS
    <3>1. IsJob(worker[w])
      BY DEF ScheduleTypeOK
    <3> QED
      BY <1>1, <1>2, <1>3, <3>1 DEF IsJob, IsImage
  <2> QED
    BY <1>1, <1>6, <2>1, <2>2, EngineOptions DEF ScheduleTypeOK
<1>8. LiveInv'
  BY <1>1, <1>4 DEF LiveInv
<1>9. ScheduleInv'
  <2>1. DOMAIN entries = frontier + 1 .. Len(log') + Len(records')
    BY <1>1, <1>2, <1>3, <1>6 DEF ScheduleInv
  <2>2. ASSUME NEW n \in DOMAIN entries, n <= Len(log')
        PROVE  entries[n].request = log'[n]
    <3>1. n \in Nat /\ n >= 1
      BY <1>1, <2>1, <1>3 DEF StoreTypeOK
    <3>2. CASE n <= Len(log)
      BY <1>1, <1>2, <3>1, <3>2 DEF ScheduleInv
    <3>3. CASE ~(n <= Len(log))
      <4>1. /\ n - Len(log) \in 1 .. Len(records)
            /\ Len(log) + (n - Len(log)) = n
        BY <1>2, <1>3, <2>2, <3>1, <3>3
      <4>2. records[n - Len(log)].request = entries[n].request
        BY <1>1, <1>3, <4>1 DEF ScheduleInv
      <4>3. log'[n] = records[n - Len(log)].request
        BY <1>2, <4>1
      <4> QED
        BY <4>2, <4>3
    <3> QED
      BY <3>2, <3>3
  <2>3. NextSequence' = NextSequence
    BY <1>2, <1>3, <1>6 DEF NextSequence
  <2> QED
    BY <1>1, <1>6, <2>1, <2>2, <2>3 DEF ScheduleInv
<1>10. DependencyInv'
  BY <1>1 DEF DependencyInv, unresolved
<1>11. WorkerInv'
  <2>1. ASSUME NEW w \in Workers, Busy(w), NEW n, n = worker[w].sequence
        PROVE  /\ n \in DOMAIN entries /\ n \in 1 .. Len(log')
               /\ n \notin DOMAIN live
               /\ ~entries[n].prepared
               /\ Settled(log', live, n)
               /\ Result(w)' = Interpretation(log'[n], live, n)
    <3>1. /\ n \in DOMAIN entries /\ n \in 1 .. Len(log) /\ n \notin DOMAIN live
          /\ ~entries[n].prepared /\ Settled(log, live, n)
          /\ Result(w) = Interpretation(log[n], live, n)
      BY <1>1, <2>1 DEF WorkerInv
    <3>2. log'[n] = log[n] /\ n \in 1 .. Len(log') /\ n \in Nat
      BY <1>2, <1>3, <3>1
    <3>3. \A m \in 1 .. n - 1 : log'[m] = log[m]
      BY <1>2, <1>3, <3>1
    <3>4. Settled(log', live, n)
      BY <3>1, <3>2, <3>3 DEF Settled
    <3> QED
      BY <1>1, <2>1, <3>1, <3>2, <3>4 DEF Result
  <2> QED
    BY <1>1, <2>1 DEF WorkerInv, Busy
<1>12. RestInv'
  BY <1>1 DEF RestInv
<1> QED
  BY <1>4, <1>5, <1>7, <1>8, <1>9, <1>10, <1>11, <1>12

(* An append that failed, with its group on disk or not, preserves the     *)
(* invariant.                                                              *)
LEMMA AppendFailsSafe ==
  ASSUME IInv, AppendFails
  PROVE  IInv'
<1> USE DEF IInv, TypeOK
<1>1. /\ log' \in {log, Appended} /\ mode' = "stopping"
      /\ UNCHANGED <<checkpoint, opens, reply, observed, queue, control, barrier, head,
                     maintenance, closing, requests, prefer_requests, entries, frontier,
                     live, worker, poisoned, records, spare>>
  BY DEF AppendFails, Fail, channels, intake, schedule, group, pool
<1>2. CallerTypeOK' /\ IntakeTypeOK'
  BY <1>1 DEF CallerTypeOK, IntakeTypeOK
<1>3. Len(log) \in Nat /\ Len(records) \in Nat
  BY DEF StoreTypeOK, ScheduleTypeOK
<1>4. /\ log' \in Seq(Command) /\ Len(log') \in Nat /\ Len(log) <= Len(log')
      /\ \A i \in 1 .. Len(log) : log'[i] = log[i]
  BY <1>1, <1>3, AppendedIsLonger DEF StoreTypeOK
<1>5. StoreTypeOK' /\ ObservedInv' /\ CheckpointInv'
  BY <1>1, <1>4, LongerLog
<1>6. ScheduleTypeOK'
  <2>1. DOMAIN entries \subseteq 1 .. Len(log') + Len(records)
    BY <1>3, <1>4 DEF ScheduleTypeOK
  <2>2. \A w \in Workers : IsJob(worker[w])'
    <3> SUFFICES ASSUME NEW w \in Workers PROVE IsJob(worker[w])'
      OBVIOUS
    <3>1. IsJob(worker[w])
      BY DEF ScheduleTypeOK
    <3> QED
      BY <1>1, <1>3, <1>4, <3>1 DEF IsJob, IsImage
  <2> QED
    BY <1>1, <2>1, <2>2 DEF ScheduleTypeOK
<1> QED
  BY <1>1, <1>2, <1>5, <1>6, StoppingStep

-----------------------------------------------------------------------------
(* Going down and coming back.                                             *)

(* Memory is lost, the durable state stays or the log has grown.           *)
LEMMA DownStep ==
  ASSUME IInv, mode' = "down", Forget, live' = NoEntries, frontier' = 0,
         log' \in Seq(Command), Len(log) <= Len(log'),
         \A i \in 1 .. Len(log) : log'[i] = log[i],
         UNCHANGED <<checkpoint, observed, opens>>,
         reply' \in [Command -> Replies]
  PROVE  IInv'
<1> USE DEF IInv, TypeOK
<1>1. log \in Seq(Command) /\ Len(log) \in Nat /\ Len(log') \in Nat
  BY DEF StoreTypeOK
<1>2. StoreTypeOK'
  BY <1>1 DEF StoreTypeOK, IsImage, NoEntries
<1>3. ASSUME NEW f, Sound(log, f) PROVE Sound(log', f)
  BY <1>1, <1>3, LogGrowthKeepsSound
<1>4. ObservedInv'
  <2>1. Sound(log', observed)
    BY <1>3 DEF ObservedInv
  <2>2. \E k \in 0 .. Len(log') : DOMAIN observed = 1 .. k
    BY <1>1 DEF ObservedInv
  <2> QED
    BY <2>1, <2>2 DEF ObservedInv
<1>5. CheckpointInv'
  BY <1>3 DEF CheckpointInv
<1>6. CallerTypeOK'
  BY DEF CallerTypeOK
<1>7. IntakeTypeOK'
  <2>1. queue' \in Seq(Request) /\ control' \in Seq(Control)
    BY EmptySeq DEF Forget
  <2> QED
    BY <2>1 DEF IntakeTypeOK, Forget
<1>8. ScheduleTypeOK'
  <2>1. worker' = [w \in Workers |-> Idle] /\ entries' = NoEntries /\ records' = <<>>
        /\ spare' = 0
    BY DEF Forget
  <2>2. \A w \in Workers : worker'[w] = Idle
    BY <2>1
  <2>3. \A w \in Workers : IsJob(worker[w])'
    BY <2>2 DEF IsJob
  <2>4. worker' = [w \in Workers |-> worker'[w]]
    BY <2>1
  <2>5. DOMAIN entries' = {}
        /\ entries' \in [DOMAIN entries' ->
             [request : Txn, dependencies : SUBSET Nat, prepared : BOOLEAN]]
    BY <2>1 DEF NoEntries
  <2> QED
    BY <2>1, <2>3, <2>4, <2>5, EngineOptions DEF ScheduleTypeOK
<1>9. LiveInv' /\ ScheduleInv' /\ DependencyInv' /\ WorkerInv'
  BY DEF LiveInv, ScheduleInv, DependencyInv, WorkerInv
<1>10. RestInv'
  BY DEF RestInv, Forget
<1> QED
  BY <1>2, <1>4, <1>5, <1>6, <1>7, <1>8, <1>9, <1>10

(* Exit and crash forget everything but the disk, which the invariant      *)
(* survives.                                                               *)
LEMMA GoingDownSafe ==
  ASSUME IInv, Exit \/ Crash \/ CrashInAppend
  PROVE  IInv'
<1> USE DEF IInv, TypeOK
<1>1. mode' = "down" /\ Forget /\ live' = NoEntries /\ frontier' = 0
      /\ UNCHANGED <<checkpoint, observed, opens>> /\ log' \in {log, Appended}
  BY DEF Exit, Crash, CrashInAppend, disk
<1>2. Len(log) \in Nat /\ Len(records) \in Nat
  BY DEF StoreTypeOK, ScheduleTypeOK
<1>3. /\ log' \in Seq(Command) /\ Len(log) <= Len(log')
      /\ \A i \in 1 .. Len(log) : log'[i] = log[i]
  BY <1>1, <1>2, AppendedIsLonger DEF StoreTypeOK
<1>4. reply' \in [Command -> Replies]
  <2>1. CASE Exit
    BY <2>1, PlainReplies DEF Exit, CallerTypeOK
  <2>2. CASE Crash \/ CrashInAppend
    BY <2>2, AnswerType, PlainReplies DEF Crash, CrashInAppend
  <2> QED
    BY <2>1, <2>2
<1> QED
  BY <1>1, <1>3, <1>4, DownStep

(* Opening starts from the checkpoint's image, which is serial up to its   *)
(* sequence.                                                               *)
LEMMA OpenSafe ==
  ASSUME IInv, Open
  PROVE  IInv'
<1> USE DEF IInv, TypeOK
<1>1. /\ mode = "down" /\ mode' = "recovering" /\ opens' = opens + 1 /\ opens < MaxOpens
      /\ live' = checkpoint.image /\ frontier' = checkpoint.sequence
      /\ UNCHANGED <<log, checkpoint, reply, observed, queue, control, barrier, head,
                     maintenance, closing, requests, prefer_requests, records, spare,
                     entries, worker, poisoned>>
  BY DEF Open, disk, channels, intake, group, pool
<1>2. StoreTypeOK'
  BY <1>1 DEF StoreTypeOK, IsImage
<1>3. CallerTypeOK'
  BY <1>1, EngineOptions DEF CallerTypeOK
<1>4. IntakeTypeOK'
  BY <1>1 DEF IntakeTypeOK
<1>5. ScheduleTypeOK'
  BY <1>1 DEF ScheduleTypeOK, IsJob, IsImage
<1>6. ObservedInv' /\ CheckpointInv'
  BY <1>1 DEF ObservedInv, CheckpointInv
<1>7. LiveInv'
  BY <1>1 DEF LiveInv, CheckpointInv, StoreTypeOK
<1>8. ScheduleInv' /\ DependencyInv' /\ WorkerInv' /\ RestInv'
  BY <1>1 DEF ScheduleInv, DependencyInv, WorkerInv, RestInv
<1> QED
  BY <1>2, <1>3, <1>4, <1>5, <1>6, <1>7, <1>8

(* Executing the next record of a log on a sound image of all before it    *)
(* gives a sound image.                                                    *)
LEMMA ExecutedIsSound ==
  ASSUME NEW L \in Seq(Command), NEW n \in 1 .. Len(L), Sound(L, live), IsHistory(live),
         DOMAIN live = 1 .. n - 1
  PROVE  /\ DOMAIN Executed(L[n], n) = 1 .. n
         /\ Executed(L[n], n) = [m \in 1 .. n |-> Executed(L[n], n)[m]]
         /\ \A m \in 1 .. n : Executed(L[n], n)[m] \in Outcome
         /\ Sound(L, Executed(L[n], n))
<1> DEFINE g == Executed(L[n], n)
<1>1. n \in Nat /\ L[n] \in Command
  OBVIOUS
<1>2. DOMAIN live \cup {n} = 1 .. n
  BY <1>1
<1>3. /\ g = [m \in 1 .. n |-> g[m]] /\ DOMAIN g = 1 .. n
      /\ g[n] = Interpretation(L[n], live, n)
      /\ \A m \in 1 .. n - 1 : g[m] = live[m]
  BY <1>1, <1>2 DEF Executed
<1>4. \A m \in 1 .. n : g[m] \in Outcome
  <2>1. g[n] \in Outcome
    BY <1>1, <1>3, InterpretationIsOutcome
  <2>2. \A m \in 1 .. n - 1 : g[m] \in Outcome
    BY <1>3 DEF IsHistory
  <2>3. \A m \in 1 .. n : m = n \/ m \in 1 .. n - 1
    BY <1>1
  <2> QED
    BY <2>1, <2>2, <2>3
<1>5. Settled(L, live, n)
  BY DEF Settled
<1>6. IsHistory(g)
  BY <1>3, <1>4 DEF IsHistory
<1>7. Sound(L, g)
  <2> HIDE DEF g
  <2>1. \A m \in DOMAIN live : m \in DOMAIN g /\ g[m] = live[m]
    <3>1. 1 .. n - 1 \subseteq 1 .. n
      BY <1>1
    <3>2. DOMAIN live = 1 .. n - 1
      OBVIOUS
    <3> QED
      BY <1>3, <3>1, <3>2
  <2>2. \A m \in DOMAIN g \ DOMAIN live : m = n
    BY <1>1, <1>3
  <2>3. \A m \in DOMAIN g \ DOMAIN live :
          g[m] = Interpretation(L[m], live, m) /\ Settled(L, live, m)
    BY <1>3, <1>5, <2>2
  <2>4. DOMAIN g \subseteq 1 .. Len(L)
    BY <1>1, <1>3
  <2> QED
    BY <1>6, <2>1, <2>3, <2>4, InstallKeepsSound
<1> QED
  BY <1>3, <1>4, <1>7

(* One step of the replay loop of recover installs the serial outcome of   *)
(* the next record.                                                        *)
LEMMA ReplaySafe ==
  ASSUME IInv, Replay
  PROVE  IInv'
<1> USE DEF IInv, TypeOK
<1>1. /\ mode = "recovering" /\ frontier < Len(log)
      /\ UNCHANGED <<log, checkpoint, opens, reply, observed, queue, control, barrier,
                     head, maintenance, closing, requests, prefer_requests, records,
                     spare, entries, worker, poisoned>>
  BY DEF Replay, disk, channels, intake, group, pool
<1>2. CallerTypeOK' /\ mode' \in {"recovering", "corrupt"}
  BY <1>1 DEF CallerTypeOK, Replay
<1>3. IntakeTypeOK'
  BY <1>1 DEF IntakeTypeOK
<1>4. ScheduleTypeOK'
  BY <1>1 DEF ScheduleTypeOK, IsJob, IsImage
<1>5. ObservedInv' /\ CheckpointInv'
  BY <1>1 DEF ObservedInv, CheckpointInv
<1>6. ScheduleInv' /\ DependencyInv' /\ WorkerInv' /\ RestInv'
  BY <1>1, <1>2 DEF ScheduleInv, DependencyInv, WorkerInv, RestInv
<1>7. CASE mode' = "corrupt" /\ UNCHANGED <<live, frontier>>
  <2>1. StoreTypeOK' /\ LiveInv'
    BY <1>1, <1>7 DEF StoreTypeOK, IsImage, LiveInv
  <2> QED
    BY <1>2, <1>3, <1>4, <1>5, <1>6, <2>1
<1>8. CASE /\ live' = Executed(log[frontier + 1], frontier + 1)
           /\ frontier' = frontier + 1 /\ UNCHANGED mode
  <2> DEFINE n == frontier + 1
  <2>1. /\ log \in Seq(Command) /\ n \in 1 .. Len(log) /\ Sound(log, live)
        /\ DOMAIN live = 1 .. n - 1 /\ n - 1 = frontier /\ checkpoint.sequence <= frontier
        /\ frontier \in Nat /\ checkpoint.sequence \in Nat /\ Len(log) \in Nat
    BY <1>1 DEF LiveInv, StoreTypeOK
  <2>2. IsHistory(live)
    BY ImageIsHistory DEF StoreTypeOK
  <2>3. /\ DOMAIN live' = 1 .. n
        /\ live' = [m \in 1 .. n |-> live'[m]]
        /\ \A m \in 1 .. n : live'[m] \in Outcome
        /\ Sound(log, live')
    BY <1>8, <2>1, <2>2, ExecutedIsSound
  <2> HIDE DEF n
  <2>4. IsImage(live)'
    BY <1>1, <2>1, <2>3 DEF IsImage
  <2>5. frontier' = n
    BY <1>8 DEF n
  <2>6. StoreTypeOK'
    BY <1>1, <2>1, <2>4, <2>5 DEF StoreTypeOK, IsImage
  <2>7. LiveInv'
    BY <1>1, <1>8, <2>1, <2>3, <2>5 DEF LiveInv
  <2> QED
    BY <1>2, <1>3, <1>4, <1>5, <1>6, <2>6, <2>7
<1> QED
  BY <1>7, <1>8 DEF Replay

(* What becomes visible in addition to what was visible before is the      *)
(* prefix of the sound image it is taken from.                             *)
LEMMA ObservedIsSound ==
  ASSUME NEW L, NEW o, NEW k, NEW f, NEW j,
         Holds(L, o, k), DOMAIN o \subseteq 1 .. k, Holds(L, f, j), k <= j,
         NEW g, g = [n \in 1 .. j |-> IF n \in DOMAIN o THEN o[n] ELSE f[n]]
  PROVE  /\ DOMAIN g = 1 .. j
         /\ \A n \in 1 .. j : g[n] = f[n] /\ g[n] \in Outcome
         /\ \A n \in 1 .. k : n \in 1 .. j /\ g[n] = o[n]
         /\ Sound(L, g)
<1>1. k \in Nat /\ j \in Nat /\ 1 .. k \subseteq 1 .. j
  BY DEF Holds
<1>2. \A n \in 1 .. k : o[n] = f[n]
  <2>1. Holds(L, f, k)
    <3>1. k \in 0 .. Len(L)
      BY DEF Holds
    <3>2. 1 .. k \subseteq DOMAIN f
      BY <1>1 DEF Holds
    <3> QED
      BY <3>1, <3>2 DEF Holds
  <2> QED
    BY <2>1, SoundImagesAgree
<1>3. DOMAIN g = 1 .. j /\ \A n \in 1 .. j : g[n] = f[n]
  BY <1>2
<1>4. Checkpoint(j, f).image = [n \in 1 .. j |-> f[n]] /\ Sound(L, Checkpoint(j, f).image)
  BY CheckpointIsSound
<1>5. g = [n \in 1 .. j |-> f[n]]
  BY <1>3
<1>6. \A n \in 1 .. j : g[n] \in Outcome
  BY <1>3 DEF IsHistory, Holds
<1>7. \A n \in 1 .. k : n \in 1 .. j /\ g[n] = o[n]
  BY <1>1, <1>2, <1>3
<1> QED
  BY <1>3, <1>4, <1>5, <1>6, <1>7

(* A recovery that fails leaves the disk as it was.                        *)
LEMMA RecoveryFailsSafe ==
  ASSUME IInv, RecoveryFails
  PROVE  IInv'
<1> USE DEF IInv, TypeOK
<1>1. /\ mode = "recovering" /\ mode' = "down" /\ live' = NoEntries /\ frontier' = 0
      /\ checkpoint' \in {checkpoint, Checkpoint(frontier, live)}
      /\ UNCHANGED <<log, opens, reply, observed, queue, control, barrier,
                     head, maintenance, closing, requests, prefer_requests, records,
                     spare, entries, worker, poisoned>>
  BY DEF RecoveryFails, channels, intake, group, pool
<1>2. /\ checkpoint' = [sequence |-> checkpoint'.sequence, image |-> checkpoint'.image]
      /\ checkpoint'.sequence \in 0 .. Len(log)
      /\ IsImage(checkpoint'.image)
      /\ DOMAIN checkpoint'.image = 1 .. checkpoint'.sequence
      /\ Sound(log, checkpoint'.image)
  <2>1. CASE checkpoint' = checkpoint
    BY <2>1 DEF StoreTypeOK, CheckpointInv
  <2>2. CASE checkpoint' = Checkpoint(frontier, live)
    BY <1>1, <2>2, LiveCheckpoint DEF StoreTypeOK
  <2> QED
    BY <1>1, <2>1, <2>2
<1>3. StoreTypeOK'
  BY <1>1, <1>2 DEF StoreTypeOK, IsImage, NoEntries
<1>4. CallerTypeOK' /\ IntakeTypeOK'
  BY <1>1 DEF CallerTypeOK, IntakeTypeOK
<1>5. ScheduleTypeOK'
  BY <1>1 DEF ScheduleTypeOK, IsJob, IsImage
<1>6. ObservedInv' /\ CheckpointInv'
  BY <1>1, <1>2 DEF ObservedInv, CheckpointInv
<1>7. LiveInv' /\ ScheduleInv' /\ DependencyInv' /\ WorkerInv' /\ RestInv'
  BY <1>1 DEF LiveInv, ScheduleInv, DependencyInv, WorkerInv, RestInv
<1> QED
  BY <1>3, <1>4, <1>5, <1>6, <1>7

(* The checkpoint at the end of recover covers the whole log, and the      *)
(* coordinator starts empty.                                               *)
LEMMA FinishRecoverySafe ==
  ASSUME IInv, FinishRecovery
  PROVE  IInv'
<1> USE DEF IInv, TypeOK
<1>1. /\ mode = "recovering" /\ mode' = "running" /\ frontier = Len(log)
      /\ checkpoint' = Checkpoint(frontier, live)
      /\ UNCHANGED <<log, opens, reply, queue, control, barrier, head, maintenance,
                     closing, requests, prefer_requests, records, spare, entries,
                     frontier, live, worker, poisoned>>
      /\ observed' = [n \in DOMAIN observed \cup 1 .. frontier |->
                        IF n \in DOMAIN observed THEN observed[n] ELSE live[n]]
  BY DEF FinishRecovery, channels, intake, group, schedule, pool
<1>2. /\ checkpoint' = [sequence |-> checkpoint'.sequence, image |-> checkpoint'.image]
      /\ checkpoint'.sequence = frontier
      /\ IsImage(checkpoint'.image)
      /\ DOMAIN checkpoint'.image = 1 .. frontier
      /\ Sound(log, checkpoint'.image)
  BY <1>1, LiveCheckpoint
<1>3. /\ log \in Seq(Command) /\ frontier \in Nat /\ Len(log) \in Nat
      /\ Sound(log, live) /\ DOMAIN live = 1 .. frontier
      /\ frontier \in 0 .. Len(log) /\ 1 .. frontier \subseteq DOMAIN live
  BY <1>1 DEF StoreTypeOK, LiveInv
<1>4. /\ DOMAIN observed' = 1 .. frontier
      /\ \A n \in 1 .. frontier : observed'[n] \in Outcome
      /\ Sound(log, observed')
      /\ observed' = [n \in 1 .. frontier |-> observed'[n]]
  <2>1. PICK k \in 0 .. Len(log) : DOMAIN observed = 1 .. k
    BY DEF ObservedInv
  <2>2. k \in Nat /\ k <= frontier /\ DOMAIN observed \cup 1 .. frontier = 1 .. frontier
    BY <1>1, <1>3, <2>1
  <2>3. IsHistory(observed) /\ IsHistory(live)
    BY ImageIsHistory DEF StoreTypeOK
  <2>4. observed' = [n \in 1 .. frontier |->
                       IF n \in DOMAIN observed THEN observed[n] ELSE live[n]]
    BY <1>1, <2>2
  <2>5. Sound(log, observed)
    BY DEF ObservedInv
  <2> QED
    <3>1. /\ DOMAIN observed' = 1 .. frontier
          /\ \A n \in 1 .. frontier : observed'[n] = live[n] /\ observed'[n] \in Outcome
          /\ Sound(log, observed')
      <4>1. Holds(log, observed, k) /\ Holds(log, live, frontier)
        BY <1>3, <2>1, <2>3, <2>5 DEF Holds
      <4> QED
        BY <2>1, <2>2, <2>4, <4>1, ObservedIsSound
    <3> QED
      BY <2>4, <3>1
<1>5. StoreTypeOK'
  BY <1>1, <1>2, <1>3, <1>4 DEF StoreTypeOK, IsImage
<1>6. CallerTypeOK' /\ IntakeTypeOK'
  BY <1>1 DEF CallerTypeOK, IntakeTypeOK
<1>7. ScheduleTypeOK'
  BY <1>1 DEF ScheduleTypeOK, IsJob, IsImage
<1>8. ObservedInv' /\ CheckpointInv'
  BY <1>1, <1>2, <1>3, <1>4 DEF ObservedInv, CheckpointInv
<1>9. LiveInv'
  BY <1>1, <1>2, <1>3, <1>4 DEF LiveInv
<1>10. /\ entries = NoEntries /\ records = <<>> /\ head = None
       /\ worker = [w \in Workers |-> Idle]
  BY <1>1 DEF RestInv
<1>11. ScheduleInv'
  <2>1. DOMAIN entries = {} /\ DOMAIN records = {} /\ Len(records) = 0
    BY <1>10 DEF NoEntries
  <2>2. frontier + 1 .. Len(log) + Len(records) = {}
    BY <1>1, <1>3, <2>1
  <2> QED
    BY <1>1, <1>10, <2>1, <2>2 DEF ScheduleInv
<1>12. DependencyInv'
  BY <1>1, <1>10 DEF DependencyInv, NoEntries
<1>13. WorkerInv'
  BY <1>1, <1>10 DEF WorkerInv, Busy, Idle
<1>14. RestInv'
  BY <1>1 DEF RestInv
<1> QED
  BY <1>5, <1>6, <1>7, <1>8, <1>9, <1>11, <1>12, <1>13, <1>14

-----------------------------------------------------------------------------
(* Administrative commands.                                                *)

(* An administrative command meets a drained schedule: everything durable  *)
(* is visible, and no worker is busy.                                      *)
LEMMA AdminMeetsDrained ==
  ASSUME IInv, AdminDue
  PROVE  /\ mode = "running" /\ records = <<>> /\ DOMAIN entries = {}
         /\ frontier = Len(log) /\ DOMAIN live = 1 .. Len(log)
         /\ head.request \in Command /\ Len(log) \in Nat
         /\ \A w \in Workers : ~Busy(w)
         /\ IsHistory(live) /\ Sound(log, live)
<1> USE DEF IInv, TypeOK
<1>1. mode = "running" /\ records = <<>> /\ DOMAIN entries = {} /\ head.request \in Command
  BY DEF AdminDue, ReadyForHead, NothingReported, AtLoopTop, Command
<1>2. Len(log) \in Nat /\ frontier \in 0 .. Len(log) /\ Len(records) = 0
  BY <1>1 DEF StoreTypeOK
<1>3. frontier + 1 .. Len(log) = {}
  BY <1>1, <1>2 DEF ScheduleInv
<1>4. frontier = Len(log)
  BY <1>2, <1>3
<1>5. DOMAIN live = 1 .. Len(log)
  BY <1>1, <1>4 DEF LiveInv, Sound
<1>6. \A w \in Workers : ~Busy(w)
  BY <1>1 DEF WorkerInv
<1>7. IsHistory(live) /\ Sound(log, live)
  BY <1>1, ImageIsHistory DEF StoreTypeOK, LiveInv
<1> QED
  BY <1>1, <1>2, <1>4, <1>5, <1>6, <1>7

(* The image and the checkpoint after its execution.                       *)
LEMMA AdminExecuted ==
  ASSUME IInv, AdminDue, NEW c, c = head.request, NEW n, n = Len(log) + 1
  PROVE  LET L == Append(log, c)
             E == Executed(c, n)
             cp == Checkpoint(n, E)
         IN /\ L \in Seq(Command) /\ Len(L) = n
            /\ \A i \in 1 .. Len(log) : L[i] = log[i]
            /\ DOMAIN E = 1 .. n /\ E = [m \in 1 .. n |-> E[m]]
            /\ \A m \in 1 .. n : E[m] \in Outcome
            /\ Sound(L, E)
            /\ cp = [sequence |-> cp.sequence, image |-> cp.image]
            /\ cp.sequence = n
            /\ cp.image = [m \in 1 .. n |-> E[m]]
            /\ DOMAIN cp.image = 1 .. n
            /\ Sound(L, cp.image)
<1> DEFINE L == Append(log, c)
           E == Executed(c, n)
<1>1. /\ c \in Command /\ Len(log) \in Nat /\ DOMAIN live = 1 .. Len(log)
      /\ IsHistory(live) /\ Sound(log, live) /\ log \in Seq(Command)
  BY AdminMeetsDrained DEF IInv, TypeOK, StoreTypeOK
<1>2. /\ L \in Seq(Command) /\ Len(L) = n /\ L[n] = c
      /\ \A i \in 1 .. Len(log) : L[i] = log[i]
  BY <1>1, AppendProperties
<1> HIDE DEF L
<1>3. /\ Len(log) <= Len(L) /\ n \in 1 .. Len(L) /\ n \in 0 .. Len(L)
      /\ DOMAIN live = 1 .. n - 1
  BY <1>1, <1>2
<1>4. Sound(L, live)
  BY <1>1, <1>2, <1>3, LogGrowthKeepsSound
<1>5. /\ DOMAIN E = 1 .. n /\ E = [m \in 1 .. n |-> E[m]]
      /\ \A m \in 1 .. n : E[m] \in Outcome
      /\ Sound(L, E)
  BY <1>1, <1>2, <1>3, <1>4, ExecutedIsSound
<1> HIDE DEF E
<1>6. IsHistory(E)
  BY <1>1, <1>5 DEF IsHistory
<1> DEFINE cp == Checkpoint(n, E)
<1>7. /\ cp = [sequence |-> cp.sequence, image |-> cp.image]
      /\ cp.sequence = n
      /\ cp.image = [m \in 1 .. n |-> E[m]]
      /\ DOMAIN cp.image = 1 .. n
      /\ Sound(L, cp.image)
  <2>1. Holds(L, E, n)
    BY <1>2, <1>3, <1>5, <1>6 DEF Holds
  <2> QED
    BY <2>1, CheckpointIsSound
<1> QED
  BY <1>2, <1>5, <1>7 DEF L, E

(* engine::commit appends, executes and publishes one administrative       *)
(* record on a drained database.                                           *)
LEMMA CommitAdminSafe ==
  ASSUME IInv, CommitAdmin
  PROVE  IInv'
<1> USE DEF IInv, TypeOK
<1> DEFINE c == head.request
           n == Len(log) + 1
           E == Executed(c, n)
<1>1. /\ AdminDue /\ head' = None
      /\ UNCHANGED <<mode, opens, queue, control, barrier, maintenance, closing,
                     requests, prefer_requests, records, spare, entries, worker,
                     poisoned>>
  BY DEF CommitAdmin, channels, group, pool
<1>2. /\ mode = "running" /\ records = <<>> /\ DOMAIN entries = {}
      /\ frontier = Len(log) /\ DOMAIN live = 1 .. Len(log)
      /\ c \in Command /\ Len(log) \in Nat
      /\ \A w \in Workers : ~Busy(w)
      /\ IsHistory(live) /\ Sound(log, live)
  BY <1>1, AdminMeetsDrained
<1>3. IntakeTypeOK'
  BY <1>1 DEF IntakeTypeOK
<1>4. DependencyInv' /\ RestInv'
  BY <1>1, <1>2 DEF DependencyInv, RestInv
<1>5. WorkerInv'
  BY <1>1, <1>2 DEF WorkerInv, Busy
<1>6. Len(records) = 0 /\ DOMAIN records = {}
  BY <1>2
<1>7. CASE /\ reply' = Answer({c}, Rejected)
           /\ checkpoint' = Drained
           /\ UNCHANGED <<log, live, frontier, observed>>
  <2>1. CallerTypeOK'
    BY <1>1, <1>7, AnswerType, PlainReplies DEF CallerTypeOK
  <2>2. /\ checkpoint' = [sequence |-> checkpoint'.sequence, image |-> checkpoint'.image]
        /\ checkpoint'.sequence = frontier
        /\ IsImage(checkpoint'.image)
        /\ DOMAIN checkpoint'.image = 1 .. frontier
        /\ Sound(log, checkpoint'.image)
    BY <1>2, <1>7, LiveCheckpoint DEF Drained
  <2>3. StoreTypeOK'
    BY <1>2, <1>7, <2>2 DEF StoreTypeOK, IsImage
  <2>4. ScheduleTypeOK'
    BY <1>1, <1>7 DEF ScheduleTypeOK, IsJob, IsImage
  <2>5. ObservedInv' /\ CheckpointInv' /\ LiveInv'
    BY <1>1, <1>2, <1>7, <2>2 DEF ObservedInv, CheckpointInv, LiveInv
  <2>6. ScheduleInv'
    BY <1>1, <1>2, <1>6, <1>7 DEF ScheduleInv
  <2> QED
    BY <1>3, <1>4, <1>5, <2>1, <2>3, <2>4, <2>5, <2>6
<1>8. CASE /\ log' = Append(log, c)
           /\ live' = E
           /\ checkpoint' = Checkpoint(n, E)
           /\ frontier' = n
           /\ reply' = Answer({c}, Receipt(n, E[n]))
           /\ observed' = [m \in DOMAIN observed \cup {n} |->
                IF m \in DOMAIN observed THEN observed[m] ELSE E[m]]
  <2>1. /\ log' \in Seq(Command) /\ Len(log') = n
        /\ \A i \in 1 .. Len(log) : log'[i] = log[i]
        /\ DOMAIN E = 1 .. n /\ E = [m \in 1 .. n |-> E[m]]
        /\ \A m \in 1 .. n : E[m] \in Outcome
        /\ Sound(log', E)
        /\ checkpoint' = [sequence |-> checkpoint'.sequence, image |-> checkpoint'.image]
        /\ checkpoint'.sequence = n
        /\ checkpoint'.image = [m \in 1 .. n |-> E[m]]
        /\ DOMAIN checkpoint'.image = 1 .. n
        /\ Sound(log', checkpoint'.image)
    BY <1>1, <1>8, AdminExecuted
  <2>2. n \in Nat /\ n = Len(log) + 1 /\ n \in 1 .. n
    BY <1>2
  <2> HIDE DEF E, n
  <2>3. /\ DOMAIN observed' = 1 .. n
        /\ observed' = [m \in 1 .. n |-> observed'[m]]
        /\ \A m \in 1 .. n : observed'[m] \in Outcome
        /\ Sound(log', observed')
    <3>1. /\ DOMAIN observed = 1 .. Len(log) /\ Sound(log, observed)
          /\ log \in Seq(Command)
      BY <1>2 DEF LiveInv, ObservedInv, StoreTypeOK
    <3>2. DOMAIN observed \cup {n} = 1 .. n
      BY <1>2, <2>2, <3>1
    <3>3. observed' = [m \in 1 .. n |-> IF m \in DOMAIN observed THEN observed[m] ELSE E[m]]
      BY <1>8, <3>2
    <3>4. IsHistory(observed) /\ IsHistory(E)
      BY <2>1, <2>2, ImageIsHistory DEF StoreTypeOK, IsHistory
    <3>5. Sound(log', observed)
      BY <1>2, <2>1, <2>2, <3>1, LogGrowthKeepsSound
    <3>6. /\ Len(log) <= n /\ 1 .. n \subseteq DOMAIN E /\ n \in 0 .. Len(log')
      BY <1>2, <2>1, <2>2
    <3>7. /\ DOMAIN observed' = 1 .. n
          /\ \A m \in 1 .. n : observed'[m] = E[m] /\ observed'[m] \in Outcome
          /\ Sound(log', observed')
      <4>1. Holds(log', observed, Len(log)) /\ Holds(log', E, n)
        BY <1>2, <2>1, <2>2, <3>1, <3>4, <3>5, <3>6 DEF Holds
      <4> QED
        BY <3>1, <3>3, <3>6, <4>1, ObservedIsSound
    <3> QED
      BY <3>3, <3>7
  <2>4. CallerTypeOK'
    <3>1. Receipt(n, E[n]) \in Replies
      BY <2>1, <2>2, ReceiptType
    <3> QED
      BY <1>1, <1>8, <3>1, AnswerType DEF CallerTypeOK
  <2>5. StoreTypeOK'
    <3>1. IsImage(live)'
      BY <1>8, <2>1, <2>2 DEF IsImage
    <3>2. IsImage(observed)'
      BY <2>1, <2>2, <2>3 DEF IsImage
    <3>3. IsImage(checkpoint.image)'
      BY <2>1, <2>2 DEF IsImage
    <3> QED
      BY <1>8, <2>1, <2>2, <3>1, <3>2, <3>3 DEF StoreTypeOK
  <2>6. ScheduleTypeOK'
    <3>1. \A w \in Workers : IsJob(worker[w])'
      <4> SUFFICES ASSUME NEW w \in Workers PROVE IsJob(worker[w])'
        OBVIOUS
      <4>1. IsJob(worker[w]) /\ ~Busy(w)
        BY <1>2 DEF ScheduleTypeOK
      <4> QED
        BY <1>1, <4>1 DEF IsJob, Busy
    <3> QED
      BY <1>1, <1>2, <3>1 DEF ScheduleTypeOK
  <2>7. ObservedInv'
    BY <2>1, <2>2, <2>3 DEF ObservedInv
  <2>8. CheckpointInv' /\ LiveInv'
    BY <1>1, <1>2, <1>8, <2>1, <2>2, <2>3 DEF CheckpointInv, LiveInv
  <2>9. ScheduleInv'
    <3>1. frontier' + 1 .. Len(log') + Len(records') = {}
      BY <1>1, <1>6, <1>8, <2>1, <2>2
    <3> QED
      BY <1>1, <1>2, <1>6, <3>1 DEF ScheduleInv
  <2> QED
    BY <1>3, <1>4, <1>5, <2>4, <2>5, <2>6, <2>7, <2>8, <2>9
<1> QED
  BY <1>7, <1>8 DEF CommitAdmin

(* A commit that fails, with its record on disk or not, preserves the      *)
(* invariant.                                                              *)
LEMMA CommitAdminFailsSafe ==
  ASSUME IInv, CommitAdminFails
  PROVE  IInv'
<1> USE DEF IInv, TypeOK
<1> DEFINE c == head.request
           n == Len(log) + 1
           E == Executed(c, n)
<1>1. /\ AdminDue /\ head' = None /\ mode' = "stopping"
      /\ UNCHANGED <<opens, observed, queue, control, barrier, maintenance, closing,
                     requests, prefer_requests, records, spare, entries, frontier, live,
                     worker, poisoned>>
      /\ reply' = Answer({c}, Uncertain)
      /\ \/ log' = log /\ checkpoint' = Drained
         \/ log' = Append(log, c) /\ checkpoint' \in {Drained, Checkpoint(n, E)}
  BY DEF CommitAdminFails, Fail, channels, group, schedule, pool
<1>2. /\ mode = "running" /\ c \in Command /\ Len(log) \in Nat /\ log \in Seq(Command)
      /\ frontier = Len(log) /\ \A w \in Workers : ~Busy(w)
  BY <1>1, AdminMeetsDrained DEF StoreTypeOK
<1>3. CallerTypeOK'
  BY <1>1, AnswerType, PlainReplies DEF CallerTypeOK
<1>4. IntakeTypeOK'
  BY <1>1 DEF IntakeTypeOK
<1>5. /\ log' \in Seq(Command) /\ Len(log') \in Nat /\ Len(log) <= Len(log')
      /\ \A i \in 1 .. Len(log) : log'[i] = log[i]
  BY <1>1, <1>2, AppendProperties
<1>6. ASSUME NEW f, Sound(log, f) PROVE Sound(log', f)
  BY <1>2, <1>5, <1>6, LogGrowthKeepsSound
<1>7. /\ checkpoint' = [sequence |-> checkpoint'.sequence, image |-> checkpoint'.image]
      /\ checkpoint'.sequence \in 0 .. Len(log')
      /\ IsImage(checkpoint.image)'
      /\ DOMAIN checkpoint'.image = 1 .. checkpoint'.sequence
      /\ Sound(log', checkpoint'.image)
  <2>1. CASE checkpoint' = Drained
    <3>1. /\ checkpoint' = [sequence |-> checkpoint'.sequence, image |-> checkpoint'.image]
          /\ checkpoint'.sequence = frontier
          /\ DOMAIN checkpoint'.image = 1 .. frontier
          /\ IsImage(checkpoint'.image)
          /\ Sound(log, checkpoint'.image)
      BY <1>2, <2>1, LiveCheckpoint DEF Drained
    <3>2. IsImage(checkpoint.image)'
      BY <1>2, <1>5, <3>1 DEF IsImage
    <3>3. Sound(log', checkpoint'.image)
      BY <1>6, <3>1
    <3> QED
      BY <1>2, <1>5, <3>1, <3>2, <3>3
  <2>2. CASE log' = Append(log, c) /\ checkpoint' = Checkpoint(n, E)
    <3>1. /\ Len(log') = n
          /\ \A m \in 1 .. n : E[m] \in Outcome
          /\ checkpoint' = [sequence |-> checkpoint'.sequence, image |-> checkpoint'.image]
          /\ checkpoint'.sequence = n
          /\ checkpoint'.image = [m \in 1 .. n |-> E[m]]
          /\ DOMAIN checkpoint'.image = 1 .. n
          /\ Sound(log', checkpoint'.image)
      BY <1>1, <2>2, AdminExecuted
    <3> HIDE DEF E, n
    <3>2. IsImage(checkpoint.image)'
      BY <3>1 DEF IsImage
    <3> QED
      BY <1>5, <3>1, <3>2
  <2> QED
    BY <1>1, <2>1, <2>2
<1>8. StoreTypeOK'
  <2>1. IsImage(observed)' /\ IsImage(live)'
    BY <1>1, <1>2, <1>5 DEF StoreTypeOK, IsImage
  <2> QED
    BY <1>1, <1>2, <1>5, <1>7, <2>1 DEF StoreTypeOK
<1>9. ScheduleTypeOK'
  <2>1. \A w \in Workers : IsJob(worker[w])'
    <3> SUFFICES ASSUME NEW w \in Workers PROVE IsJob(worker[w])'
      OBVIOUS
    <3>1. IsJob(worker[w]) /\ ~Busy(w)
      BY <1>2 DEF ScheduleTypeOK
    <3> QED
      BY <1>1, <3>1 DEF IsJob, Busy
  <2>2. DOMAIN entries \subseteq 1 .. Len(log') + Len(records)
    BY <1>2, <1>5 DEF ScheduleTypeOK
  <2> QED
    BY <1>1, <2>1, <2>2 DEF ScheduleTypeOK
<1>10. ObservedInv'
  <2>1. Sound(log', observed)
    BY <1>6 DEF ObservedInv
  <2>2. \E k \in 0 .. Len(log') : DOMAIN observed = 1 .. k
    BY <1>2, <1>5 DEF ObservedInv
  <2> QED
    BY <1>1, <2>1, <2>2 DEF ObservedInv
<1>11. CheckpointInv'
  BY <1>7 DEF CheckpointInv
<1> QED
  BY <1>1, <1>3, <1>4, <1>8, <1>9, <1>10, <1>11, StoppingStep

-----------------------------------------------------------------------------
(* The workers.                                                            *)

(* A busy worker's slot, as a record.                                      *)
LEMMA BusySlot ==
  ASSUME ScheduleTypeOK, NEW w \in Workers, Busy(w)
  PROVE  /\ worker[w].sequence \in DOMAIN entries
         /\ worker[w].sequence \in Nat
         /\ worker[w].kind = "running" => IsImage(worker[w].view)
         /\ worker[w].kind = "done" => worker[w].outcome \in Outcome
<1>1. IsJob(worker[w])
  BY DEF ScheduleTypeOK
<1>2. worker[w].sequence \in DOMAIN entries
  BY <1>1 DEF IsJob, Busy, Idle, Exited
<1>3. worker[w].sequence \in Nat
  BY <1>2 DEF ScheduleTypeOK
<1> QED
  BY <1>1, <1>2, <1>3 DEF IsJob, Busy, Idle, Exited

(* A worker reads through the view of its job, whose dependencies are      *)
(* resolved: its outcome is serial.                                        *)
LEMMA InterpretSafe ==
  ASSUME IInv, NEW w \in Workers, Interpret(w)
  PROVE  IInv'
<1> USE DEF IInv, TypeOK
<1> DEFINE n == worker[w].sequence
           o == Interpretation(entries[n].request, worker[w].view, n)
<1>1. /\ mode = "running" /\ worker[w].kind = "running" /\ Busy(w)
      /\ worker' = [worker EXCEPT ![w] = Completion(n, o)]
      /\ UNCHANGED <<log, checkpoint, mode, opens, reply, observed, queue, control,
                     barrier, head, maintenance, closing, requests, prefer_requests,
                     records, spare, entries, frontier, live, poisoned>>
  BY DEF Interpret, Busy, disk, channels, intake, group, schedule
<1>2. /\ n \in DOMAIN entries /\ n \in Nat /\ IsImage(worker[w].view)
  BY <1>1, BusySlot
<1>3. /\ n \in 1 .. Len(log) /\ Result(w) = Interpretation(log[n], live, n)
      /\ entries[n].request = log[n] /\ log[n] \in Command
  <2>1. n \in 1 .. Len(log) /\ Result(w) = Interpretation(log[n], live, n)
    BY <1>1 DEF WorkerInv
  <2>2. Len(log) \in Nat /\ log[n] \in Command
    BY <2>1 DEF StoreTypeOK
  <2> QED
    BY <1>1, <1>2, <2>1, <2>2 DEF ScheduleInv
<1>4. o = Result(w)
  BY <1>1, <1>3 DEF Result
<1>5. o \in Outcome
  <2>1. IsHistory(worker[w].view)
    BY <1>2, ImageIsHistory
  <2> QED
    BY <1>2, <1>3, <2>1, InterpretationIsOutcome
<1> HIDE DEF o
<1>6. /\ worker' = [v \in Workers |-> worker'[v]]
      /\ worker'[w] = Completion(n, o)
      /\ \A v \in Workers : v # w => worker'[v] = worker[v]
  <2>1. worker = [v \in Workers |-> worker[v]]
    BY DEF ScheduleTypeOK
  <2> QED
    BY <1>1, <2>1
<1>7. StoreTypeOK'
  BY <1>1 DEF StoreTypeOK, IsImage
<1>8. CallerTypeOK' /\ IntakeTypeOK'
  BY <1>1 DEF CallerTypeOK, IntakeTypeOK
<1>9. ScheduleTypeOK'
  <2>1. \A v \in Workers : IsJob(worker[v])'
    <3> SUFFICES ASSUME NEW v \in Workers PROVE IsJob(worker[v])'
      OBVIOUS
    <3>1. CASE v = w
      BY <1>1, <1>2, <1>5, <1>6, <3>1 DEF IsJob, Completion
    <3>2. CASE v # w
      BY <1>1, <1>6, <3>2 DEF ScheduleTypeOK, IsJob, IsImage
    <3> QED
      BY <3>1, <3>2
  <2> QED
    BY <1>1, <1>6, <2>1 DEF ScheduleTypeOK
<1>10. ObservedInv' /\ CheckpointInv' /\ LiveInv'
  BY <1>1 DEF ObservedInv, CheckpointInv, LiveInv
<1>11. ScheduleInv' /\ RestInv'
  BY <1>1 DEF ScheduleInv, RestInv, NextSequence
<1>12. DependencyInv'
  BY <1>1 DEF DependencyInv, unresolved
<1>13. WorkerInv'
  <2>1. \A v \in Workers : Busy(v)' =>
          Busy(v) /\ worker'[v].sequence = worker[v].sequence /\ Result(v)' = Result(v)
    <3> SUFFICES ASSUME NEW v \in Workers, Busy(v)'
                 PROVE  /\ Busy(v) /\ worker'[v].sequence = worker[v].sequence
                        /\ Result(v)' = Result(v)
      OBVIOUS
    <3>1. CASE v = w
      BY <1>1, <1>4, <1>6, <3>1 DEF Result, Completion
    <3>2. CASE v # w
      BY <1>1, <1>6, <3>2 DEF Busy, Result
    <3> QED
      BY <3>1, <3>2
  <2> QED
    BY <1>1, <2>1 DEF WorkerInv
<1> QED
  BY <1>7, <1>8, <1>9, <1>10, <1>11, <1>12, <1>13

(* A worker that fails only marks the pool as poisoned.                    *)
LEMMA WorkerFailsSafe ==
  ASSUME IInv, NEW w \in Workers, WorkerFails(w)
  PROVE  IInv'
<1> USE DEF IInv, TypeOK
<1>1. /\ mode = "running" /\ poisoned' = TRUE
      /\ worker' = [worker EXCEPT ![w] = Exited]
      /\ UNCHANGED <<log, checkpoint, mode, opens, reply, observed, queue, control,
                     barrier, head, maintenance, closing, requests, prefer_requests,
                     records, spare, entries, frontier, live>>
  BY DEF WorkerFails, disk, channels, intake, group, schedule
<1>2. /\ worker' = [v \in Workers |-> worker'[v]]
      /\ worker'[w] = Exited
      /\ \A v \in Workers : v # w => worker'[v] = worker[v]
  <2>1. worker = [v \in Workers |-> worker[v]]
    BY DEF ScheduleTypeOK
  <2> QED
    BY <1>1, <2>1
<1>3. StoreTypeOK'
  BY <1>1 DEF StoreTypeOK, IsImage
<1>4. CallerTypeOK' /\ IntakeTypeOK'
  BY <1>1 DEF CallerTypeOK, IntakeTypeOK
<1>5. ScheduleTypeOK'
  <2>1. \A v \in Workers : IsJob(worker[v])'
    BY <1>1, <1>2, SMTT(30) DEF ScheduleTypeOK, IsJob, IsImage
  <2> QED
    BY <1>1, <1>2, <2>1, SMTT(30) DEF ScheduleTypeOK
<1>6. ObservedInv' /\ CheckpointInv' /\ LiveInv'
  BY <1>1 DEF ObservedInv, CheckpointInv, LiveInv
<1>7. ScheduleInv' /\ RestInv'
  BY <1>1 DEF ScheduleInv, RestInv, NextSequence
<1>8. DependencyInv'
  BY <1>1 DEF DependencyInv, unresolved
<1>9. WorkerInv'
  <2>1. \A v \in Workers : Busy(v)' => v # w /\ worker'[v] = worker[v]
    BY <1>2 DEF Busy, Exited
  <2> QED
    BY <1>1, <2>1 DEF WorkerInv, Busy, Result
<1> QED
  BY <1>3, <1>4, <1>5, <1>6, <1>7, <1>8, <1>9

-----------------------------------------------------------------------------
(* Registration.                                                           *)

(* A transaction is assigned the next sequence: its dependencies are taken *)
(* now, and nothing already assigned can come to depend on it.             *)
LEMMA AssignSafe ==
  ASSUME IInv, mode = "running", NEW c \in Txn, Assign(c, NextSequence),
         CallerTypeOK', IntakeTypeOK', head' = None, spare' \in 0 .. GroupLimit,
         UNCHANGED <<log, checkpoint, mode, observed, frontier, live, worker>>
  PROVE  IInv'
<1> USE DEF IInv, TypeOK
<1> DEFINE n == NextSequence
           r == [request |-> c, sequence |-> n]
<1>1. /\ Len(log) \in Nat /\ Len(records) \in Nat /\ DOMAIN records = 1 .. Len(records)
      /\ n = Len(log) + Len(records) + 1 /\ n \in Nat
      /\ records \in Seq([request : Txn, sequence : Nat])
      /\ frontier \in 0 .. Len(log)
  BY DEF StoreTypeOK, ScheduleTypeOK, NextSequence
<1>2. /\ DOMAIN entries = frontier + 1 .. Len(log) + Len(records)
      /\ n \notin DOMAIN entries
      /\ n \notin DOMAIN live
      /\ \A m \in DOMAIN entries : m < n
  BY <1>1 DEF ScheduleInv, LiveInv, Sound
<1> HIDE DEF n
<1>3. /\ entries' = [m \in DOMAIN entries \cup {n} |->
                       IF m = n THEN Entry(c, Dependencies(c)) ELSE entries[m]]
      /\ records' = Append(records, r)
  BY DEF Assign, n
<1>4. /\ DOMAIN entries' = DOMAIN entries \cup {n}
      /\ entries'[n] = Entry(c, Dependencies(c))
      /\ \A m \in DOMAIN entries : entries'[m] = entries[m]
  BY <1>2, <1>3
<1>5. /\ records' \in Seq([request : Txn, sequence : Nat])
      /\ Len(records') = Len(records) + 1
      /\ \A i \in 1 .. Len(records) : records'[i] = records[i]
      /\ records'[Len(records) + 1] = r
      /\ DOMAIN records' = 1 .. Len(records) + 1
  <2>1. r \in [request : Txn, sequence : Nat]
    BY <1>1
  <2> HIDE DEF r
  <2> QED
    BY <1>1, <1>3, <2>1, AppendProperties
<1>6. entries'[n].request = c /\ entries'[n].dependencies = Dependencies(c)
  BY <1>4 DEF Entry
<1>7. DOMAIN entries' = frontier + 1 .. Len(log) + Len(records')
  BY <1>1, <1>2, <1>4, <1>5
<1>8. StoreTypeOK'
  BY DEF StoreTypeOK, IsImage
<1>9. ScheduleTypeOK'
  <2>1. Entry(c, Dependencies(c))
          \in [request : Txn, dependencies : SUBSET Nat, prepared : BOOLEAN]
    <3>1. Dependencies(c) \subseteq Nat
      BY DEF Dependencies, unresolved, ScheduleTypeOK
    <3> QED
      BY <3>1 DEF Entry
  <2>2. entries' \in [DOMAIN entries' ->
          [request : Txn, dependencies : SUBSET Nat, prepared : BOOLEAN]]
    BY <1>3, <1>4, <2>1 DEF ScheduleTypeOK
  <2>3. DOMAIN entries' \subseteq 1 .. Len(log) + Len(records')
    BY <1>1, <1>5, <1>7
  <2>4. \A w \in Workers : IsJob(worker[w])'
    BY <1>4 DEF ScheduleTypeOK, IsJob, IsImage
  <2> QED
    BY <1>5, <2>2, <2>3, <2>4 DEF ScheduleTypeOK
<1>10. ObservedInv' /\ CheckpointInv' /\ LiveInv' /\ RestInv'
  BY DEF ObservedInv, CheckpointInv, LiveInv, RestInv
<1>11. ScheduleInv'
  <2>1. \A m \in DOMAIN entries' : m <= Len(log) => entries'[m].request = log[m]
    BY <1>1, <1>4 DEF ScheduleInv
  <2>2. ASSUME NEW i \in DOMAIN records'
        PROVE  /\ records'[i].sequence = Len(log) + i
               /\ records'[i].request = entries'[Len(log) + i].request
    <3>1. CASE i \in 1 .. Len(records)
      <4>1. Len(log) + i \in DOMAIN entries
        BY <1>1, <1>2, <3>1
      <4>2. records[i].sequence = Len(log) + i
            /\ records[i].request = entries[Len(log) + i].request
        BY <1>1, <3>1 DEF ScheduleInv
      <4> QED
        BY <1>4, <1>5, <3>1, <4>1, <4>2
    <3>2. CASE i = Len(records) + 1
      <4>1. records'[i] = r /\ n = Len(log) + i
        BY <1>1, <1>5, <3>2
      <4> QED
        BY <1>6, <4>1
    <3> QED
      BY <1>1, <1>5, <3>1, <3>2
  <2> QED
    BY <1>7, <2>1, <2>2 DEF ScheduleInv
<1>12. DependencyInv'
  <2> SUFFICES ASSUME NEW k \in DOMAIN entries'
               PROVE  /\ k \in DOMAIN live => ~entries'[k].prepared
                      /\ \A m \in unresolved' :
                           m < k /\ overlaps(Writes(entries'[m].request),
                                             Reads(entries'[k].request))
                             => m \in entries'[k].dependencies
    BY DEF DependencyInv
  <2>1. \A m \in unresolved' : m < n => m \in unresolved /\ entries'[m] = entries[m]
    BY <1>1, <1>4 DEF unresolved
  <2>2. CASE k = n
    BY <1>2, <1>6, <2>1, <2>2 DEF Dependencies
  <2>3. CASE k \in DOMAIN entries
    <3>1. k < n /\ k \in Nat
      BY <1>2, <2>3 DEF ScheduleTypeOK
    <3>2. \A m \in unresolved' : m < k => m < n
      <4>1. DOMAIN entries' \subseteq Nat
        BY <1>9 DEF ScheduleTypeOK
      <4> QED
        BY <1>1, <3>1, <4>1 DEF unresolved
    <3> QED
      BY <1>4, <2>1, <2>3, <3>2 DEF DependencyInv
  <2> QED
    BY <1>4, <2>2, <2>3
<1>13. WorkerInv'
  <2>1. \A w \in Workers : Busy(w)' => Busy(w) /\ Result(w)' = Result(w)
    BY DEF Busy, Result
  <2> QED
    BY <1>4, <2>1 DEF WorkerInv
<1> QED
  BY <1>8, <1>9, <1>10, <1>11, <1>12, <1>13

(* Starting a group with the prepared head preserves the invariant.        *)
LEMMA RegisterSafe ==
  ASSUME IInv, Register
  PROVE  IInv'
<1> USE DEF IInv, TypeOK
<1>1. /\ mode = "running" /\ head # None /\ head.request \in Txn
      /\ Assign(head.request, head.sequence) /\ head' = None
      /\ UNCHANGED <<log, checkpoint, mode, opens, reply, observed, queue, control,
                     barrier, maintenance, closing, requests, prefer_requests, frontier,
                     live, worker, poisoned>>
  BY DEF Register, ReadyForHead, NothingReported, AtLoopTop, disk, channels, pool
<1>2. head.sequence = NextSequence
  BY <1>1 DEF ScheduleInv
<1>3. spare' \in 0 .. GroupLimit
  <2>1. Len(queue) \in Nat
    BY DEF IntakeTypeOK
  <2> QED
    BY <2>1, EngineOptions DEF Register
<1>4. CallerTypeOK' /\ IntakeTypeOK'
  BY <1>1 DEF CallerTypeOK, IntakeTypeOK
<1>5. Assign(head.request, NextSequence)
  BY <1>1, <1>2
<1> QED
  BY <1>1, <1>3, <1>4, <1>5, AssignSafe

(* A member joins a group with every earlier overlapping entry among its   *)
(* dependencies.                                                           *)
LEMMA JoinGroupSafe ==
  ASSUME IInv, JoinGroup
  PROVE  IInv'
<1> USE DEF IInv, TypeOK
<1>1. /\ mode = "running" /\ head = None /\ queue # <<>> /\ queue[1] \in Txn
      /\ queue' = Tail(queue)
      /\ UNCHANGED <<log, checkpoint, mode, opens, reply, observed, control,
                     barrier, maintenance, closing, requests, prefer_requests, frontier,
                     live, worker, poisoned>>
  BY DEF JoinGroup, GroupGoesOn, disk, pool
<1>2. spare' \in 0 .. GroupLimit
  BY EngineOptions, SMTT(30) DEF JoinGroup, GroupGoesOn, ScheduleTypeOK
<1>3. queue' \in Seq(Request)
  BY <1>1, FirstOfQueue
<1>4. CallerTypeOK'
  BY <1>1 DEF CallerTypeOK
<1>5. CASE Assign(queue[1], NextSequence) /\ UNCHANGED head
  <2>1. IntakeTypeOK'
    BY <1>1, <1>3, <1>5 DEF IntakeTypeOK
  <2> QED
    BY <1>1, <1>2, <1>4, <1>5, <2>1, AssignSafe
<1>6. CASE head' = Prepared(queue[1], NextSequence)
           /\ UNCHANGED <<records, entries, assigned_bytes, reserved_bytes>>
  <2>1. /\ head'.request = queue[1] /\ head'.sequence = NextSequence
        /\ head' = Prepared(head'.request, head'.sequence)
    BY <1>6 DEF Prepared
  <2>2. NextSequence \in Nat /\ queue[1] \in Command
    BY <1>1 DEF NextSequence, StoreTypeOK, ScheduleTypeOK, Command
  <2>3. IntakeTypeOK'
    BY <1>1, <1>3, <2>1, <2>2 DEF IntakeTypeOK
  <2>4. StoreTypeOK'
    BY <1>1 DEF StoreTypeOK, IsImage
  <2>5. ScheduleTypeOK'
    BY <1>1, <1>2, <1>6 DEF ScheduleTypeOK, IsJob, IsImage
  <2>6. ObservedInv' /\ CheckpointInv' /\ LiveInv' /\ RestInv'
    BY <1>1 DEF ObservedInv, CheckpointInv, LiveInv, RestInv
  <2>7. ScheduleInv'
    BY <1>1, <1>6, <2>1 DEF ScheduleInv, NextSequence
  <2>8. DependencyInv'
    BY <1>1, <1>6 DEF DependencyInv, unresolved
  <2>9. WorkerInv'
    BY <1>1, <1>6 DEF WorkerInv, Busy, Result
  <2> QED
    BY <1>4, <2>3, <2>4, <2>5, <2>6, <2>7, <2>8, <2>9
<1> QED
  BY <1>5, <1>6 DEF JoinGroup

-----------------------------------------------------------------------------
(* Dispatch.                                                               *)

(* A dispatchable record is durable, unresolved and waits for nothing that *)
(* it could read.                                                          *)
LEMMA DispatchableIsSettled ==
  ASSUME IInv, mode = "running", NEW n \in Dispatchable
  PROVE  /\ n \in DOMAIN entries /\ n \in 1 .. Len(log) /\ n \notin DOMAIN live
         /\ entries[n].prepared
         /\ Settled(log, live, n)
<1> USE DEF IInv, TypeOK
<1>1. /\ n \in DOMAIN entries /\ entries[n].prepared /\ entries[n].dependencies = {}
      /\ n > frontier /\ n <= Len(log)
  BY DEF Dispatchable, in_window
<1>2. frontier \in Nat /\ Len(log) \in Nat /\ Len(records) \in Nat /\ n \in Nat
  BY <1>1 DEF StoreTypeOK, ScheduleTypeOK
<1>3. n \in 1 .. Len(log) /\ n \notin DOMAIN live
  BY <1>1, <1>2 DEF DependencyInv
<1>4. ASSUME NEW m \in 1 .. n - 1, m \notin DOMAIN live
      PROVE  log[m] \in Txn /\ log[n] \in Txn /\ ~overlaps(Writes(log[m]), Reads(log[n]))
  <2>1. ~(m <= frontier)
    BY <1>2, <1>4 DEF LiveInv
  <2>2. m \in DOMAIN entries /\ m <= Len(log) /\ m < n
    BY <1>1, <1>2, <2>1 DEF ScheduleInv
  <2>3. m \in unresolved
    BY <1>4, <2>2 DEF unresolved
  <2>4. ~overlaps(Writes(entries[m].request), Reads(entries[n].request))
    BY <1>1, <2>2, <2>3 DEF DependencyInv
  <2>5. entries[m].request = log[m] /\ entries[n].request = log[n]
    BY <1>1, <2>2 DEF ScheduleInv
  <2>6. entries[m].request \in Txn /\ entries[n].request \in Txn
    BY <1>1, <2>2 DEF ScheduleTypeOK
  <2> QED
    BY <2>4, <2>5, <2>6
<1>5. Settled(log, live, n)
  BY <1>4 DEF Settled
<1> QED
  BY <1>1, <1>3, <1>5

(* A dispatched job carries an image that holds all that its scopes can    *)
(* read.                                                                   *)
LEMMA DispatchSafe ==
  ASSUME IInv, Dispatch
  PROVE  IInv'
<1> USE DEF IInv, TypeOK
<1>1. /\ mode = "running"
      /\ UNCHANGED <<log, checkpoint, mode, opens, reply, observed, queue, control,
                     barrier, head, maintenance, closing, requests, prefer_requests,
                     records, spare, frontier, live, poisoned>>
  BY DEF Dispatch, NothingReported, AtLoopTop, disk, channels, intake, group
<1>2. PICK W \in SUBSET IdleWorkers : \E assigned \in [W -> Dispatchable] :
       /\ InOrder(assigned)
       /\ worker' = [w \in Workers |->
            IF w \in W THEN Job(assigned[w], live) ELSE worker[w]]
       /\ entries' = [n \in DOMAIN entries |->
            IF n \in Range(assigned) THEN [entries[n] EXCEPT !.prepared = FALSE]
                                     ELSE entries[n]]
  BY DEF Dispatch
<1>3. PICK assigned \in [W -> Dispatchable] :
       /\ InOrder(assigned)
       /\ worker' = [w \in Workers |->
            IF w \in W THEN Job(assigned[w], live) ELSE worker[w]]
       /\ entries' = [n \in DOMAIN entries |->
            IF n \in Range(assigned) THEN [entries[n] EXCEPT !.prepared = FALSE]
                                     ELSE entries[n]]
  BY <1>2
<1>4. W \subseteq Workers /\ Workers \subseteq Nat
  BY EngineOptions DEF IdleWorkers
<1>5. \A w \in W :
        /\ assigned[w] \in DOMAIN entries /\ assigned[w] \in 1 .. Len(log)
        /\ assigned[w] \notin DOMAIN live /\ entries[assigned[w]].prepared
        /\ Settled(log, live, assigned[w])
  BY <1>1, <1>3, DispatchableIsSettled
<1>6. \A w, v \in W : assigned[w] = assigned[v] => w = v
  <2>1. \A w, v \in W : v < w => assigned[v] < assigned[w]
    BY <1>3 DEF InOrder
  <2>2. \A w \in W : w \in Nat /\ assigned[w] \in Nat
    BY <1>4, <1>5
  <2> QED
    BY <2>1, <2>2
<1>7. /\ worker' = [w \in Workers |-> worker'[w]]
      /\ \A w \in W : worker'[w] = Job(assigned[w], live)
      /\ \A w \in Workers \ W : worker'[w] = worker[w]
  BY <1>3, <1>4
<1>8. /\ DOMAIN entries' = DOMAIN entries
      /\ \A n \in DOMAIN entries :
           /\ entries'[n].request = entries[n].request
           /\ entries'[n].dependencies = entries[n].dependencies
           /\ ~entries[n].prepared => ~entries'[n].prepared
      /\ \A w \in W : ~entries'[assigned[w]].prepared
      /\ entries' \in [DOMAIN entries ->
           [request : Txn, dependencies : SUBSET Nat, prepared : BOOLEAN]]
  <2>1. entries \in [DOMAIN entries ->
           [request : Txn, dependencies : SUBSET Nat, prepared : BOOLEAN]]
    BY DEF ScheduleTypeOK
  <2>2. \A w \in W : assigned[w] \in Range(assigned)
    BY DEF Range
  <2>3. DOMAIN entries' = DOMAIN entries
    BY <1>3
  <2>4. ASSUME NEW n \in DOMAIN entries
        PROVE  /\ entries'[n] \in
                    [request : Txn, dependencies : SUBSET Nat, prepared : BOOLEAN]
               /\ entries'[n].request = entries[n].request
               /\ entries'[n].dependencies = entries[n].dependencies
               /\ ~entries[n].prepared => ~entries'[n].prepared
               /\ n \in Range(assigned) => ~entries'[n].prepared
    <3>1. entries[n] \in [request : Txn, dependencies : SUBSET Nat, prepared : BOOLEAN]
      BY <2>1
    <3>2. entries'[n] = IF n \in Range(assigned)
                          THEN [entries[n] EXCEPT !.prepared = FALSE] ELSE entries[n]
      BY <1>3
    <3> QED
      BY <3>1, <3>2
  <2>5. \A w \in W : ~entries'[assigned[w]].prepared
    BY <1>5, <2>2, <2>4
  <2>6. entries' \in [DOMAIN entries ->
           [request : Txn, dependencies : SUBSET Nat, prepared : BOOLEAN]]
    BY <1>3, <2>3, <2>4
  <2> QED
    BY <2>3, <2>4, <2>5, <2>6
<1>9. StoreTypeOK'
  BY <1>1 DEF StoreTypeOK, IsImage
<1>10. CallerTypeOK' /\ IntakeTypeOK'
  BY <1>1 DEF CallerTypeOK, IntakeTypeOK
<1>11. ScheduleTypeOK'
  <2>1. \A w \in Workers : IsJob(worker[w])'
    <3> SUFFICES ASSUME NEW w \in Workers PROVE IsJob(worker[w])'
      OBVIOUS
    <3>1. CASE w \in W
      <4>1. worker'[w] = Job(assigned[w], live) /\ assigned[w] \in DOMAIN entries'
        BY <1>5, <1>7, <1>8, <3>1
      <4>2. IsImage(live)'
        BY <1>9 DEF StoreTypeOK
      <4> QED
        BY <1>1, <4>1, <4>2 DEF IsJob, Job, IsImage
    <3>2. CASE w \notin W
      <4>1. worker'[w] = worker[w] /\ IsJob(worker[w])
        BY <1>7, <3>2 DEF ScheduleTypeOK
      <4> QED
        BY <1>1, <1>8, <4>1 DEF IsJob, IsImage
    <3> QED
      BY <3>1, <3>2
  <2> QED
    BY <1>1, <1>7, <1>8, <2>1 DEF ScheduleTypeOK
<1>12. ObservedInv' /\ CheckpointInv' /\ LiveInv' /\ RestInv'
  BY <1>1 DEF ObservedInv, CheckpointInv, LiveInv, RestInv
<1>13. ScheduleInv'
  <2>1. \A i \in DOMAIN records : Len(log) + i \in DOMAIN entries
    <3>1. /\ Len(log) \in Nat /\ Len(records) \in Nat /\ DOMAIN records = 1 .. Len(records)
          /\ frontier \in 0 .. Len(log)
      BY DEF StoreTypeOK, ScheduleTypeOK
    <3> QED
      BY <1>1, <3>1 DEF ScheduleInv
  <2> QED
    BY <1>1, <1>8, <2>1 DEF ScheduleInv, NextSequence
<1>14. DependencyInv'
  <2>1. unresolved' = unresolved
    BY <1>1, <1>8 DEF unresolved
  <2>2. unresolved \subseteq DOMAIN entries
    BY DEF unresolved
  <2> QED
    BY <1>1, <1>8, <2>1, <2>2 DEF DependencyInv
<1>15. WorkerInv'
  <2>1. ASSUME NEW w \in Workers, Busy(w)'
        PROVE  \/ /\ w \in W /\ worker'[w].sequence = assigned[w]
                  /\ Result(w)' = Interpretation(log[assigned[w]], live, assigned[w])
               \/ /\ w \notin W /\ Busy(w) /\ worker'[w].sequence = worker[w].sequence
                  /\ Result(w)' = Result(w)
    <3>1. CASE w \in W
      <4>1. worker'[w] = Job(assigned[w], live)
        BY <1>7, <3>1
      <4>2. /\ worker'[w].kind = "running" /\ worker'[w].sequence = assigned[w]
            /\ worker'[w].view = live
        BY <4>1 DEF Job
      <4> QED
        BY <1>1, <3>1, <4>2 DEF Result
    <3>2. CASE w \notin W
      BY <1>1, <1>7, <2>1, <3>2 DEF Result, Busy
    <3> QED
      BY <3>1, <3>2
  <2>2. ASSUME NEW w \in Workers, Busy(w)', NEW n, n = worker'[w].sequence
        PROVE  /\ n \in DOMAIN entries' /\ n \in 1 .. Len(log)
               /\ n \notin DOMAIN live /\ ~entries'[n].prepared
               /\ Settled(log, live, n)
               /\ Result(w)' = Interpretation(log[n], live, n)
    <3>1. CASE w \in W
      BY <1>5, <1>8, <2>1, <2>2, <3>1
    <3>2. CASE w \notin W
      <4>1. Busy(w) /\ n = worker[w].sequence /\ Result(w)' = Result(w)
        BY <2>1, <2>2, <3>2
      <4> QED
        BY <1>1, <1>8, <4>1 DEF WorkerInv
    <3> QED
      BY <3>1, <3>2
  <2>3. ASSUME NEW w \in Workers, NEW v \in Workers, Busy(w)', Busy(v)',
               worker'[w].sequence = worker'[v].sequence
        PROVE  w = v
    <3>1. CASE w \in W /\ v \in W
      BY <1>6, <2>1, <2>3, <3>1
    <3>2. CASE w \notin W /\ v \notin W
      BY <1>1, <2>1, <2>3, <3>2 DEF WorkerInv
    <3>3. CASE w \in W /\ v \notin W
      <4>1. worker[v].sequence = assigned[w] /\ Busy(v)
        BY <2>1, <2>3, <3>3
      <4>2. ~entries[worker[v].sequence].prepared
        BY <1>1, <4>1 DEF WorkerInv
      <4> QED
        BY <1>5, <3>3, <4>1, <4>2
    <3>4. CASE w \notin W /\ v \in W
      <4>1. worker[w].sequence = assigned[v] /\ Busy(w)
        BY <2>1, <2>3, <3>4
      <4>2. ~entries[worker[w].sequence].prepared
        BY <1>1, <4>1 DEF WorkerInv
      <4> QED
        BY <1>5, <3>4, <4>1, <4>2
    <3> QED
      BY <3>1, <3>2, <3>3, <3>4
  <2> QED
    BY <1>1, <2>2, <2>3 DEF WorkerInv
<1> QED
  BY <1>9, <1>10, <1>11, <1>12, <1>13, <1>14, <1>15

-----------------------------------------------------------------------------
(* Completion.                                                             *)

(* The reported outcomes are final and can be installed all at once.       *)
LEMMA InstalledIsSound ==
  ASSUME IInv, mode = "running"
  PROVE  /\ DOMAIN Installed = DOMAIN live \cup Reported
         /\ Reported \subseteq DOMAIN entries
         /\ \A n \in Reported :
              /\ n \in 1 .. Len(log) /\ n \notin DOMAIN live /\ ~entries[n].prepared
              /\ Installed[n] = Interpretation(log[n], live, n)
         /\ \A n \in DOMAIN live : Installed[n] = live[n]
         /\ IsImage(Installed)
         /\ Sound(log, Installed)
<1> USE DEF IInv, TypeOK
<1>1. ASSUME NEW n \in Reported
      PROVE  /\ n \in DOMAIN entries /\ n \in 1 .. Len(log) /\ n \notin DOMAIN live
             /\ ~entries[n].prepared /\ Settled(log, live, n)
             /\ Installed[n] = Interpretation(log[n], live, n)
  <2> DEFINE w == CHOOSE v \in Done : worker[v].sequence = n
  <2>1. w \in Done /\ worker[w].sequence = n
    BY DEF Reported
  <2> HIDE DEF w
  <2>2. w \in Workers /\ Busy(w) /\ worker[w].kind = "done"
    BY <2>1 DEF Done, Busy
  <2>3. Installed[n] = worker[w].outcome
    BY DEF Installed, w
  <2>4. Result(w) = worker[w].outcome
    BY <2>2 DEF Result
  <2> QED
    BY <2>1, <2>2, <2>3, <2>4 DEF WorkerInv
<1>2. /\ DOMAIN Installed = DOMAIN live \cup Reported
      /\ Installed = [n \in DOMAIN Installed |-> Installed[n]]
  BY DEF Installed
<1>3. \A n \in DOMAIN live : Installed[n] = live[n]
  BY <1>1 DEF Installed
<1>4. IsHistory(live) /\ Sound(log, live) /\ log \in Seq(Command)
  BY ImageIsHistory DEF StoreTypeOK, LiveInv
<1>5. \A n \in DOMAIN Installed : n \in 1 .. Len(log) /\ Installed[n] \in Outcome
  <2> SUFFICES ASSUME NEW n \in DOMAIN Installed
               PROVE  n \in 1 .. Len(log) /\ Installed[n] \in Outcome
    OBVIOUS
  <2>1. CASE n \in DOMAIN live
    BY <1>3, <2>1 DEF StoreTypeOK, IsImage
  <2>2. CASE n \in Reported
    <3>1. n \in 1 .. Len(log) /\ Installed[n] = Interpretation(log[n], live, n)
      BY <1>1, <2>2
    <3>2. n \in Nat /\ log[n] \in Command
      BY <1>4, <3>1
    <3> QED
      BY <1>4, <3>1, <3>2, InterpretationIsOutcome
  <2> QED
    BY <1>2, <2>1, <2>2
<1>6. IsImage(Installed) /\ IsHistory(Installed)
  BY <1>2, <1>5 DEF IsImage, IsHistory
<1>7. Sound(log, Installed)
  <2>1. DOMAIN Installed \subseteq 1 .. Len(log)
    BY <1>5
  <2>2. \A m \in DOMAIN live : m \in DOMAIN Installed /\ Installed[m] = live[m]
    BY <1>2, <1>3
  <2>3. \A m \in DOMAIN Installed \ DOMAIN live :
          Installed[m] = Interpretation(log[m], live, m) /\ Settled(log, live, m)
    BY <1>1, <1>2
  <2> QED
    BY <1>4, <1>6, <2>1, <2>2, <2>3, InstallKeepsSound
<1> QED
  BY <1>1, <1>2, <1>3, <1>6, <1>7

(* Where the frontier stops: all of it is installed, and a job that is     *)
(* still running is above it and unaffected by what was installed.         *)
LEMMA FrontierReaches ==
  ASSUME IInv, mode = "running", NEW f \in frontier .. Len(log), Reaches(f)
  PROVE  Holds(log, Installed, f)
<1> USE DEF IInv, TypeOK
<1>1. /\ frontier \in Nat /\ Len(log) \in Nat /\ f \in 0 .. Len(log)
      /\ log \in Seq(Command) /\ 1 .. frontier \subseteq DOMAIN live
  BY DEF StoreTypeOK, LiveInv
<1>2. /\ DOMAIN Installed = DOMAIN live \cup Reported
      /\ IsImage(Installed) /\ Sound(log, Installed)
  BY InstalledIsSound
<1>3. IsHistory(Installed)
  BY <1>2, ImageIsHistory
<1>4. 1 .. f \subseteq DOMAIN Installed
  <2> SUFFICES ASSUME NEW n \in 1 .. f PROVE n \in DOMAIN Installed
    OBVIOUS
  <2>1. n <= frontier \/ n \in frontier + 1 .. f
    BY <1>1
  <2> QED
    BY <1>1, <1>2, <2>1 DEF Reaches
<1> QED
  BY <1>1, <1>2, <1>3, <1>4 DEF Holds

(* A worker that has not reported keeps a serial result while complete     *)
(* installs what the others have reported.                                 *)
LEMMA StillRunning ==
  ASSUME IInv, mode = "running", NEW f \in frontier .. Len(log), Reaches(f),
         NEW w \in Workers, Busy(w), w \notin Done
  PROVE  LET n == worker[w].sequence
         IN /\ Freed[w] = worker[w] /\ worker[w].kind = "running"
            /\ n \in DOMAIN entries /\ n \in 1 .. Len(log) /\ n > f
            /\ n \notin DOMAIN Installed /\ n \notin Reported
            /\ Settled(log, Installed, n)
            /\ Result(w) = Interpretation(log[n], Installed, n)
<1> USE DEF IInv, TypeOK
<1> DEFINE n == worker[w].sequence
<1>1. /\ n \in DOMAIN entries /\ n \in 1 .. Len(log) /\ n \notin DOMAIN live
      /\ Settled(log, live, n) /\ Result(w) = Interpretation(log[n], live, n)
  BY DEF WorkerInv
<1>2. n \notin Reported
  BY DEF WorkerInv, Reported, Done, Busy
<1>3. /\ DOMAIN Installed = DOMAIN live \cup Reported
      /\ \A m \in Reported : Installed[m] = Interpretation(log[m], live, m)
      /\ \A m \in DOMAIN live : Installed[m] = live[m]
      /\ IsImage(Installed)
  BY InstalledIsSound
<1>4. n \notin DOMAIN Installed
  BY <1>1, <1>2, <1>3
<1>5. n > f
  <2>1. frontier \in Nat /\ Len(log) \in Nat /\ Len(records) \in Nat /\ n > frontier
    BY <1>1 DEF StoreTypeOK, ScheduleTypeOK, ScheduleInv
  <2> QED
    BY <1>1, <1>4, <2>1 DEF Reaches
<1>6. Interpretation(log[n], live, n) = Interpretation(log[n], Installed, n)
      /\ Settled(log, Installed, n)
  <2>1. IsHistory(live) /\ IsHistory(Installed) /\ log \in Seq(Command)
    BY <1>3, ImageIsHistory DEF StoreTypeOK
  <2>2. DOMAIN Installed \subseteq 1 .. Len(log)
    BY <1>3 DEF IsImage
  <2>3. \A m \in DOMAIN live : m \in DOMAIN Installed /\ Installed[m] = live[m]
    BY <1>3
  <2>4. \A m \in DOMAIN Installed \ DOMAIN live : Installed[m] = Interpretation(log[m], live, m)
    BY <1>3
  <2> QED
    BY <1>1, <2>1, <2>2, <2>3, <2>4, AddedOutcomesKeepReads
<1>7. Freed[w] = worker[w] /\ worker[w].kind = "running"
  BY DEF Freed, Done, Busy
<1> QED
  BY <1>1, <1>2, <1>4, <1>5, <1>6, <1>7

(* Only the dependencies of the released entries differ.                   *)
LEMMA ReleasedEntries ==
  ASSUME ScheduleTypeOK
  PROVE  /\ DOMAIN Released = DOMAIN entries
         /\ \A n \in DOMAIN entries :
              /\ Released[n] \in
                   [request : Txn, dependencies : SUBSET Nat, prepared : BOOLEAN]
              /\ Released[n].request = entries[n].request
              /\ Released[n].prepared = entries[n].prepared
              /\ Released[n].dependencies = entries[n].dependencies \ Reported
<1>1. DOMAIN Released = DOMAIN entries
  BY DEF Released
<1>2. ASSUME NEW n \in DOMAIN entries
      PROVE  /\ Released[n] \in
                  [request : Txn, dependencies : SUBSET Nat, prepared : BOOLEAN]
             /\ Released[n].request = entries[n].request
             /\ Released[n].prepared = entries[n].prepared
             /\ Released[n].dependencies = entries[n].dependencies \ Reported
  <2>1. entries[n] \in [request : Txn, dependencies : SUBSET Nat, prepared : BOOLEAN]
    BY DEF ScheduleTypeOK
  <2>2. Released[n] = [entries[n] EXCEPT !.dependencies = @ \ Reported]
    BY DEF Released
  <2> QED
    BY <2>1, <2>2
<1> QED
  BY <1>1, <1>2

(* The type of the worker slots and the checkpoint after completion.       *)
LEMMA CompletionTypes ==
  ASSUME IInv, mode = "running", NEW f \in frontier .. Len(log), Reaches(f),
         worker' = Freed, live' = Installed, frontier' = f, log' = log,
         DOMAIN entries \ {n \in DOMAIN entries : n <= f} \subseteq DOMAIN entries',
         checkpoint' \in {checkpoint, Checkpoint(f, Installed)}
  PROVE  /\ worker' = [w \in Workers |-> worker'[w]]
         /\ \A w \in Workers : IsJob(worker[w])'
         /\ IsImage(live)'
         /\ checkpoint' = [sequence |-> checkpoint'.sequence, image |-> checkpoint'.image]
         /\ checkpoint'.sequence \in 0 .. f
         /\ IsImage(checkpoint.image)'
         /\ CheckpointInv'
<1> USE DEF IInv, TypeOK
<1>1. /\ frontier \in Nat /\ Len(log) \in Nat /\ f \in Nat /\ f >= frontier /\ f <= Len(log)
  BY DEF StoreTypeOK
<1>2. Holds(log, Installed, f) /\ IsImage(Installed)
  BY FrontierReaches, InstalledIsSound
<1>3. worker' = [w \in Workers |-> worker'[w]]
  BY DEF Freed
<1>4. ASSUME NEW w \in Workers PROVE IsJob(worker[w])'
  <2>1. CASE w \in Done
    BY <2>1 DEF Freed, IsJob
  <2>2. CASE w \notin Done /\ ~Busy(w)
    <3>1. worker'[w] = worker[w] /\ IsJob(worker[w])
      BY <2>2 DEF Freed, ScheduleTypeOK
    <3> QED
      BY <2>2, <3>1 DEF IsJob, Busy
  <2>3. CASE w \notin Done /\ Busy(w)
    <3>1. worker'[w] = worker[w] /\ worker[w].sequence \in DOMAIN entries
          /\ worker[w].sequence > f /\ worker[w].kind = "running"
      BY <2>3, StillRunning
    <3>2. worker[w].sequence \in DOMAIN entries'
      <4>1. worker[w].sequence \in Nat
        BY <2>3, BusySlot
      <4> QED
        BY <1>1, <3>1, <4>1
    <3>3. IsJob(worker[w]) /\ worker[w] \notin {Idle, Exited}
      BY <3>1 DEF ScheduleTypeOK, Idle, Exited
    <3> QED
      BY <3>1, <3>2, <3>3 DEF IsJob, IsImage
  <2> QED
    BY <2>1, <2>2, <2>3
<1>5. IsImage(live)'
  BY <1>2 DEF IsImage
<1>6. /\ checkpoint' = [sequence |-> checkpoint'.sequence, image |-> checkpoint'.image]
      /\ checkpoint'.sequence \in 0 .. f
      /\ IsImage(checkpoint.image)'
      /\ CheckpointInv'
  <2>1. CASE checkpoint' = checkpoint
    <3>1. checkpoint.sequence \in 0 .. f
      BY <1>1 DEF StoreTypeOK, LiveInv
    <3> QED
      BY <2>1, <3>1 DEF StoreTypeOK, IsImage, CheckpointInv
  <2>2. CASE checkpoint' = Checkpoint(f, Installed)
    <3>1. /\ checkpoint' = [sequence |-> checkpoint'.sequence, image |-> checkpoint'.image]
          /\ checkpoint'.sequence = f
          /\ checkpoint'.image = [n \in 1 .. f |-> Installed[n]]
          /\ DOMAIN checkpoint'.image = 1 .. f
          /\ \A n \in 1 .. f : checkpoint'.image[n] \in Outcome
          /\ Sound(log, checkpoint'.image)
      BY <1>2, <2>2, CheckpointIsSound
    <3>2. IsImage(checkpoint.image)'
      BY <1>1, <3>1 DEF IsImage
    <3> QED
      BY <1>1, <3>1, <3>2 DEF CheckpointInv
  <2> QED
    BY <2>1, <2>2
<1> QED
  BY <1>3, <1>4, <1>5, <1>6

(* A completion that cannot be installed or checkpointed stops the         *)
(* coordinator safely.                                                     *)
LEMMA CompleteFailsSafe ==
  ASSUME IInv, CompleteFails
  PROVE  IInv'
<1> USE DEF IInv, TypeOK
<1>1. /\ mode = "running" /\ mode' = "stopping" /\ live' = Installed /\ worker' = Freed
      /\ entries' = Released
      /\ UNCHANGED <<log, opens, reply, observed, queue, control, barrier, head,
                     maintenance, closing, requests, prefer_requests, records, spare,
                     poisoned>>
  BY DEF CompleteFails, AtLoopTop, Fail, channels, intake, group
<1>2. PICK f \in frontier .. Len(log) :
        Reaches(f) /\ frontier' = f /\ checkpoint' \in {checkpoint, Checkpoint(f, Installed)}
  BY DEF CompleteFails, Publish
<1>3. /\ DOMAIN Released = DOMAIN entries
      /\ \A n \in DOMAIN entries : Released[n] \in
           [request : Txn, dependencies : SUBSET Nat, prepared : BOOLEAN]
  BY ReleasedEntries
<1>4. /\ worker' = [w \in Workers |-> worker'[w]]
      /\ \A w \in Workers : IsJob(worker[w])'
      /\ IsImage(live)'
      /\ checkpoint' = [sequence |-> checkpoint'.sequence, image |-> checkpoint'.image]
      /\ checkpoint'.sequence \in 0 .. f
      /\ IsImage(checkpoint.image)'
      /\ CheckpointInv'
  BY <1>1, <1>2, <1>3, CompletionTypes
<1>5. CallerTypeOK' /\ IntakeTypeOK'
  BY <1>1 DEF CallerTypeOK, IntakeTypeOK
<1>6. StoreTypeOK'
  BY <1>1, <1>2, <1>4 DEF StoreTypeOK, IsImage
<1>7. ScheduleTypeOK'
  <2>1. entries' \in [DOMAIN entries' ->
          [request : Txn, dependencies : SUBSET Nat, prepared : BOOLEAN]]
    <3>1. entries' = [n \in DOMAIN entries |-> Released[n]]
      BY <1>1 DEF Released
    <3> QED
      BY <1>1, <1>3, <3>1
  <2> QED
    BY <1>1, <1>3, <1>4, <2>1 DEF ScheduleTypeOK
<1>8. ObservedInv'
  BY <1>1 DEF ObservedInv
<1> QED
  BY <1>1, <1>4, <1>5, <1>6, <1>7, <1>8, StoppingStep

(* complete installs a serial outcome, moves the frontier and retires      *)
(* entries: the invariant holds after it.                                  *)
LEMMA CompleteSafe ==
  ASSUME IInv, Complete
  PROVE  IInv'
<1> USE DEF IInv, TypeOK
<1>1. /\ mode = "running" /\ records = <<>> /\ live' = Installed /\ worker' = Freed
      /\ UNCHANGED <<log, mode, opens, queue, control, barrier, head, maintenance,
                     closing, requests, prefer_requests, records, spare, poisoned>>
  BY DEF Complete, AtLoopTop, channels, intake, group
<1>2. PICK f \in frontier .. Len(log) :
        /\ Reaches(f) /\ frontier' = f /\ Retire(f)
        /\ checkpoint' \in {checkpoint, Checkpoint(f, Installed)}
        /\ observed' = [n \in DOMAIN observed \cup 1 .. f |->
                          IF n \in DOMAIN observed THEN observed[n] ELSE Installed[n]]
  BY DEF Complete, Publish
<1> DEFINE retired == {n \in DOMAIN entries : n <= f}
<1>3. /\ frontier \in Nat /\ Len(log) \in Nat /\ Len(records) = 0
      /\ f \in Nat /\ f >= frontier /\ f <= Len(log)
      /\ DOMAIN entries = frontier + 1 .. Len(log) /\ DOMAIN records = {}
  BY <1>1 DEF StoreTypeOK, ScheduleInv
<1>4. /\ DOMAIN Released = DOMAIN entries
      /\ \A n \in DOMAIN entries :
           /\ Released[n] \in
                [request : Txn, dependencies : SUBSET Nat, prepared : BOOLEAN]
           /\ Released[n].request = entries[n].request
           /\ Released[n].prepared = entries[n].prepared
           /\ Released[n].dependencies = entries[n].dependencies \ Reported
  BY ReleasedEntries
<1>5. /\ entries' = [n \in DOMAIN entries \ retired |-> Released[n]]
      /\ reply' = [c \in Command |->
           IF \E n \in retired : entries[n].request = c
             THEN LET n == CHOOSE m \in retired : entries[m].request = c
                  IN Receipt(n, Installed[n])
             ELSE reply[c]]
  BY <1>2 DEF Retire
<1>6. /\ DOMAIN entries' = f + 1 .. Len(log)
      /\ \A n \in DOMAIN entries' : n \in DOMAIN entries /\ entries'[n] = Released[n]
  <2>1. DOMAIN entries \ retired = f + 1 .. Len(log)
    BY <1>3
  <2> QED
    BY <1>5, <2>1
<1>7. Holds(log, Installed, f)
  BY <1>1, <1>2, FrontierReaches
<1>8. /\ DOMAIN Installed = DOMAIN live \cup Reported
      /\ \A n \in Reported : ~entries[n].prepared
      /\ Sound(log, Installed) /\ IsImage(Installed)
  BY <1>1, InstalledIsSound
<1>9. /\ worker' = [w \in Workers |-> worker'[w]]
      /\ \A w \in Workers : IsJob(worker[w])'
      /\ IsImage(live)'
      /\ checkpoint' = [sequence |-> checkpoint'.sequence, image |-> checkpoint'.image]
      /\ checkpoint'.sequence \in 0 .. f
      /\ IsImage(checkpoint.image)'
      /\ CheckpointInv'
  <2>1. DOMAIN entries \ retired \subseteq DOMAIN entries'
    BY <1>5
  <2> QED
    BY <1>1, <1>2, <2>1, CompletionTypes
<1>10. /\ DOMAIN observed' = 1 .. f
       /\ observed' = [n \in 1 .. f |-> observed'[n]]
       /\ \A n \in 1 .. f : observed'[n] \in Outcome
       /\ Sound(log, observed')
  <2>1. DOMAIN observed = 1 .. frontier
    BY <1>1 DEF LiveInv
  <2>2. DOMAIN observed \cup 1 .. f = 1 .. f /\ DOMAIN observed \subseteq 1 .. frontier
    BY <1>3, <2>1
  <2>3. observed' = [n \in 1 .. f |->
                       IF n \in DOMAIN observed THEN observed[n] ELSE Installed[n]]
    BY <1>2, <2>2
  <2>4. Holds(log, observed, frontier)
    <3>1. IsHistory(observed)
      BY ImageIsHistory DEF StoreTypeOK
    <3> QED
      BY <2>1, <3>1 DEF Holds, ObservedInv, StoreTypeOK
  <2>5. /\ DOMAIN observed' = 1 .. f
        /\ \A n \in 1 .. f : observed'[n] = Installed[n] /\ observed'[n] \in Outcome
        /\ Sound(log, observed')
    BY <1>3, <1>7, <2>2, <2>3, <2>4, ObservedIsSound
  <2> QED
    BY <2>3, <2>5
<1>11. CallerTypeOK'
  <2>1. reply' \in [Command -> Replies]
    <3> SUFFICES ASSUME NEW c \in Command
                 PROVE  reply'[c] \in Replies
      BY <1>5
    <3>1. CASE \E n \in retired : entries[n].request = c
      <4> DEFINE n == CHOOSE m \in retired : entries[m].request = c
      <4>1. n \in retired
        BY <3>1
      <4>2. reply'[c] = Receipt(n, Installed[n])
        BY <1>5, <3>1
      <4> HIDE DEF n
      <4>3. n \in Nat /\ n \in DOMAIN Installed
        BY <1>3, <1>7, <4>1 DEF Holds
      <4> QED
        BY <1>8, <4>2, <4>3, ReceiptType DEF IsImage
    <3>2. CASE ~\E n \in retired : entries[n].request = c
      BY <1>5, <3>2 DEF CallerTypeOK
    <3> QED
      BY <3>1, <3>2
  <2> QED
    BY <1>1, <2>1 DEF CallerTypeOK
<1>12. IntakeTypeOK'
  BY <1>1 DEF IntakeTypeOK
<1>13. StoreTypeOK'
  <2>1. IsImage(observed)'
    BY <1>1, <1>3, <1>10 DEF IsImage
  <2> QED
    BY <1>1, <1>2, <1>3, <1>9, <2>1 DEF StoreTypeOK
<1>14. ScheduleTypeOK'
  <2>1. entries' \in [DOMAIN entries' ->
          [request : Txn, dependencies : SUBSET Nat, prepared : BOOLEAN]]
    BY <1>4, <1>5, <1>6
  <2>2. DOMAIN entries' \subseteq 1 .. Len(log) + Len(records)
    BY <1>3, <1>6
  <2> QED
    BY <1>1, <1>9, <2>1, <2>2 DEF ScheduleTypeOK
<1>15. ObservedInv'
  BY <1>1, <1>3, <1>10 DEF ObservedInv
<1>16. LiveInv'
  <2>1. checkpoint'.sequence <= f
    BY <1>3, <1>9
  <2> QED
    BY <1>1, <1>2, <1>7, <1>8, <1>10, <2>1 DEF LiveInv, Holds
<1>17. ScheduleInv'
  BY <1>1, <1>2, <1>3, <1>4, <1>6 DEF ScheduleInv, NextSequence
<1>18. DependencyInv'
  <2>1. \A m \in unresolved' : m \in unresolved /\ m \notin Reported
                                /\ m \in DOMAIN entries'
    BY <1>1, <1>6, <1>8 DEF unresolved
  <2> QED
    BY <1>1, <1>4, <1>6, <1>8, <2>1 DEF DependencyInv
<1>19. WorkerInv'
  <2>1. ASSUME NEW w \in Workers, Busy(w)'
        PROVE  w \notin Done /\ Busy(w) /\ worker'[w] = worker[w]
    <3>1. w \notin Done
      BY <1>1, <2>1 DEF Busy, Freed, Idle
    <3>2. worker'[w] = worker[w]
      BY <1>1, <3>1 DEF Freed
    <3> QED
      BY <2>1, <3>1, <3>2 DEF Busy
  <2>2. ASSUME NEW w \in Workers, Busy(w)', NEW n, n = worker'[w].sequence
        PROVE  /\ n \in DOMAIN entries' /\ n \in 1 .. Len(log)
               /\ n \notin DOMAIN Installed /\ ~entries'[n].prepared
               /\ Settled(log, Installed, n)
               /\ Result(w)' = Interpretation(log[n], Installed, n)
    <3>1. w \notin Done /\ Busy(w) /\ worker'[w] = worker[w] /\ n = worker[w].sequence
      BY <2>1, <2>2
    <3>2. /\ n \in DOMAIN entries /\ n \in 1 .. Len(log) /\ n > f
          /\ n \notin DOMAIN Installed
          /\ Settled(log, Installed, n)
          /\ Result(w) = Interpretation(log[n], Installed, n)
      BY <1>1, <1>2, <3>1, StillRunning
    <3>3. n \in DOMAIN entries'
      BY <1>3, <1>6, <3>2
    <3>4. ~entries[n].prepared
      BY <1>1, <3>1 DEF WorkerInv
    <3>5. Result(w)' = Result(w)
      BY <1>1, <3>1 DEF Result
    <3> QED
      BY <1>4, <1>6, <3>2, <3>3, <3>4, <3>5
  <2>3. ASSUME NEW w \in Workers, NEW v \in Workers, Busy(w)', Busy(v)',
               worker'[w].sequence = worker'[v].sequence
        PROVE  w = v
    BY <1>1, <2>1, <2>3 DEF WorkerInv
  <2> QED
    BY <1>1, <2>2, <2>3 DEF WorkerInv
<1>20. RestInv'
  BY <1>1 DEF RestInv
<1> QED
  BY <1>9, <1>11, <1>12, <1>13, <1>14, <1>15, <1>16, <1>17, <1>18, <1>19, <1>20

-----------------------------------------------------------------------------
(* The invariant.                                                          *)

(* A new database satisfies the invariant.                                 *)
LEMMA InitSafe == Init => IInv
<1> SUFFICES ASSUME Init PROVE IInv
  OBVIOUS
<1>1. /\ log = <<>> /\ observed = NoEntries /\ live = NoEntries /\ frontier = 0
      /\ mode = "down" /\ opens = 0 /\ queue = <<>> /\ control = <<>> /\ barrier = None
      /\ head = None /\ records = <<>> /\ spare = 0 /\ entries = NoEntries
      /\ worker = [w \in Workers |-> Idle] /\ reply = [c \in Command |-> Unsent]
      /\ checkpoint = Checkpoint(0, NoEntries)
  BY DEF Init
<1>2. Len(log) = 0 /\ log \in Seq(Command) /\ DOMAIN NoEntries = {}
      /\ NoEntries = [n \in DOMAIN NoEntries |-> NoEntries[n]]
  BY <1>1 DEF NoEntries
<1>3. IsImage(NoEntries) /\ IsHistory(NoEntries) /\ Sound(log, NoEntries)
  BY <1>2 DEF IsImage, IsHistory, Sound
<1>4. DOMAIN NoEntries = 1 .. 0
  BY <1>2
<1>5. /\ checkpoint = [sequence |-> checkpoint.sequence, image |-> checkpoint.image]
      /\ checkpoint.sequence = 0
      /\ checkpoint.image = NoEntries
  <2>1. Through(NoEntries, 0) = NoEntries
    BY DEF Through, NoEntries
  <2> QED
    BY <1>1, <2>1 DEF Checkpoint
<1>6. StoreTypeOK
  BY <1>1, <1>2, <1>3, <1>5 DEF StoreTypeOK, IsImage
<1>7. CallerTypeOK
  BY <1>1, PlainReplies, EngineOptions DEF CallerTypeOK
<1>8. IntakeTypeOK
  <2>1. queue \in Seq(Request) /\ control \in Seq(Control)
    BY <1>1, EmptySeq
  <2> QED
    BY <1>1, <2>1 DEF IntakeTypeOK, Init
<1>9. ScheduleTypeOK
  <2>1. \A w \in Workers : IsJob(worker[w])
    BY <1>1 DEF IsJob
  <2> QED
    BY <1>1, <1>2, <2>1, EngineOptions DEF ScheduleTypeOK
<1>10. ObservedInv /\ CheckpointInv
  <2>1. DOMAIN observed = 1 .. 0 /\ 0 \in 0 .. Len(log)
    BY <1>1, <1>2
  <2> QED
    BY <1>1, <1>3, <1>4, <1>5, <2>1 DEF ObservedInv, CheckpointInv
<1>11. LiveInv /\ ScheduleInv /\ DependencyInv /\ WorkerInv /\ RestInv
  BY <1>1 DEF LiveInv, ScheduleInv, DependencyInv, WorkerInv, RestInv
<1> QED
  BY <1>6, <1>7, <1>8, <1>9, <1>10, <1>11 DEF IInv, TypeOK

(* A step that changes nothing preserves the invariant.                    *)
LEMMA StutterSafe ==
  ASSUME IInv, UNCHANGED vars
  PROVE  IInv'
<1>1. CallerTypeOK' /\ IntakeTypeOK' /\ spare' \in 0 .. GroupLimit
  BY DEF IInv, TypeOK, CallerTypeOK, IntakeTypeOK, ScheduleTypeOK, vars, channels, intake,
         group, pool
<1> QED
  BY <1>1, QuietStep DEF vars, disk, intake, group, schedule, pool

(* Every step of the engine keeps the invariant.                           *)
LEMMA StepSafe == IInv /\ [Next]_vars => IInv'
<1> SUFFICES ASSUME IInv, [Next]_vars PROVE IInv'
  OBVIOUS
<1>1. CASE Clients
  BY <1>1, ClientsSafe
<1>2. CASE \E w \in Workers : Worker(w)
  BY <1>2, InterpretSafe, WorkerFailsSafe DEF Worker
<1>3. CASE Coordinator
  <2>1. CASE StopPoisoned \/ StopOnStorageError \/ PrepareFailsInGroup
             \/ \E c \in Command : TakeFails(c)
    BY <2>1, QuietStopsSafe
  <2>2. CASE Complete
    BY <2>2, CompleteSafe
  <2>3. CASE CompleteFails
    BY <2>3, CompleteFailsSafe
  <2>4. CASE RunMaintenance
    BY <2>4, RunMaintenanceSafe
  <2>5. CASE Shutdown \/ DrainFails
    BY <2>5, CheckpointStopsSafe
  <2>6. CASE Dispatch
    BY <2>6, DispatchSafe
  <2>7. CASE Register \/ JoinGroup
    BY <2>7, RegisterSafe, JoinGroupSafe
  <2>8. CASE RejectInGroup \/ MeetBarrier
    BY <2>8, RejectInGroupSafe, MeetBarrierSafe
  <2>9. CASE AppendGroup \/ AppendFails
    BY <2>9, AppendGroupSafe, AppendFailsSafe
  <2>10. CASE CommitAdmin \/ CommitAdminFails
    BY <2>10, CommitAdminSafe, CommitAdminFailsSafe
  <2>11. CASE \E c \in Command : TakeCommand(c)
    BY <2>11, TakeCommandSafe
  <2>12. CASE TakeClose \/ EndOfRequests \/ TakeControl
    BY <2>12, OtherEventsSafe
  <2>13. CASE Exit
    BY <2>13, GoingDownSafe
  <2> QED
    BY <1>3, <2>1, <2>2, <2>3, <2>4, <2>5, <2>6, <2>7, <2>8, <2>9, <2>10, <2>11,
       <2>12, <2>13 DEF Coordinator
<1>4. CASE Recovery
  BY <1>4, OpenSafe, ReplaySafe, FinishRecoverySafe, RecoveryFailsSafe DEF Recovery
<1>5. CASE Crash \/ CrashInAppend
  BY <1>5, GoingDownSafe
<1>6. CASE UNCHANGED vars
  BY <1>6, StutterSafe
<1> QED
  BY <1>1, <1>2, <1>3, <1>4, <1>5, <1>6 DEF Next

(* IInv holds in every reachable state of the engine, for every workload,  *)
(* every set of workers and every placement of failures and crashes.       *)
THEOREM Invariance == Spec => []IInv
BY InitSafe, StepSafe, PTL DEF Spec

-----------------------------------------------------------------------------
(* What follows from it.                                                   *)

(* The images, the schedule and the worker slots stay well formed: in      *)
(* particular the frontier and every image stay inside the durable log and *)
(* a busy worker holds an assigned record.                                 *)
THEOREM TypeCorrectness == Spec => []TypeOK
<1>1. IInv => TypeOK
  BY DEF IInv
<1> QED
  BY <1>1, Invariance, PTL

(* Conflict scheduling is serial: whatever the workers overlap, each       *)
(* visible outcome is the one of running the log record by record.         *)
THEOREM Serializability == Spec => []SerialEquivalence
<1>1. IInv => SerialEquivalence
  BY DEF IInv, ObservedInv, Sound, SerialEquivalence
<1> QED
  BY <1>1, Invariance, PTL

(* Replay and installation never change a visible outcome: what a running  *)
(* database holds up to its frontier is what has been visible.             *)
THEOREM StableVisibility == Spec => []VisibleStateIsStable
<1>1. IInv => VisibleStateIsStable
  <2> SUFFICES ASSUME IInv, mode = "running"
               PROVE  /\ DOMAIN observed = 1 .. frontier
                      /\ \A n \in 1 .. frontier : live[n] = observed[n]
    BY DEF VisibleStateIsStable
  <2>1. DOMAIN observed = 1 .. frontier
    BY DEF IInv, LiveInv
  <2>2. IsHistory(observed) /\ IsHistory(live)
    BY ImageIsHistory DEF IInv, TypeOK, StoreTypeOK
  <2>3. Holds(log, observed, frontier) /\ Holds(log, live, frontier)
    BY <2>1, <2>2 DEF IInv, TypeOK, StoreTypeOK, LiveInv, ObservedInv, Holds
  <2>4. \A n \in 1 .. frontier : live[n] = observed[n]
    BY <2>3, SoundImagesAgree
  <2> QED
    BY <2>1, <2>4
<1> QED
  BY <1>1, Invariance, PTL

(* A published checkpoint is the serial image of exactly its prefix and    *)
(* agrees with everything that has been visible.                           *)
THEOREM CheckpointCorrectness == Spec => []CheckpointIsPrefix
<1>1. IInv => CheckpointIsPrefix
  <2> SUFFICES ASSUME IInv PROVE CheckpointIsPrefix
    OBVIOUS
  <2> DEFINE image == checkpoint.image
             s == checkpoint.sequence
  <2>1. DOMAIN image = 1 .. s /\ s \in 0 .. Len(log) /\ Sound(log, image)
    BY DEF IInv, TypeOK, StoreTypeOK, CheckpointInv
  <2>2. PICK k \in 0 .. Len(log) : DOMAIN observed = 1 .. k
    BY DEF IInv, ObservedInv
  <2>3. IsHistory(observed) /\ IsHistory(image)
    BY ImageIsHistory DEF IInv, TypeOK, StoreTypeOK
  <2>4. Holds(log, observed, k) /\ Holds(log, image, s) /\ Len(log) \in Nat
    BY <2>1, <2>2, <2>3 DEF IInv, TypeOK, StoreTypeOK, ObservedInv, Holds
  <2>5. ASSUME NEW n \in 1 .. s, n \in 1 .. k PROVE image[n] = observed[n]
    <3>1. n \in 0 .. Len(log) /\ 1 .. n \subseteq 1 .. s /\ 1 .. n \subseteq 1 .. k
          /\ n \in 1 .. n
      BY <2>1, <2>2, <2>4, <2>5
    <3>2. Holds(log, observed, n) /\ Holds(log, image, n)
      BY <2>4, <3>1 DEF Holds
    <3> HIDE DEF image
    <3> QED
      BY <3>1, <3>2, SoundImagesAgree
  <2> QED
    BY <2>1, <2>2, <2>5 DEF CheckpointIsPrefix, Sound
<1> QED
  BY <1>1, Invariance, PTL

(* append_group never has to refuse a group.                               *)
THEOREM GroupNumbering == Spec => []GroupsContinueLog
<1>1. IInv => GroupsContinueLog
  BY DEF IInv, ScheduleInv, GroupsContinueLog, GroupContinuesLog
<1> QED
  BY <1>1, Invariance, PTL

(* The log is only ever appended to, and what has been visible stays.      *)
LEMMA HistoryGrows ==
  ASSUME IInv, [Next]_vars
  PROVE  /\ Len(log) <= Len(log') /\ log' \in Seq(Command)
         /\ \A i \in 1 .. Len(log) : log'[i] = log[i]
         /\ \A n \in DOMAIN observed : n \in DOMAIN observed' /\ observed'[n] = observed[n]
<1>1. Len(log) \in Nat /\ Len(records) \in Nat /\ log \in Seq(Command)
  BY DEF IInv, TypeOK, StoreTypeOK, ScheduleTypeOK
<1>2. CASE log' \in {log, Appended} /\ observed' = observed
  BY <1>1, <1>2, AppendedIsLonger DEF IInv, TypeOK
<1>3. CASE \E c \in Command : log' \in {log, Append(log, c)} /\ observed' = observed
  BY <1>1, <1>3, AppendProperties
<1>4. CASE CommitAdmin
  <2>1. head.request \in Command
    BY <1>4, AdminMeetsDrained DEF CommitAdmin
  <2>2. log' \in {log, Append(log, head.request)}
    BY <1>4 DEF CommitAdmin
  <2>3. \A n \in DOMAIN observed : n \in DOMAIN observed' /\ observed'[n] = observed[n]
    BY <1>4 DEF CommitAdmin
  <2> QED
    BY <1>1, <2>1, <2>2, <2>3, AppendProperties
<1>5. CASE Complete \/ FinishRecovery
  <2>1. log' = log
    BY <1>5 DEF Complete, FinishRecovery
  <2>2. PICK S, image :
          observed' = [n \in DOMAIN observed \cup S |->
                         IF n \in DOMAIN observed THEN observed[n] ELSE image[n]]
    <3>1. CASE Complete
      BY <3>1 DEF Complete
    <3>2. CASE FinishRecovery
      BY <3>2 DEF FinishRecovery
    <3> QED
      BY <1>5, <3>1, <3>2
  <2>3. \A n \in DOMAIN observed : n \in DOMAIN observed' /\ observed'[n] = observed[n]
    BY <2>2
  <2> QED
    BY <1>1, <2>1, <2>3
<1>6. CASE CommitAdminFails
  <2>1. head.request \in Command
    BY <1>6, AdminMeetsDrained DEF CommitAdminFails
  <2> QED
    BY <1>3, <1>6, <2>1 DEF CommitAdminFails
<1>7. CASE Clients \/ (\E w \in Workers : Worker(w)) \/ UNCHANGED vars
  BY <1>2, <1>7 DEF Clients, Submit, SubmitClose, SubmitControl, Worker, Interpret,
                    WorkerFails, disk, vars
<1>8. CASE AppendGroup \/ AppendFails \/ CrashInAppend
  BY <1>2, <1>8 DEF AppendGroup, AppendFails, CrashInAppend
<1>9. CASE \/ StopPoisoned \/ StopOnStorageError \/ CompleteFails \/ RunMaintenance
           \/ Shutdown \/ Dispatch \/ Register \/ JoinGroup \/ RejectInGroup
  BY <1>2, <1>9 DEF StopPoisoned, StopOnStorageError, CompleteFails, RunMaintenance,
                    Shutdown, Dispatch, Register, JoinGroup, RejectInGroup, disk
<1>10. CASE \/ MeetBarrier \/ PrepareFailsInGroup \/ DrainFails
            \/ (\E c \in Command : TakeCommand(c) \/ TakeFails(c))
            \/ TakeClose \/ EndOfRequests \/ TakeControl
  BY <1>2, <1>10 DEF MeetBarrier, PrepareFailsInGroup, DrainFails, TakeCommand, TakeFails,
                     TakeClose, EndOfRequests, TakeControl, disk
<1>11. CASE Exit \/ Crash \/ Open \/ Replay \/ RecoveryFails
  BY <1>2, <1>11 DEF Exit, Crash, Open, Replay, RecoveryFails, disk
<1> QED
  BY <1>4, <1>5, <1>6, <1>7, <1>8, <1>9, <1>10, <1>11 DEF Next, Coordinator, Recovery

(* No step ever publishes a checkpoint older than the one it replaces.     *)
LEMMA CheckpointGrows ==
  ASSUME IInv, [Next]_vars
  PROVE  checkpoint.sequence <= checkpoint'.sequence
<1>1. checkpoint.sequence \in Nat /\ Len(log) \in Nat /\ frontier \in Nat
  BY DEF IInv, TypeOK, StoreTypeOK
<1>2. CASE checkpoint' = checkpoint
  BY <1>1, <1>2
<1>3. CASE /\ mode \in {"running", "recovering"}
           /\ checkpoint' \in {checkpoint, Checkpoint(frontier, live)}
  <2>1. checkpoint.sequence <= frontier
    BY <1>3 DEF IInv, LiveInv
  <2>2. checkpoint' = checkpoint \/ checkpoint'.sequence = frontier
    BY <1>3 DEF Checkpoint
  <2> QED
    BY <1>1, <2>1, <2>2
<1>4. CASE Complete \/ CompleteFails
  <2>1. mode = "running"
    BY <1>4 DEF Complete, CompleteFails, AtLoopTop
  <2>2. PICK f \in frontier .. Len(log) :
          checkpoint' \in {checkpoint, Checkpoint(f, Installed)}
    BY <1>4 DEF Complete, CompleteFails, Publish
  <2>3. checkpoint' = checkpoint \/ checkpoint'.sequence = f
    BY <2>2 DEF Checkpoint
  <2>4. checkpoint.sequence <= frontier
    BY <2>1 DEF IInv, LiveInv
  <2> QED
    BY <1>1, <2>2, <2>3, <2>4
<1>5. CASE CommitAdmin \/ CommitAdminFails
  <2>1. AdminDue
    BY <1>5 DEF CommitAdmin, CommitAdminFails
  <2>2. mode = "running" /\ frontier = Len(log)
    BY <2>1, AdminMeetsDrained
  <2>3. \/ checkpoint' = Drained
        \/ \E image : checkpoint' = Checkpoint(Len(log) + 1, image)
    BY <1>5 DEF CommitAdmin, CommitAdminFails
  <2>4. checkpoint'.sequence \in {frontier, Len(log) + 1}
    BY <2>3 DEF Drained, Checkpoint
  <2>5. checkpoint.sequence <= frontier
    BY <2>2 DEF IInv, LiveInv
  <2> QED
    BY <1>1, <2>2, <2>4, <2>5
<1>6. CASE RunMaintenance \/ Shutdown \/ DrainFails \/ FinishRecovery \/ RecoveryFails
  <2>1. mode \in {"running", "recovering"}
    BY <1>6 DEF RunMaintenance, Shutdown, DrainFails, FinishRecovery, RecoveryFails,
                AdminDue, ReadyForHead, NothingReported, AtLoopTop
  <2>2. checkpoint' \in {checkpoint, Checkpoint(frontier, live)}
    BY <1>6 DEF RunMaintenance, Shutdown, DrainFails, FinishRecovery, RecoveryFails,
                Drained
  <2> QED
    BY <1>3, <2>1, <2>2
<1>7. CASE Clients \/ (\E w \in Workers : Worker(w)) \/ UNCHANGED vars
  BY <1>2, <1>7 DEF Clients, Submit, SubmitClose, SubmitControl, Worker, Interpret,
                    WorkerFails, disk, vars
<1>8. CASE AppendGroup \/ AppendFails \/ CrashInAppend
  BY <1>2, <1>8 DEF AppendGroup, AppendFails, CrashInAppend
<1>9. CASE \/ StopPoisoned \/ StopOnStorageError
           \/ Dispatch \/ Register \/ JoinGroup \/ RejectInGroup
  BY <1>2, <1>9 DEF StopPoisoned, StopOnStorageError, Dispatch, Register, JoinGroup,
                    RejectInGroup, disk
<1>10. CASE \/ MeetBarrier \/ PrepareFailsInGroup
            \/ (\E c \in Command : TakeCommand(c) \/ TakeFails(c))
            \/ TakeClose \/ EndOfRequests \/ TakeControl
  BY <1>2, <1>10 DEF MeetBarrier, PrepareFailsInGroup, TakeCommand, TakeFails,
                     TakeClose, EndOfRequests, TakeControl, disk
<1>11. CASE Exit \/ Crash \/ Open \/ Replay
  BY <1>2, <1>11 DEF Exit, Crash, Open, Replay, disk
<1> QED
  BY <1>4, <1>5, <1>6, <1>7, <1>8, <1>9, <1>10, <1>11 DEF Next, Coordinator, Recovery

(* The log is a prefix of what it becomes.                                 *)
LEMMA LogIsPrefix ==
  ASSUME IInv, [Next]_vars
  PROVE  SubSeq(log', 1, Len(log)) = log
<1>1. /\ Len(log) <= Len(log') /\ log' \in Seq(Command) /\ log \in Seq(Command)
      /\ \A i \in 1 .. Len(log) : log'[i] = log[i]
  BY HistoryGrows DEF IInv, TypeOK, StoreTypeOK
<1> DEFINE prefix == SubSeq(log', 1, Len(log))
<1>2. Len(log) \in Nat /\ \A i \in 1 .. Len(log) : log'[i] \in Command
  BY <1>1
<1>3. /\ prefix \in Seq(Command)
      /\ Len(prefix) = IF 1 <= Len(log) THEN Len(log) - 1 + 1 ELSE 0
      /\ \A i \in 1 .. Len(log) - 1 + 1 : prefix[i] = log'[1 + i - 1]
  BY <1>2, SubSeqProperties
<1> HIDE DEF prefix
<1>4. Len(prefix) = Len(log) /\ \A i \in 1 .. Len(log) : prefix[i] = log[i]
  BY <1>1, <1>2, <1>3
<1>5. prefix = log
  BY <1>1, <1>3, <1>4, SeqEqual
<1> QED
  BY <1>5 DEF prefix

(* The durable log is append-only and checkpoints never go back, whatever  *)
(* fails and however often the directory is reopened.                      *)
THEOREM DurableGrowth == Spec => DiskOnlyGrows
<1>1. ASSUME IInv, [Next]_vars
      PROVE  [/\ Len(log) <= Len(log') /\ SubSeq(log', 1, Len(log)) = log
              /\ checkpoint.sequence <= checkpoint'.sequence]_vars
  BY <1>1, HistoryGrows, LogIsPrefix, CheckpointGrows
<1> QED
  BY <1>1, Invariance, PTL DEF Spec, DiskOnlyGrows

-----------------------------------------------------------------------------
(* Receipts.                                                               *)

(* What a step may make of a caller's knowledge: nothing, something that   *)
(* is not a receipt, or the receipt of a visible record of its own.        *)
TrueReply(c) ==
  \/ reply'[c] = reply[c]
  \/ reply'[c].kind # "receipt"
  \/ \E n \in DOMAIN observed' :
       log'[n] = c /\ reply'[c] = Receipt(n, observed'[n])

(* Answering with a refusal or a doubt keeps every receipt true.           *)
LEMMA PlainAnswer ==
  ASSUME NEW cs, NEW r \in {Unsent, Waiting, Rejected, Closed, Uncertain},
         reply' = Answer(cs, r), NEW c \in Command
  PROVE  TrueReply(c)
BY DEF TrueReply, Answer, Unsent, Waiting, Rejected, Closed, Uncertain

(* complete answers exactly the records it makes visible.                  *)
LEMMA CompleteAnswers ==
  ASSUME IInv, Complete, NEW c \in Command
  PROVE  TrueReply(c)
<1> USE DEF IInv, TypeOK
<1>1. mode = "running" /\ log' = log
  BY DEF Complete, AtLoopTop
<1>2. PICK f \in frontier .. Len(log) :
        /\ Reaches(f) /\ Retire(f)
        /\ observed' = [n \in DOMAIN observed \cup 1 .. f |->
                          IF n \in DOMAIN observed THEN observed[n] ELSE Installed[n]]
  BY DEF Complete
<1> DEFINE retired == {m \in DOMAIN entries : m <= f}
<1>3. reply'[c] = IF \E m \in retired : entries[m].request = c
                    THEN LET m == CHOOSE m \in retired : entries[m].request = c
                         IN Receipt(m, Installed[m])
                    ELSE reply[c]
  BY <1>2 DEF Retire
<1>4. CASE \E m \in retired : entries[m].request = c
  <2> DEFINE n == CHOOSE m \in retired : entries[m].request = c
  <2>1. n \in retired /\ entries[n].request = c
    BY <1>4
  <2>2. reply'[c] = Receipt(n, Installed[n])
    BY <1>3, <1>4
  <2> HIDE DEF n
  <2>3. /\ frontier \in Nat /\ Len(log) \in Nat /\ Len(records) \in Nat
        /\ DOMAIN entries = frontier + 1 .. Len(log) + Len(records)
        /\ DOMAIN observed = 1 .. frontier
    BY <1>1 DEF StoreTypeOK, ScheduleTypeOK, ScheduleInv, LiveInv
  <2>4. n \in 1 .. f /\ n \notin DOMAIN observed /\ n <= Len(log)
    BY <2>1, <2>3
  <2>5. log[n] = c
    BY <1>1, <2>1, <2>4 DEF ScheduleInv
  <2>6. n \in DOMAIN observed' /\ observed'[n] = Installed[n]
    BY <1>2, <2>4
  <2> QED
    BY <1>1, <2>2, <2>5, <2>6 DEF TrueReply
<1>5. CASE ~\E m \in retired : entries[m].request = c
  BY <1>3, <1>5 DEF TrueReply
<1> QED
  BY <1>4, <1>5

(* The receipt of an administrative record names that record and its       *)
(* serial outcome.                                                         *)
LEMMA CommitAdminAnswers ==
  ASSUME IInv, CommitAdmin, NEW c \in Command
  PROVE  TrueReply(c)
<1> DEFINE d == head.request
           n == Len(log) + 1
           E == Executed(d, n)
<1>1. CASE reply' = Answer({d}, Rejected)
  BY <1>1, PlainAnswer
<1>2. CASE /\ log' = Append(log, d)
           /\ reply' = Answer({d}, Receipt(n, E[n]))
           /\ observed' = [m \in DOMAIN observed \cup {n} |->
                IF m \in DOMAIN observed THEN observed[m] ELSE E[m]]
  <2>1. CASE c # d
    BY <1>2, <2>1 DEF TrueReply, Answer
  <2>2. CASE c = d
    <3>1. Len(log) \in Nat /\ log \in Seq(Command) /\ d \in Command
      BY AdminMeetsDrained DEF CommitAdmin, IInv, TypeOK, StoreTypeOK
    <3>2. log'[n] = d
      BY <1>2, <3>1, AppendProperties
    <3>3. n \notin DOMAIN observed
      BY <3>1 DEF IInv, TypeOK, StoreTypeOK, IsImage
    <3> HIDE DEF E, n
    <3>4. n \in DOMAIN observed' /\ observed'[n] = E[n]
      BY <1>2, <3>3
    <3>5. reply'[c] = Receipt(n, E[n])
      BY <1>2, <2>2 DEF Answer
    <3> QED
      BY <2>2, <3>2, <3>4, <3>5 DEF TrueReply
  <2> QED
    BY <2>1, <2>2
<1> QED
  BY <1>1, <1>2 DEF CommitAdmin

(* Every step that sends receipts sends them for visible records of the    *)
(* log.                                                                    *)
LEMMA AnswersAreTrue ==
  ASSUME IInv, [Next]_vars, NEW c \in Command
  PROVE  TrueReply(c)
<1>1. CASE UNCHANGED reply
  BY <1>1 DEF TrueReply
<1>2. CASE Complete
  BY <1>2, CompleteAnswers
<1>3. CASE CommitAdmin
  BY <1>3, CommitAdminAnswers
<1>4. CASE Clients
  BY <1>1, <1>4, PlainAnswer DEF Clients, Submit, SubmitClose, SubmitControl
<1>5. CASE (\E w \in Workers : Worker(w)) \/ Recovery \/ UNCHANGED vars
  BY <1>1, <1>5 DEF Worker, Interpret, WorkerFails, Recovery, Open, Replay,
                    FinishRecovery, RecoveryFails, vars
<1>6. CASE Crash \/ CrashInAppend
  BY <1>6, PlainAnswer DEF Crash, CrashInAppend
<1>7. CASE Exit
  BY <1>7 DEF Exit, TrueReply, Uncertain, Closed
<1>8. CASE RejectInGroup \/ PrepareFailsInGroup \/ CommitAdminFails
  BY <1>8, PlainAnswer DEF RejectInGroup, PrepareFailsInGroup, CommitAdminFails
<1>9. CASE \E d \in Command : TakeCommand(d) \/ TakeFails(d)
  BY <1>1, <1>9, PlainAnswer DEF TakeCommand, TakeFails
<1>10. CASE \/ StopPoisoned \/ StopOnStorageError \/ CompleteFails \/ RunMaintenance
            \/ Shutdown \/ Dispatch \/ Register \/ JoinGroup
  BY <1>1, <1>10 DEF StopPoisoned, StopOnStorageError, CompleteFails, RunMaintenance,
                     Shutdown, Dispatch, Register, JoinGroup
<1>11. CASE \/ MeetBarrier \/ AppendGroup \/ AppendFails \/ DrainFails
            \/ TakeClose \/ EndOfRequests \/ TakeControl
  BY <1>1, <1>11 DEF MeetBarrier, AppendGroup, AppendFails, DrainFails, TakeClose,
                     EndOfRequests, TakeControl
<1> QED
  BY <1>2, <1>3, <1>4, <1>5, <1>6, <1>7, <1>8, <1>9, <1>10, <1>11 DEF Next, Coordinator

(* Once a caller holds a receipt, its command is in the log at the         *)
(* sequence named, and the outcome is the visible one, across every later  *)
(* failure, crash and recovery.                                            *)
THEOREM DurableReceipts == Spec => []ReceiptsAreDurable
<1>1. Init => ReceiptsAreDurable
  BY DEF Init, ReceiptsAreDurable, Unsent
<1>2. IInv /\ ReceiptsAreDurable /\ [Next]_vars => ReceiptsAreDurable'
  <2> SUFFICES ASSUME IInv, ReceiptsAreDurable, [Next]_vars,
                      NEW c \in Command, reply'[c].kind = "receipt",
                      NEW n, n = reply'[c].sequence
               PROVE  n \in DOMAIN observed' /\ log'[n] = c
                      /\ reply'[c].outcome = observed'[n]
    BY DEF ReceiptsAreDurable
  <2>1. TrueReply(c)
    BY AnswersAreTrue
  <2>2. CASE reply'[c] = reply[c]
    <3>1. n \in DOMAIN observed /\ log[n] = c /\ reply[c].outcome = observed[n]
      BY <2>2 DEF ReceiptsAreDurable
    <3>2. n \in 1 .. Len(log)
      BY <3>1 DEF IInv, TypeOK, StoreTypeOK, IsImage
    <3>3. log'[n] = log[n] /\ n \in DOMAIN observed' /\ observed'[n] = observed[n]
      BY <3>1, <3>2, HistoryGrows
    <3> QED
      BY <2>2, <3>1, <3>3
  <2>3. CASE \E m \in DOMAIN observed' :
               log'[m] = c /\ reply'[c] = Receipt(m, observed'[m])
    BY <2>3 DEF Receipt
  <2> QED
    BY <2>1, <2>2, <2>3 DEF TrueReply
<1> QED
  BY <1>1, <1>2, Invariance, PTL DEF Spec

-----------------------------------------------------------------------------
(* The places of a command.                                                *)

InQueue(c) == \E i \in DOMAIN queue : queue[i] = c
IsAside(c) == barrier = Pending(c)
IsHead(c) == head # None /\ head.request = c
IsAssigned(c) == \E n \in DOMAIN entries : entries[n].request = c
IsLogged(c) == \E i \in DOMAIN log : log[i] = c

Unassigned(c) == InQueue(c) \/ IsAside(c) \/ IsHead(c)

(* A command is in at most one place, its caller waits exactly while it is *)
(* in one, and nothing unassigned or refused is in the log.                *)
Placed(c) ==
  /\ InQueue(c) => ~IsAside(c) /\ ~IsHead(c)
  /\ Unassigned(c) => ~IsAssigned(c) /\ ~IsLogged(c)
  /\ Unassigned(c) \/ IsAssigned(c) <=> reply[c] = Waiting
  /\ reply[c] \in {Unsent, Rejected, Closed} => ~IsLogged(c)

(* Nothing is queued twice, and nothing logged twice.                      *)
QueuedOnce ==
  \A i, j \in DOMAIN queue : queue[i] = queue[j] /\ queue[i] \in Command => i = j

LoggedOnce == \A i, j \in DOMAIN log : log[i] = log[j] => i = j

(* An assigned command is assigned once, and logged nowhere but at the     *)
(* sequence it was assigned.                                               *)
AssignedOnce ==
  /\ \A m, n \in DOMAIN entries : entries[m].request = entries[n].request => m = n
  /\ \A n \in DOMAIN entries : \A i \in DOMAIN log : log[i] = entries[n].request => i = n

(* Nothing waits in an unopened directory.                                 *)
NothingHeld ==
  mode \notin {"running", "stopping"} => queue = <<>> /\ barrier = None

(* A request is kept aside only while no head waits.                       *)
OneInHand == barrier = None \/ head = None

(* The inductive invariant of the callers' part.                           *)
PlaceInv ==
  /\ \A c \in Command : Placed(c)
  /\ QueuedOnce /\ LoggedOnce /\ AssignedOnce /\ OneInHand /\ NothingHeld

-----------------------------------------------------------------------------
(* Steps that keep every command where it is.                              *)

(* What the invariant reads is unchanged.                                  *)
LEMMA PlacesKept ==
  ASSUME PlaceInv, UNCHANGED <<queue, barrier, head, log, reply>>,
         DOMAIN entries' = DOMAIN entries,
         \A n \in DOMAIN entries : entries'[n].request = entries[n].request,
         mode' \notin {"running", "stopping"} => queue = <<>> /\ barrier = None
  PROVE  PlaceInv'
<1>1. ASSUME NEW c \in Command
      PROVE  /\ InQueue(c)' = InQueue(c) /\ IsAside(c)' = IsAside(c)
             /\ IsHead(c)' = IsHead(c) /\ IsAssigned(c)' = IsAssigned(c)
             /\ IsLogged(c)' = IsLogged(c) /\ reply'[c] = reply[c]
  BY DEF InQueue, IsAside, IsHead, IsAssigned, IsLogged
<1>2. \A c \in Command : Placed(c)'
  BY <1>1 DEF PlaceInv, Placed, Unassigned
<1>3. QueuedOnce' /\ LoggedOnce' /\ AssignedOnce' /\ OneInHand' /\ NothingHeld'
  BY DEF PlaceInv, QueuedOnce, LoggedOnce, AssignedOnce, OneInHand, NothingHeld
<1> QED
  BY <1>2, <1>3 DEF PlaceInv

(* Workers, checkpoints, dispatching, control messages, failures without   *)
(* an answer and recovery move no command.                                 *)
LEMMA QuietPlaces ==
  ASSUME IInv, PlaceInv,
         \/ \E k \in Control : SubmitControl(k)
         \/ \E w \in Workers : Worker(w)
         \/ StopPoisoned \/ StopOnStorageError \/ CompleteFails \/ RunMaintenance
         \/ Shutdown \/ Dispatch \/ DrainFails \/ EndOfRequests \/ TakeControl
         \/ Recovery \/ UNCHANGED vars
  PROVE  PlaceInv'
<1>1. CASE CompleteFails
  <2>1. UNCHANGED <<queue, barrier, head, log, reply>> /\ mode' = "stopping"
    BY <1>1 DEF CompleteFails, Fail, channels, intake
  <2>2. DOMAIN entries' = DOMAIN entries
        /\ \A n \in DOMAIN entries : entries'[n].request = entries[n].request
    BY <1>1 DEF CompleteFails, Released, IInv, TypeOK, ScheduleTypeOK
  <2> QED
    BY <2>1, <2>2, PlacesKept
<1>2. CASE Dispatch
  <2>1. UNCHANGED <<queue, barrier, head, log, reply, mode>>
    BY <1>2 DEF Dispatch, disk, channels, intake
  <2>2. DOMAIN entries' = DOMAIN entries
        /\ \A n \in DOMAIN entries : entries'[n].request = entries[n].request
    BY <1>2 DEF Dispatch, IInv, TypeOK, ScheduleTypeOK
  <2> QED
    BY <2>1, <2>2, PlacesKept DEF PlaceInv, NothingHeld
<1>3. CASE Recovery
  <2>1. UNCHANGED <<queue, barrier, head, log, reply, entries>>
    BY <1>3 DEF Recovery, Open, Replay, FinishRecovery, RecoveryFails, disk, channels,
                intake, schedule
  <2>2. mode \in {"down", "recovering"}
    BY <1>3 DEF Recovery, Open, Replay, FinishRecovery, RecoveryFails
  <2> QED
    BY <2>1, <2>2, PlacesKept DEF PlaceInv, NothingHeld
<1>4. CASE \/ \E k \in Control : SubmitControl(k)
           \/ \E w \in Workers : Worker(w)
           \/ UNCHANGED vars
  <2>1. UNCHANGED <<queue, barrier, head, log, reply, entries, mode>>
    BY <1>4 DEF SubmitControl, Worker, Interpret, WorkerFails, vars, disk, channels,
                intake, schedule
  <2> QED
    BY <2>1, PlacesKept DEF PlaceInv, NothingHeld
<1>5. CASE \/ StopPoisoned \/ StopOnStorageError \/ RunMaintenance
           \/ Shutdown \/ DrainFails \/ EndOfRequests \/ TakeControl
  <2>1. UNCHANGED <<queue, barrier, head, log, reply, entries>>
    BY <1>5 DEF StopPoisoned, StopOnStorageError, RunMaintenance, Shutdown, DrainFails,
                EndOfRequests, TakeControl, disk, channels, intake, schedule
  <2>2. mode' \in {mode, "stopping"}
    BY <1>5 DEF StopPoisoned, StopOnStorageError, RunMaintenance, Shutdown, DrainFails,
                EndOfRequests, TakeControl, Fail
  <2> QED
    BY <2>1, <2>2, PlacesKept DEF PlaceInv, NothingHeld
<1> QED
  BY <1>1, <1>2, <1>3, <1>4, <1>5

-----------------------------------------------------------------------------
(* Steps that take a request out of the channel.                           *)

(* A channel of which the first request has been taken.                    *)
LEMMA TailPlaces ==
  ASSUME IntakeTypeOK, QueuedOnce, queue # <<>>, queue' = Tail(queue)
  PROVE  /\ QueuedOnce'
         /\ InQueue(queue[1])
         /\ \A c \in Command : InQueue(c)' <=> InQueue(c) /\ c # queue[1]
<1>1. queue \in Seq(Request) /\ Len(queue) \in Nat /\ 1 \in DOMAIN queue
  BY EmptySeq DEF IntakeTypeOK
<1>2. /\ Tail(queue) \in Seq(Request)
      /\ Len(Tail(queue)) = Len(queue) - 1
      /\ \A i \in 1 .. Len(queue) - 1 : Tail(queue)[i] = queue[i + 1]
  BY <1>1, HeadTailProperties
<1>3. DOMAIN queue = 1 .. Len(queue) /\ DOMAIN queue' = 1 .. Len(queue) - 1
  BY <1>1, <1>2
<1>4. QueuedOnce'
  <2> SUFFICES ASSUME NEW i \in DOMAIN queue', NEW j \in DOMAIN queue',
                      queue'[i] = queue'[j], queue'[i] \in Command
               PROVE  i = j
    BY DEF QueuedOnce
  <2>1. i + 1 \in DOMAIN queue /\ j + 1 \in DOMAIN queue
    BY <1>1, <1>3
  <2>2. queue[i + 1] = queue[j + 1] /\ queue[i + 1] \in Command
    BY <1>2, <1>3
  <2>3. i + 1 = j + 1
    BY <2>1, <2>2 DEF QueuedOnce
  <2> QED
    BY <1>1, <1>3, <2>3
<1>5. ASSUME NEW c \in Command, InQueue(c)'
      PROVE  InQueue(c) /\ c # queue[1]
  <2>1. PICK i \in DOMAIN queue' : queue'[i] = c
    BY <1>5 DEF InQueue
  <2>2. i + 1 \in DOMAIN queue /\ queue[i + 1] = c /\ i + 1 # 1
    BY <1>1, <1>2, <1>3, <2>1
  <2>3. c # queue[1]
    BY <1>1, <2>2 DEF QueuedOnce
  <2> QED
    BY <2>2, <2>3 DEF InQueue
<1>6. ASSUME NEW c \in Command, InQueue(c), c # queue[1]
      PROVE  InQueue(c)'
  <2>1. PICK i \in DOMAIN queue : queue[i] = c
    BY <1>6 DEF InQueue
  <2>2. i - 1 \in DOMAIN queue' /\ queue'[i - 1] = c
    BY <1>1, <1>2, <1>3, <1>6, <2>1
  <2> QED
    BY <2>2 DEF InQueue
<1>7. InQueue(queue[1])
  BY <1>1 DEF InQueue
<1> QED
  BY <1>4, <1>5, <1>6, <1>7

(* Requests are told apart by what is kept aside.                          *)
LEMMA PendingIsInjective ==
  /\ \A q, r : Pending(q) = Pending(r) => q = r
  /\ \A r : Pending(r) # None
BY DEF Pending, None

(* Take removes exactly the request it yields, which waited in one place.  *)
LEMMA TakePlaces ==
  ASSUME IInv, PlaceInv, NEW r, Take(r)
  PROVE  /\ QueuedOnce'
         /\ InQueue(r) \/ IsAside(r)
         /\ head = None
         /\ \A c \in Command : /\ InQueue(c)' <=> InQueue(c) /\ c # r
                               /\ IsAside(c)' <=> IsAside(c) /\ c # r
         /\ mode = "running"
<1>1. mode = "running" /\ head = None
  <2>1. mode = "running"
    BY DEF Take, WaitsForRequest, ReadyForEvent, ReadyForHead, NothingReported, AtLoopTop
  <2>2. barrier = Pending(r) => head = None
    BY PendingIsInjective DEF PlaceInv, OneInHand
  <2>3. WaitsForRequest => head = None
    BY DEF WaitsForRequest, RequestPending, ReadsRequests
  <2> QED
    BY <2>1, <2>2, <2>3 DEF Take
<1>2. CASE barrier = Pending(r) /\ barrier' = None /\ UNCHANGED queue
  <2>1. IsAside(r) /\ QueuedOnce'
    BY <1>2 DEF IsAside, PlaceInv, QueuedOnce
  <2>2. \A c \in Command : InQueue(c)' <=> InQueue(c)
    BY <1>2 DEF InQueue
  <2>3. \A c \in Command : (IsAside(c) => c = r) /\ ~IsAside(c)'
    BY <1>2, PendingIsInjective DEF IsAside
  <2>4. r \in Command => ~InQueue(r)
    BY <2>1 DEF PlaceInv, Placed
  <2> QED
    BY <1>1, <2>1, <2>2, <2>3, <2>4
<1>3. CASE queue # <<>> /\ r = queue[1] /\ queue' = Tail(queue) /\ UNCHANGED barrier
  <2>1. /\ QueuedOnce' /\ InQueue(r)
        /\ \A c \in Command : InQueue(c)' <=> InQueue(c) /\ c # r
    BY <1>3, TailPlaces DEF IInv, TypeOK, PlaceInv
  <2>2. \A c \in Command : IsAside(c)' <=> IsAside(c)
    BY <1>3 DEF IsAside
  <2>3. r \in Command => ~IsAside(r)
    BY <2>1 DEF PlaceInv, Placed
  <2> QED
    BY <1>1, <2>1, <2>2, <2>3
<1> QED
  BY <1>2, <1>3 DEF Take

(* The schedule and the log say the same of every command.                 *)
LEMMA RecordsKept ==
  ASSUME PlaceInv, UNCHANGED <<log, entries>>
  PROVE  /\ \A c \in Command : /\ IsAssigned(c)' <=> IsAssigned(c)
                               /\ IsLogged(c)' <=> IsLogged(c)
         /\ LoggedOnce' /\ AssignedOnce'
BY DEF PlaceInv, IsAssigned, IsLogged, LoggedOnce, AssignedOnce

(* A prepared command is the head.                                         *)
LEMMA PreparedIsHead ==
  ASSUME NEW c, NEW n, head' = Prepared(c, n)
  PROVE  \A d : IsHead(d)' <=> d = c
BY DEF IsHead, Prepared, None

(* Taking a command leaves it in the head, or answered and nowhere.        *)
LEMMA TakeCommandPlaces ==
  ASSUME IInv, PlaceInv, NEW c \in Command, TakeCommand(c) \/ TakeFails(c)
  PROVE  PlaceInv' /\ reply[c] = Waiting
<1>1. Take(c)
  BY DEF TakeCommand, TakeFails
<1>2. /\ QueuedOnce' /\ (InQueue(c) \/ IsAside(c))
      /\ head = None /\ mode = "running"
      /\ \A d \in Command : /\ InQueue(d)' <=> InQueue(d) /\ d # c
                            /\ IsAside(d)' <=> IsAside(d) /\ d # c
  BY <1>1, TakePlaces
<1>3. /\ LoggedOnce' /\ AssignedOnce'
      /\ \A d \in Command : /\ IsAssigned(d)' <=> IsAssigned(d)
                            /\ IsLogged(d)' <=> IsLogged(d)
  BY RecordsKept DEF TakeCommand, TakeFails, disk, schedule
<1>4. mode' \in {"running", "stopping"} /\ NothingHeld'
  BY <1>2 DEF TakeCommand, TakeFails, Fail, NothingHeld
<1>5. reply[c] = Waiting /\ ~IsAssigned(c) /\ ~IsLogged(c)
  BY <1>2 DEF PlaceInv, Placed, Unassigned
<1>6. \A d : ~IsHead(d)
  BY <1>2 DEF IsHead
<1>7. barrier' = None
  BY <1>1, PendingIsInjective DEF Take, WaitsForRequest
<1>8. CASE head' = Prepared(c, Len(log) + 1) /\ reply' = reply
  <2>1. \A d : IsHead(d)' <=> d = c
    BY <1>8, PreparedIsHead
  <2>2. ASSUME NEW d \in Command
        PROVE  Placed(d)'
    BY <1>2, <1>3, <1>5, <1>6, <1>8, <2>1
    DEF PlaceInv, Placed, Unassigned, Waiting, Unsent, Rejected, Closed
  <2> QED
    BY <1>2, <1>3, <1>4, <1>5, <1>7, <2>2 DEF PlaceInv, OneInHand
<1>9. CASE head' = head /\ reply' = Answer({c}, Rejected)
  <2>1. \A d : ~IsHead(d)'
    BY <1>2, <1>9 DEF IsHead
  <2>2. ASSUME NEW d \in Command
        PROVE  reply'[d] = IF d = c THEN Rejected ELSE reply[d]
    BY <1>9 DEF Answer
  <2>3. ASSUME NEW d \in Command
        PROVE  Placed(d)'
    BY <1>2, <1>3, <1>5, <1>6, <2>1, <2>2
    DEF PlaceInv, Placed, Unassigned, Waiting, Rejected
  <2> QED
    BY <1>2, <1>3, <1>4, <1>5, <1>7, <2>3 DEF PlaceInv, OneInHand
<1> QED
  BY <1>8, <1>9 DEF TakeCommand, TakeFails

(* Close is no command, so taking or submitting it moves none.             *)
LEMMA ClosePlaces ==
  ASSUME IInv, PlaceInv, TakeClose \/ SubmitClose
  PROVE  PlaceInv'
<1>1. Close \notin Command
  BY EngineOptions
<1>2. UNCHANGED <<log, entries, head, reply, mode>>
  BY DEF TakeClose, SubmitClose, disk, schedule, intake
<1>3. /\ LoggedOnce' /\ AssignedOnce'
      /\ \A d \in Command : /\ IsAssigned(d)' <=> IsAssigned(d)
                            /\ IsLogged(d)' <=> IsLogged(d)
                            /\ IsHead(d)' <=> IsHead(d)
  BY <1>2, RecordsKept DEF IsHead
<1>4. /\ QueuedOnce'
      /\ \A d \in Command : (InQueue(d)' <=> InQueue(d)) /\ (IsAside(d)' <=> IsAside(d))
      /\ OneInHand' /\ mode = "running"
  <2>1. CASE TakeClose
    <3>1. /\ QueuedOnce' /\ head = None /\ mode = "running"
          /\ \A d \in Command : /\ InQueue(d)' <=> InQueue(d) /\ d # Close
                                /\ IsAside(d)' <=> IsAside(d) /\ d # Close
      BY <2>1, TakePlaces DEF TakeClose
    <3> QED
      BY <1>1, <1>2, <3>1 DEF OneInHand
  <2>2. CASE SubmitClose
    <3>1. mode = "running" /\ queue' = Append(queue, Close) /\ barrier' = barrier
      BY <2>2 DEF SubmitClose, intake
    <3>2. queue \in Seq(Request) /\ Len(queue) \in Nat /\ Close \in Request
      BY DEF IInv, TypeOK, IntakeTypeOK, Request
    <3>3. /\ DOMAIN queue = 1 .. Len(queue) /\ DOMAIN queue' = 1 .. Len(queue) + 1
          /\ \A i \in 1 .. Len(queue) : queue'[i] = queue[i]
          /\ queue'[Len(queue) + 1] = Close
      BY <3>1, <3>2, AppendProperties
    <3>4. \A d \in Command : InQueue(d)' <=> InQueue(d)
      BY <1>1, <3>2, <3>3 DEF InQueue
    <3>5. QueuedOnce'
      BY <1>1, <3>2, <3>3 DEF PlaceInv, QueuedOnce
    <3> QED
      BY <1>2, <3>1, <3>4, <3>5 DEF IsAside, PlaceInv, OneInHand
  <2> QED
    BY <2>1, <2>2
<1>5. \A d \in Command : Placed(d)'
  BY <1>2, <1>3, <1>4 DEF PlaceInv, Placed, Unassigned
<1> QED
  BY <1>2, <1>3, <1>4, <1>5 DEF PlaceInv, NothingHeld

(* A submitted command was nowhere, and is now in the channel or refused.  *)
LEMMA SubmitPlaces ==
  ASSUME IInv, PlaceInv, NEW c \in Command, Submit(c)
  PROVE  PlaceInv'
<1>1. UNCHANGED <<log, entries, head, barrier, mode>> /\ mode = "running"
  BY DEF Submit, disk, schedule, intake
<1>2. /\ LoggedOnce' /\ AssignedOnce'
      /\ \A d \in Command : /\ IsAssigned(d)' <=> IsAssigned(d)
                            /\ IsLogged(d)' <=> IsLogged(d)
                            /\ IsHead(d)' <=> IsHead(d)
                            /\ IsAside(d)' <=> IsAside(d)
  BY <1>1, RecordsKept DEF IsHead, IsAside
<1>3. ~Unassigned(c) /\ ~IsAssigned(c) /\ ~IsLogged(c)
  BY DEF Submit, PlaceInv, Placed, Unsent, Waiting
<1>4. CASE queue' = queue /\ reply' = Answer({c}, Closed)
  <2>1. /\ QueuedOnce'
        /\ \A d \in Command : /\ InQueue(d)' <=> InQueue(d)
                              /\ reply'[d] = IF d = c THEN Closed ELSE reply[d]
    BY <1>4 DEF Answer, InQueue, PlaceInv, QueuedOnce
  <2>2. \A d \in Command : Placed(d)'
    BY <1>2, <1>3, <2>1 DEF PlaceInv, Placed, Unassigned, Waiting, Closed
  <2> QED
    BY <1>1, <1>2, <2>1, <2>2 DEF PlaceInv, OneInHand, NothingHeld
<1>5. CASE queue' = Append(queue, c) /\ reply' = Answer({c}, Waiting)
  <2>1. queue \in Seq(Request) /\ Len(queue) \in Nat /\ c \in Request
    BY DEF IInv, TypeOK, IntakeTypeOK, Request
  <2>2. /\ DOMAIN queue = 1 .. Len(queue) /\ DOMAIN queue' = 1 .. Len(queue) + 1
        /\ \A i \in 1 .. Len(queue) : queue'[i] = queue[i]
        /\ queue'[Len(queue) + 1] = c
    BY <1>5, <2>1, AppendProperties
  <2>3. \A d \in Command : InQueue(d)' <=> InQueue(d) \/ d = c
    BY <2>1, <2>2 DEF InQueue
  <2>4. QueuedOnce'
    BY <1>3, <2>1, <2>2 DEF PlaceInv, QueuedOnce, Unassigned, InQueue
  <2>5. \A d \in Command : reply'[d] = IF d = c THEN Waiting ELSE reply[d]
    BY <1>5 DEF Answer
  <2>6. \A d \in Command : Placed(d)'
    BY <1>2, <1>3, <2>3, <2>5 DEF PlaceInv, Placed, Unassigned, Waiting, Unsent, Rejected, Closed
  <2> QED
    BY <1>1, <1>2, <2>4, <2>6 DEF PlaceInv, OneInHand, NothingHeld
<1> QED
  BY <1>4, <1>5 DEF Submit

-----------------------------------------------------------------------------
(* Steps of register.                                                      *)

(* The first request of a channel that a group takes from.                 *)
LEMMA GroupTakes ==
  ASSUME IInv, PlaceInv, GroupGoesOn, queue' = Tail(queue)
  PROVE  /\ QueuedOnce' /\ InQueue(queue[1]) /\ queue[1] \in Request
         /\ mode = "running" /\ head = None /\ barrier = None
         /\ \A d \in Command : InQueue(d)' <=> InQueue(d) /\ d # queue[1]
         /\ queue[1] \in Command =>
              /\ ~IsAssigned(queue[1]) /\ ~IsLogged(queue[1])
              /\ reply[queue[1]] = Waiting
<1>1. /\ queue # <<>> /\ mode = "running" /\ head = None /\ barrier = None
  BY DEF GroupGoesOn
<1>2. /\ QueuedOnce' /\ InQueue(queue[1]) /\ queue[1] \in Request
      /\ \A d \in Command : InQueue(d)' <=> InQueue(d) /\ d # queue[1]
  BY <1>1, TailPlaces, FirstOfQueue DEF IInv, TypeOK, PlaceInv
<1> QED
  BY <1>1, <1>2 DEF PlaceInv, Placed, Unassigned

(* Refusing the next member, whatever the reason, leaves it nowhere.       *)
LEMMA RejectInGroupPlaces ==
  ASSUME IInv, PlaceInv, RejectInGroup \/ PrepareFailsInGroup
  PROVE  PlaceInv' /\ queue[1] \in Command /\ reply[queue[1]] = Waiting
<1> DEFINE c == queue[1]
<1>1. c \in Command
  BY DEF RejectInGroup, PrepareFailsInGroup, Command
<1>2. GroupGoesOn /\ queue' = Tail(queue)
  BY DEF RejectInGroup, PrepareFailsInGroup
<1>3. /\ UNCHANGED <<log, entries, head, barrier>>
      /\ mode' \in {mode, "stopping"} /\ reply' = Answer({c}, Rejected)
  BY DEF RejectInGroup, PrepareFailsInGroup, Fail, disk, schedule, intake
<1>4. /\ QueuedOnce' /\ InQueue(c) /\ mode = "running" /\ head = None /\ barrier = None
      /\ \A d \in Command : InQueue(d)' <=> InQueue(d) /\ d # c
      /\ ~IsAssigned(c) /\ ~IsLogged(c) /\ reply[c] = Waiting
  BY <1>1, <1>2, GroupTakes
<1> HIDE DEF c
<1>5. /\ LoggedOnce' /\ AssignedOnce'
      /\ \A d \in Command : /\ IsAssigned(d)' <=> IsAssigned(d)
                            /\ IsLogged(d)' <=> IsLogged(d)
  BY <1>3, RecordsKept
<1>6. \A d \in Command : ~IsHead(d)' /\ ~IsAside(d)' /\ ~IsHead(d) /\ ~IsAside(d)
  BY <1>3, <1>4, PendingIsInjective DEF IsHead, IsAside
<1>7. \A d \in Command : reply'[d] = IF d = c THEN Rejected ELSE reply[d]
  BY <1>3 DEF Answer
<1>8. \A d \in Command : Placed(d)'
  BY <1>1, <1>4, <1>5, <1>6, <1>7 DEF PlaceInv, Placed, Unassigned, Waiting, Rejected
<1>9. PlaceInv'
  BY <1>3, <1>4, <1>5, <1>8 DEF PlaceInv, OneInHand, NothingHeld
<1> QED
  BY <1>1, <1>4, <1>9 DEF c

(* A barrier moves from the channel to the side.                           *)
LEMMA MeetBarrierPlaces ==
  ASSUME IInv, PlaceInv, MeetBarrier
  PROVE  PlaceInv'
<1> DEFINE c == queue[1]
<1>1. GroupGoesOn /\ queue' = Tail(queue) /\ barrier' = Pending(c)
      /\ UNCHANGED <<log, entries, head, reply, mode>>
  BY DEF MeetBarrier, disk, schedule
<1>2. /\ QueuedOnce' /\ InQueue(c) /\ mode = "running" /\ head = None /\ barrier = None
      /\ \A d \in Command : InQueue(d)' <=> InQueue(d) /\ d # c
      /\ c \in Command => ~IsAssigned(c) /\ ~IsLogged(c) /\ reply[c] = Waiting
  BY <1>1, GroupTakes
<1>3. \A d \in Command : /\ ~IsHead(d)' /\ ~IsHead(d) /\ ~IsAside(d)
                         /\ IsAside(d)' <=> d = c
  BY <1>1, <1>2, PendingIsInjective DEF IsHead, IsAside
<1> HIDE DEF c
<1>4. /\ LoggedOnce' /\ AssignedOnce'
      /\ \A d \in Command : /\ IsAssigned(d)' <=> IsAssigned(d)
                            /\ IsLogged(d)' <=> IsLogged(d)
  BY <1>1, RecordsKept
<1>5. \A d \in Command : Placed(d)'
  BY <1>1, <1>2, <1>3, <1>4
  DEF PlaceInv, Placed, Unassigned, Waiting, Unsent, Rejected, Closed
<1> QED
  BY <1>1, <1>2, <1>4, <1>5 DEF PlaceInv, OneInHand, NothingHeld

(* A new entry is the only place of its command.                           *)
LEMMA AssignPlaces ==
  ASSUME IInv, PlaceInv, mode = "running", log' = log,
         NEW c \in Command, Assign(c, NextSequence), ~IsAssigned(c), ~IsLogged(c)
  PROVE  /\ LoggedOnce' /\ AssignedOnce'
         /\ \A d \in Command : /\ IsAssigned(d)' <=> IsAssigned(d) \/ d = c
                               /\ IsLogged(d)' <=> IsLogged(d)
<1> DEFINE n == NextSequence
<1>1. n \notin DOMAIN entries
  BY DEF IInv, TypeOK, StoreTypeOK, ScheduleTypeOK, ScheduleInv, NextSequence
<1> HIDE DEF n
<1>2. /\ DOMAIN entries' = DOMAIN entries \cup {n}
      /\ entries'[n].request = c
      /\ \A m \in DOMAIN entries : entries'[m].request = entries[m].request
  BY <1>1 DEF Assign, Entry, n
<1>3. \A d \in Command : /\ IsAssigned(d)' <=> IsAssigned(d) \/ d = c
                         /\ IsLogged(d)' <=> IsLogged(d)
  BY <1>2 DEF IsAssigned, IsLogged
<1>4. AssignedOnce'
  BY <1>2 DEF AssignedOnce, PlaceInv, IsAssigned, IsLogged
<1>5. LoggedOnce'
  BY DEF PlaceInv, LoggedOnce
<1> QED
  BY <1>3, <1>4, <1>5

(* The head becomes the first entry of a group.                            *)
LEMMA RegisterPlaces ==
  ASSUME IInv, PlaceInv, Register
  PROVE  PlaceInv'
<1> DEFINE c == head.request
<1>1. /\ mode = "running" /\ head # None /\ c \in Command /\ head' = None
      /\ UNCHANGED <<log, queue, barrier, reply, mode>>
  BY DEF Register, ReadyForHead, NothingReported, AtLoopTop, Command, disk, channels
<1>2. Assign(c, NextSequence)
  BY <1>1 DEF Register, IInv, ScheduleInv
<1>3. IsHead(c) /\ \A d : IsHead(d) => d = c
  BY <1>1 DEF IsHead
<1> HIDE DEF c
<1>4. ~InQueue(c) /\ ~IsAside(c) /\ ~IsAssigned(c) /\ ~IsLogged(c) /\ reply[c] = Waiting
  BY <1>1, <1>3, PendingIsInjective DEF PlaceInv, Placed, Unassigned, OneInHand, IsAside
<1>5. /\ LoggedOnce' /\ AssignedOnce'
      /\ \A d \in Command : /\ IsAssigned(d)' <=> IsAssigned(d) \/ d = c
                            /\ IsLogged(d)' <=> IsLogged(d)
  BY <1>1, <1>2, <1>4, AssignPlaces
<1>6. \A d \in Command : /\ InQueue(d)' <=> InQueue(d)
                         /\ IsAside(d)' <=> IsAside(d)
                         /\ ~IsHead(d)'
  BY <1>1 DEF InQueue, IsAside, IsHead
<1>7. \A d \in Command : Placed(d)'
  BY <1>1, <1>3, <1>4, <1>5, <1>6
  DEF PlaceInv, Placed, Unassigned, Waiting, Unsent, Rejected, Closed
<1>8. QueuedOnce' /\ OneInHand' /\ NothingHeld'
  BY <1>1 DEF PlaceInv, QueuedOnce, OneInHand, NothingHeld
<1> QED
  BY <1>5, <1>7, <1>8 DEF PlaceInv

(* A joining command becomes the next entry, or the head.                  *)
LEMMA JoinGroupPlaces ==
  ASSUME IInv, PlaceInv, JoinGroup
  PROVE  PlaceInv'
<1> DEFINE c == queue[1]
<1>1. /\ GroupGoesOn /\ queue' = Tail(queue) /\ c \in Command
      /\ UNCHANGED <<log, barrier, reply, mode>>
  BY DEF JoinGroup, disk, Command
<1>2. /\ QueuedOnce' /\ InQueue(c) /\ mode = "running" /\ head = None /\ barrier = None
      /\ \A d \in Command : InQueue(d)' <=> InQueue(d) /\ d # c
      /\ ~IsAssigned(c) /\ ~IsLogged(c) /\ reply[c] = Waiting
  BY <1>1, GroupTakes
<1>3. \A d \in Command : ~IsAside(d)' /\ ~IsHead(d) /\ ~IsAside(d)
  BY <1>1, <1>2, PendingIsInjective DEF IsAside, IsHead
<1>4. OneInHand' /\ NothingHeld'
  BY <1>1, <1>2 DEF OneInHand, NothingHeld
<1>5. CASE Assign(c, NextSequence) /\ head' = head
  <2>1. /\ LoggedOnce' /\ AssignedOnce'
        /\ \A d \in Command : /\ IsAssigned(d)' <=> IsAssigned(d) \/ d = c
                              /\ IsLogged(d)' <=> IsLogged(d)
    BY <1>1, <1>2, <1>5, AssignPlaces
  <2>2. \A d \in Command : ~IsHead(d)'
    BY <1>2, <1>5 DEF IsHead
  <2> HIDE DEF c
  <2>3. \A d \in Command : Placed(d)'
    BY <1>1, <1>2, <1>3, <2>1, <2>2
    DEF PlaceInv, Placed, Unassigned, Waiting, Unsent, Rejected, Closed
  <2> QED
    BY <1>2, <1>4, <2>1, <2>3 DEF PlaceInv
<1>6. CASE head' = Prepared(c, NextSequence) /\ entries' = entries
  <2>1. /\ LoggedOnce' /\ AssignedOnce'
        /\ \A d \in Command : /\ IsAssigned(d)' <=> IsAssigned(d)
                              /\ IsLogged(d)' <=> IsLogged(d)
    BY <1>1, <1>6, RecordsKept
  <2>2. \A d \in Command : IsHead(d)' <=> d = c
    BY <1>6, PreparedIsHead
  <2> HIDE DEF c
  <2>3. \A d \in Command : Placed(d)'
    BY <1>1, <1>2, <1>3, <2>1, <2>2
    DEF PlaceInv, Placed, Unassigned, Waiting, Unsent, Rejected, Closed
  <2> QED
    BY <1>2, <1>4, <2>1, <2>3 DEF PlaceInv
<1> QED
  BY <1>5, <1>6 DEF JoinGroup

(* Appending a group logs assigned commands, each at its own sequence.     *)
LEMMA AppendedPlaces ==
  ASSUME IInv, PlaceInv, mode = "running", log' = Appended
  PROVE  /\ LoggedOnce'
         /\ \A n \in DOMAIN entries : \A i \in DOMAIN log' :
              log'[i] = entries[n].request => i = n
         /\ \A c \in Command : IsLogged(c)' => IsLogged(c) \/ IsAssigned(c)
<1>1. /\ log' \in Seq(Command) /\ log \in Seq(Command)
      /\ Len(log) \in Nat /\ Len(records) \in Nat /\ frontier \in 0 .. Len(log)
      /\ Len(log') = Len(log) + Len(records)
      /\ \A i \in 1 .. Len(log) : log'[i] = log[i]
      /\ \A i \in 1 .. Len(records) : log'[Len(log) + i] = records[i].request
  BY AppendedIsLonger DEF IInv, TypeOK, StoreTypeOK, ScheduleTypeOK
<1>2. /\ DOMAIN log = 1 .. Len(log) /\ DOMAIN log' = 1 .. Len(log) + Len(records)
      /\ DOMAIN records = 1 .. Len(records)
      /\ DOMAIN entries = frontier + 1 .. Len(log) + Len(records)
  BY <1>1 DEF IInv, TypeOK, ScheduleTypeOK, ScheduleInv
<1>3. \A i \in DOMAIN log' : \/ i \in DOMAIN log /\ log'[i] = log[i]
                             \/ i \in DOMAIN entries /\ log'[i] = entries[i].request
  <2> SUFFICES ASSUME NEW i \in DOMAIN log', i \notin DOMAIN log
               PROVE  i \in DOMAIN entries /\ log'[i] = entries[i].request
    BY <1>1, <1>2
  <2>1. i - Len(log) \in 1 .. Len(records) /\ i = Len(log) + (i - Len(log))
    BY <1>1, <1>2
  <2>2. log'[i] = records[i - Len(log)].request
    BY <1>1, <2>1
  <2>3. records[i - Len(log)].request = entries[i].request
    BY <1>2, <2>1 DEF IInv, ScheduleInv
  <2>4. i \in DOMAIN entries
    BY <1>1, <1>2
  <2> QED
    BY <2>2, <2>3, <2>4
<1>4. \A n \in DOMAIN entries : \A i \in DOMAIN log' :
        log'[i] = entries[n].request => i = n
  BY <1>3 DEF PlaceInv, AssignedOnce
<1>5. LoggedOnce'
  <2> SUFFICES ASSUME NEW i \in DOMAIN log', NEW j \in DOMAIN log', log'[i] = log'[j]
               PROVE  i = j
    BY DEF LoggedOnce
  <2>1. CASE i \in DOMAIN entries /\ log'[i] = entries[i].request
    BY <1>4, <2>1
  <2>2. CASE j \in DOMAIN entries /\ log'[j] = entries[j].request
    BY <1>4, <2>2
  <2>3. CASE i \in DOMAIN log /\ log'[i] = log[i] /\ j \in DOMAIN log /\ log'[j] = log[j]
    BY <2>3 DEF PlaceInv, LoggedOnce
  <2> QED
    BY <1>3, <2>1, <2>2, <2>3
<1>6. \A c \in Command : IsLogged(c)' => IsLogged(c) \/ IsAssigned(c)
  BY <1>3 DEF IsLogged, IsAssigned
<1> QED
  BY <1>4, <1>5, <1>6

(* append_group, whether it succeeds or fails, moves no command.           *)
LEMMA AppendPlaces ==
  ASSUME IInv, PlaceInv, AppendGroup \/ AppendFails
  PROVE  PlaceInv'
<1>1. /\ mode = "running" /\ mode' \in {mode, "stopping"}
      /\ UNCHANGED <<queue, barrier, head, reply, entries>>
  BY DEF AppendGroup, AppendFails, Fail, channels, intake, schedule
<1>2. CASE log' = log
  BY <1>1, <1>2, PlacesKept
<1>3. CASE log' = Appended
  <2>1. /\ LoggedOnce'
        /\ \A n \in DOMAIN entries : \A i \in DOMAIN log' :
             log'[i] = entries[n].request => i = n
        /\ \A c \in Command : IsLogged(c)' => IsLogged(c) \/ IsAssigned(c)
    BY <1>1, <1>3, AppendedPlaces
  <2>2. \A c \in Command : /\ InQueue(c)' <=> InQueue(c)
                           /\ IsAside(c)' <=> IsAside(c)
                           /\ IsHead(c)' <=> IsHead(c)
                           /\ IsAssigned(c)' <=> IsAssigned(c)
    BY <1>1 DEF InQueue, IsAside, IsHead, IsAssigned
  <2>3. \A c \in Command : Placed(c)'
    BY <1>1, <2>1, <2>2
    DEF PlaceInv, Placed, Unassigned, Waiting, Unsent, Rejected, Closed
  <2>4. QueuedOnce' /\ AssignedOnce' /\ OneInHand' /\ NothingHeld'
    BY <1>1, <2>1 DEF PlaceInv, QueuedOnce, AssignedOnce, OneInHand, NothingHeld
  <2> QED
    BY <2>1, <2>3, <2>4 DEF PlaceInv
<1> QED
  BY <1>2, <1>3 DEF AppendGroup, AppendFails

-----------------------------------------------------------------------------
(* Steps that answer assigned and administrative commands.                 *)

(* One more record at the end of the log.                                  *)
LEMMA OneMoreRecord ==
  ASSUME IInv, PlaceInv, NEW c \in Command, ~IsLogged(c), log' = Append(log, c)
  PROVE  /\ LoggedOnce'
         /\ \A d \in Command : IsLogged(d)' <=> IsLogged(d) \/ d = c
<1>1. log \in Seq(Command) /\ Len(log) \in Nat /\ DOMAIN log = 1 .. Len(log)
  BY DEF IInv, TypeOK, StoreTypeOK
<1>2. /\ DOMAIN log' = 1 .. Len(log) + 1 /\ log'[Len(log) + 1] = c
      /\ \A i \in 1 .. Len(log) : log'[i] = log[i]
  BY <1>1, AppendProperties
<1>3. LoggedOnce'
  BY <1>1, <1>2 DEF PlaceInv, LoggedOnce, IsLogged
<1>4. \A d \in Command : IsLogged(d)' <=> IsLogged(d) \/ d = c
  BY <1>1, <1>2 DEF IsLogged
<1> QED
  BY <1>3, <1>4

(* An administrative head leaves with its answer: a receipt or a doubt     *)
(* when it may be logged, a refusal when it is not.                        *)
LEMMA CommitAdminPlaces ==
  ASSUME IInv, PlaceInv, CommitAdmin \/ CommitAdminFails
  PROVE  PlaceInv' /\ reply[head.request] = Waiting
<1> DEFINE c == head.request
<1>1. AdminDue /\ head' = None
  BY DEF CommitAdmin, CommitAdminFails
<1>2. /\ mode = "running" /\ head # None /\ c \in Command /\ DOMAIN entries = {}
  BY <1>1, AdminMeetsDrained DEF AdminDue
<1>3. UNCHANGED <<queue, barrier, entries>> /\ mode' \in {mode, "stopping"}
  BY DEF CommitAdmin, CommitAdminFails, Fail, channels, schedule
<1>4. IsHead(c) /\ \A d : IsHead(d) => d = c
  BY <1>2 DEF IsHead
<1>5. PICK r : /\ reply' = Answer({c}, r) /\ r # Waiting
               /\ \/ log' = log /\ r \notin {Unsent, Closed}
                  \/ log' = Append(log, c) /\ r \notin {Unsent, Rejected, Closed}
  BY DEF CommitAdmin, CommitAdminFails, Receipt, Uncertain, Waiting, Unsent, Rejected,
         Closed
<1> HIDE DEF c
<1>6. ~InQueue(c) /\ ~IsAside(c) /\ ~IsAssigned(c) /\ ~IsLogged(c) /\ reply[c] = Waiting
  BY <1>2, <1>4, PendingIsInjective DEF PlaceInv, Placed, Unassigned, OneInHand, IsAside
<1>7. \A d \in Command : /\ InQueue(d)' <=> InQueue(d)
                         /\ IsAside(d)' <=> IsAside(d)
                         /\ ~IsHead(d)'
                         /\ IsAssigned(d)' <=> IsAssigned(d)
                         /\ reply'[d] = IF d = c THEN r ELSE reply[d]
  BY <1>1, <1>3, <1>5 DEF InQueue, IsAside, IsHead, IsAssigned, Answer
<1>8. QueuedOnce' /\ AssignedOnce' /\ OneInHand' /\ NothingHeld'
  BY <1>1, <1>2, <1>3 DEF PlaceInv, QueuedOnce, AssignedOnce, OneInHand, NothingHeld
<1>9. LoggedOnce' /\ \A d \in Command : Placed(d)'
  <2>1. CASE log' = log /\ r \notin {Unsent, Closed}
    <3>1. LoggedOnce' /\ \A d \in Command : IsLogged(d)' <=> IsLogged(d)
      BY <2>1 DEF PlaceInv, LoggedOnce, IsLogged
    <3> QED
      BY <1>2, <1>4, <1>5, <1>6, <1>7, <2>1, <3>1 DEF PlaceInv, Placed, Unassigned
  <2>2. CASE log' = Append(log, c) /\ r \notin {Unsent, Rejected, Closed}
    <3>1. LoggedOnce' /\ \A d \in Command : IsLogged(d)' <=> IsLogged(d) \/ d = c
      BY <1>2, <1>6, <2>2, OneMoreRecord
    <3> QED
      BY <1>2, <1>4, <1>5, <1>6, <1>7, <2>2, <3>1 DEF PlaceInv, Placed, Unassigned
  <2> QED
    BY <1>5, <2>1, <2>2
<1>10. PlaceInv'
  BY <1>8, <1>9 DEF PlaceInv
<1> QED
  BY <1>6, <1>10 DEF c

(* complete answers assigned commands and takes them out of the schedule.  *)
LEMMA CompletePlaces ==
  ASSUME IInv, PlaceInv, Complete
  PROVE  /\ PlaceInv'
         /\ \A c \in Command : reply'[c] # reply[c] => reply[c] = Waiting
<1>1. mode = "running" /\ UNCHANGED <<log, queue, barrier, head, mode>>
  BY DEF Complete, AtLoopTop, channels, intake
<1>2. PICK f \in frontier .. Len(log) : Retire(f)
  BY DEF Complete
<1> DEFINE retired == {n \in DOMAIN entries : n <= f}
           Retired(c) == \E n \in retired : entries[n].request = c
<1>3. /\ DOMAIN entries' = DOMAIN entries \ retired
      /\ \A n \in DOMAIN entries' : entries'[n].request = entries[n].request
  BY <1>2 DEF Retire, Released, IInv, TypeOK, ScheduleTypeOK
<1>4. ASSUME NEW c \in Command
      PROVE  IF Retired(c) THEN reply'[c].kind = "receipt" ELSE reply'[c] = reply[c]
  BY <1>2 DEF Retire, Receipt
<1>5. \A c \in Command : /\ Retired(c) => IsAssigned(c) /\ ~IsAssigned(c)'
                         /\ ~Retired(c) => (IsAssigned(c)' <=> IsAssigned(c))
  BY <1>3 DEF PlaceInv, AssignedOnce, IsAssigned
<1> HIDE DEF Retired, retired
<1>6. \A c \in Command : /\ InQueue(c)' <=> InQueue(c)
                         /\ IsAside(c)' <=> IsAside(c)
                         /\ IsHead(c)' <=> IsHead(c)
                         /\ IsLogged(c)' <=> IsLogged(c)
  BY <1>1 DEF InQueue, IsAside, IsHead, IsLogged
<1>7. ASSUME NEW c \in Command
      PROVE  Placed(c)'
  <2>1. CASE Retired(c)
    <3>1. IsAssigned(c) /\ ~IsAssigned(c)' /\ ~Unassigned(c)
      BY <1>5, <2>1 DEF PlaceInv, Placed
    <3>2. reply'[c] \notin {Unsent, Waiting, Rejected, Closed}
      BY <1>4, <2>1 DEF Unsent, Waiting, Rejected, Closed
    <3> QED
      BY <1>6, <3>1, <3>2 DEF Placed, Unassigned
  <2>2. CASE ~Retired(c)
    BY <1>4, <1>5, <1>6, <2>2 DEF PlaceInv, Placed, Unassigned
  <2> QED
    BY <2>1, <2>2
<1>8. QueuedOnce' /\ LoggedOnce' /\ OneInHand' /\ NothingHeld'
  BY <1>1 DEF PlaceInv, QueuedOnce, LoggedOnce, OneInHand, NothingHeld
<1>9. AssignedOnce'
  BY <1>1, <1>3 DEF PlaceInv, AssignedOnce
<1>10. \A c \in Command : reply'[c] # reply[c] => reply[c] = Waiting
  BY <1>4, <1>5 DEF PlaceInv, Placed
<1> QED
  BY <1>7, <1>8, <1>9, <1>10 DEF PlaceInv

-----------------------------------------------------------------------------
(* Going down.                                                             *)

(* What exit, a panic and a crash make of a caller's knowledge.            *)
LastAnswer(c) ==
  \/ reply'[c] = reply[c] /\ reply[c] # Waiting
  \/ reply[c] = Waiting /\ reply'[c] = Uncertain
  \/ reply[c] = Waiting /\ reply'[c] = Closed /\ ~IsAssigned(c) /\ ~IsLogged(c)

(* Without memory a command has no place, so only answers and log count.   *)
LEMMA ForgetPlaces ==
  ASSUME IInv, PlaceInv, Forget, log' = log \/ (mode = "running" /\ log' = Appended),
         \A c \in Command : LastAnswer(c)
  PROVE  PlaceInv'
<1>1. \A c \in Command : ~Unassigned(c)' /\ ~IsAssigned(c)'
  BY PendingIsInjective
  DEF Forget, Unassigned, InQueue, IsAside, IsHead, IsAssigned, NoEntries
<1>2. QueuedOnce' /\ AssignedOnce' /\ OneInHand' /\ NothingHeld'
  BY DEF Forget, QueuedOnce, AssignedOnce, OneInHand, NothingHeld, NoEntries
<1>3. LoggedOnce' /\ \A c \in Command : IsLogged(c)' => IsLogged(c) \/ IsAssigned(c)
  <2>1. CASE log' = log
    BY <2>1 DEF PlaceInv, LoggedOnce, IsLogged
  <2>2. CASE mode = "running" /\ log' = Appended
    BY <2>2, AppendedPlaces
  <2> QED
    BY <2>1, <2>2
<1>4. ASSUME NEW c \in Command
      PROVE  /\ reply'[c] \in {Unsent, Rejected, Closed} => ~IsLogged(c)'
             /\ reply'[c] # Waiting
  <2>1. LastAnswer(c) /\ Placed(c) /\ (IsLogged(c)' => IsLogged(c) \/ IsAssigned(c))
    BY <1>3 DEF PlaceInv
  <2> QED
    BY <2>1 DEF LastAnswer, Placed, Uncertain, Unsent, Rejected, Closed, Waiting
<1> QED
  BY <1>1, <1>2, <1>3, <1>4 DEF PlaceInv, Placed, Unassigned

(* run answers what it still holds when it ends: assigned commands are in  *)
(* doubt, the others are refused.                                          *)
LEMMA ExitAnswers ==
  ASSUME IInv, PlaceInv, Exit, NEW c \in Command
  PROVE  LastAnswer(c)
<1> DEFINE refused == Range(queue)
                        \cup (IF head = None THEN {} ELSE {head.request})
                        \cup (IF barrier = None THEN {} ELSE {barrier.request})
<1>1. reply'[c] = CASE c \in Assigned -> Uncertain
                    [] c \in refused \ Assigned -> Closed
                    [] OTHER -> reply[c]
  BY DEF Exit
<1>2. c \in Assigned <=> IsAssigned(c)
  BY DEF Assigned, IsAssigned
<1>3. c \in refused <=> Unassigned(c)
  <2>1. c \in Range(queue) <=> InQueue(c)
    BY DEF Range, InQueue
  <2>2. barrier # None /\ barrier.request = c <=> IsAside(c)
    BY PendingIsInjective DEF IInv, TypeOK, IntakeTypeOK, IsAside, Pending
  <2> QED
    BY <2>1, <2>2 DEF Unassigned, IsHead
<1> HIDE DEF refused
<1>4. CASE IsAssigned(c)
  BY <1>1, <1>2, <1>4 DEF LastAnswer, PlaceInv, Placed
<1>5. CASE ~IsAssigned(c) /\ Unassigned(c)
  BY <1>1, <1>2, <1>3, <1>5 DEF LastAnswer, PlaceInv, Placed
<1>6. CASE ~IsAssigned(c) /\ ~Unassigned(c)
  BY <1>1, <1>2, <1>3, <1>6 DEF LastAnswer, PlaceInv, Placed
<1> QED
  BY <1>4, <1>5, <1>6

(* A crash leaves every waiting caller in doubt.                           *)
LEMMA CrashAnswers ==
  ASSUME NEW c \in Command,
         reply' = Answer({d \in Command : reply[d] = Waiting}, Uncertain)
  PROVE  LastAnswer(c)
BY DEF Answer, LastAnswer

(* However the database ends, its commands lose their places answered.     *)
LEMMA DownPlaces ==
  ASSUME IInv, PlaceInv, Exit \/ Crash \/ CrashInAppend
  PROVE  PlaceInv' /\ \A c \in Command : LastAnswer(c)
<1>1. Forget /\ (log' = log \/ (mode = "running" /\ log' = Appended))
  BY DEF Exit, Crash, CrashInAppend, disk
<1>2. \A c \in Command : LastAnswer(c)
  BY ExitAnswers, CrashAnswers DEF Crash, CrashInAppend
<1> QED
  BY <1>1, <1>2, ForgetPlaces

-----------------------------------------------------------------------------
(* The invariant, and what a step makes of the callers' knowledge.         *)

(* A new database holds nobody's command.                                  *)
LEMMA InitPlaces == Init => PlaceInv
<1> SUFFICES ASSUME Init
             PROVE  PlaceInv
  OBVIOUS
<1>1. \A c \in Command : /\ ~InQueue(c) /\ ~IsAside(c) /\ ~IsHead(c)
                         /\ ~IsAssigned(c) /\ ~IsLogged(c) /\ reply[c] = Unsent
  BY PendingIsInjective
  DEF Init, InQueue, IsAside, IsHead, IsAssigned, IsLogged, NoEntries
<1>2. \A c \in Command : Placed(c)
  BY <1>1 DEF Placed, Unassigned, Unsent, Waiting
<1>3. QueuedOnce /\ LoggedOnce /\ AssignedOnce /\ OneInHand /\ NothingHeld
  BY DEF Init, QueuedOnce, LoggedOnce, AssignedOnce, OneInHand, NothingHeld, NoEntries
<1> QED
  BY <1>2, <1>3 DEF PlaceInv

(* Every step moves a command from one place to the next, or answers it and *)
(* forgets it.                                                             *)
LEMMA StepPlaces ==
  ASSUME IInv, PlaceInv, [Next]_vars
  PROVE  PlaceInv'
<1>1. CASE Clients
  BY <1>1, SubmitPlaces, ClosePlaces, QuietPlaces DEF Clients
<1>2. CASE (\E w \in Workers : Worker(w)) \/ Recovery \/ UNCHANGED vars
  BY <1>2, QuietPlaces
<1>3. CASE Exit \/ Crash \/ CrashInAppend
  BY <1>3, DownPlaces
<1>4. CASE \/ StopPoisoned \/ StopOnStorageError \/ CompleteFails \/ RunMaintenance
           \/ Shutdown \/ Dispatch \/ DrainFails \/ EndOfRequests \/ TakeControl
  BY <1>4, QuietPlaces
<1>5. CASE Complete \/ CommitAdmin \/ CommitAdminFails
  BY <1>5, CompletePlaces, CommitAdminPlaces
<1>6. CASE \/ Register \/ JoinGroup \/ RejectInGroup \/ MeetBarrier
           \/ AppendGroup \/ AppendFails \/ PrepareFailsInGroup
  BY <1>6, RegisterPlaces, JoinGroupPlaces, RejectInGroupPlaces, MeetBarrierPlaces,
     AppendPlaces
<1>7. CASE TakeClose \/ \E c \in Command : TakeCommand(c) \/ TakeFails(c)
  BY <1>7, ClosePlaces, TakeCommandPlaces
<1> QED
  BY <1>1, <1>2, <1>3, <1>4, <1>5, <1>6, <1>7 DEF Next, Coordinator

(* The coordinator holds every command at most once, in its channel, aside, *)
(* as the head or assigned, and holds it exactly while its caller waits.   *)
THEOREM Places == Spec => []PlaceInv
<1>1. IInv /\ PlaceInv /\ [Next]_vars => PlaceInv'
  BY StepPlaces
<1> QED
  BY <1>1, InitPlaces, Invariance, PTL DEF Spec

(* A definite refusal is definite, and no command is logged twice: prepare *)
(* and register refuse, and run closes at its exit, only what is not in    *)
(* the log and can no longer get there.                                    *)
THEOREM DefiniteRefusals == Spec => []RefusedIsNotLogged
<1>1. PlaceInv => RefusedIsNotLogged
  BY DEF PlaceInv, Placed, IsLogged, LoggedOnce, RefusedIsNotLogged, Range
<1> QED
  BY <1>1, Places, PTL

(* No caller is forgotten: when the database is no longer open, whatever   *)
(* ended it, nobody waits for an answer of it.                             *)
THEOREM NobodyIsForgotten ==
  Spec => [](mode \notin {"running", "stopping"} =>
               \A c \in Command : reply[c] # Waiting)
<1>1. ASSUME IInv, PlaceInv, mode \notin {"running", "stopping"}, NEW c \in Command
      PROVE  reply[c] # Waiting
  <2>1. queue = <<>> /\ barrier = None /\ head = None /\ entries = NoEntries
    BY <1>1 DEF PlaceInv, NothingHeld, IInv, RestInv
  <2>2. ~Unassigned(c) /\ ~IsAssigned(c)
    BY <2>1, PendingIsInjective
    DEF Unassigned, InQueue, IsAside, IsHead, IsAssigned, NoEntries
  <2> QED
    BY <1>1, <2>2 DEF PlaceInv, Placed
<1>2. IInv /\ PlaceInv => (mode \notin {"running", "stopping"} =>
                             \A c \in Command : reply[c] # Waiting)
  BY <1>1
<1> QED
  BY <1>2, Places, Invariance, PTL

(* A caller's knowledge changes when it submits and when it is answered.   *)
Progress(c) ==
  \/ reply'[c] = reply[c]
  \/ reply[c] = Unsent /\ reply'[c] \in {Waiting, Closed}
  \/ reply[c] = Waiting /\ reply'[c] \notin {Unsent, Waiting}

(* Answering one waiting command is progress, and no other caller notices. *)
LEMMA OneAnswer ==
  ASSUME NEW d \in Command, reply[d] = Waiting, NEW r, r \notin {Unsent, Waiting},
         reply' = Answer({d}, r), NEW c \in Command
  PROVE  Progress(c)
BY DEF Answer, Progress

(* A caller is answered from Waiting, and an answer given is not replaced. *)
LEMMA StepProgress ==
  ASSUME IInv, PlaceInv, [Next]_vars, NEW c \in Command
  PROVE  Progress(c)
<1>1. CASE UNCHANGED reply
  BY <1>1 DEF Progress
<1>2. CASE Complete
  <2>1. reply'[c] # reply[c] => reply[c] = Waiting
    BY <1>2, CompletePlaces
  <2>2. reply'[c] = reply[c] \/ reply'[c].kind = "receipt"
    BY <1>2 DEF Complete, Retire, Receipt
  <2> QED
    BY <2>1, <2>2 DEF Progress, Unsent, Waiting
<1>3. CASE CommitAdmin \/ CommitAdminFails
  <2>1. reply[head.request] = Waiting /\ head.request \in Command
    BY <1>3, CommitAdminPlaces, AdminMeetsDrained DEF CommitAdmin, CommitAdminFails
  <2>2. PICK r : reply' = Answer({head.request}, r) /\ r \notin {Unsent, Waiting}
    BY <1>3 DEF CommitAdmin, CommitAdminFails, Receipt, Uncertain, Rejected, Unsent,
                Waiting
  <2> QED
    BY <2>1, <2>2, OneAnswer
<1>4. CASE Clients
  BY <1>1, <1>4 DEF Clients, Submit, SubmitClose, SubmitControl, Answer, Progress
<1>5. CASE (\E w \in Workers : Worker(w)) \/ Recovery \/ UNCHANGED vars
  BY <1>1, <1>5 DEF Worker, Interpret, WorkerFails, Recovery, Open, Replay,
                    FinishRecovery, RecoveryFails, vars
<1>6. CASE Exit \/ Crash \/ CrashInAppend
  BY <1>6, DownPlaces DEF LastAnswer, Progress, Uncertain, Closed, Unsent, Waiting
<1>7. CASE RejectInGroup \/ PrepareFailsInGroup
  <2>1. reply' = Answer({queue[1]}, Rejected) /\ Rejected \notin {Unsent, Waiting}
    BY <1>7 DEF RejectInGroup, PrepareFailsInGroup, Rejected, Unsent, Waiting
  <2> QED
    BY <1>7, <2>1, RejectInGroupPlaces, OneAnswer
<1>8. ASSUME NEW d \in Command, TakeCommand(d) \/ TakeFails(d)
      PROVE  Progress(c)
  <2>1. reply' = reply \/ reply' = Answer({d}, Rejected)
    BY <1>8 DEF TakeCommand, TakeFails
  <2>2. Rejected \notin {Unsent, Waiting}
    BY DEF Rejected, Unsent, Waiting
  <2> QED
    BY <1>1, <1>8, <2>1, <2>2, TakeCommandPlaces, OneAnswer
<1>9. CASE \/ StopPoisoned \/ StopOnStorageError \/ CompleteFails \/ RunMaintenance
           \/ Shutdown \/ Dispatch \/ Register \/ JoinGroup
  BY <1>1, <1>9 DEF StopPoisoned, StopOnStorageError, CompleteFails, RunMaintenance,
                    Shutdown, Dispatch, Register, JoinGroup
<1>10. CASE \/ MeetBarrier \/ AppendGroup \/ AppendFails \/ DrainFails
            \/ TakeClose \/ EndOfRequests \/ TakeControl
  BY <1>1, <1>10 DEF MeetBarrier, AppendGroup, AppendFails, DrainFails, TakeClose,
                     EndOfRequests, TakeControl
<1> QED
  BY <1>2, <1>3, <1>4, <1>5, <1>6, <1>7, <1>8, <1>9, <1>10 DEF Next, Coordinator

-----------------------------------------------------------------------------
(* The engine implements the serial database.                              *)

(* Both specifications interpret records alike.                            *)
LEMMA SameInterpretation ==
  /\ Serial!Command = Command
  /\ \A c, image, n : Serial!Interpretation(c, image, n) = Interpretation(c, image, n)
BY DEF Serial!Command, Command, Serial!Interpretation, Interpretation, Serial!Before,
       Before, Serial!Writers, Writers, Serial!Location, Location, Serial!Address,
       Address, Serial!Max, Max

(* A database that has not been opened is an empty serial one.             *)
LEMMA InitRefines == Init => Serial!Init
<1> SUFFICES ASSUME Init
             PROVE  Serial!Init
  OBVIOUS
<1>1. observed = [n \in {} |-> {}]
  BY DEF Init, NoEntries
<1>2. reply = [c \in Serial!Command |-> [kind |-> "unsent"]]
  BY SameInterpretation DEF Init, Unsent
<1> QED
  BY <1>1, <1>2 DEF Init, Serial!Init

(* Only a group of assigned records or the administrative head is logged.  *)
LEMMA LogSteps ==
  ASSUME IInv, [Next]_vars
  PROVE  \/ log' = log
         \/ mode = "running" /\ log' = Appended
         \/ AdminDue /\ log' = Append(log, head.request)
<1>1. CASE CommitAdmin \/ CommitAdminFails
  BY <1>1 DEF CommitAdmin, CommitAdminFails
<1>2. CASE AppendGroup \/ AppendFails \/ CrashInAppend
  BY <1>2 DEF AppendGroup, AppendFails, CrashInAppend
<1>3. CASE Clients \/ (\E w \in Workers : Worker(w)) \/ UNCHANGED vars
  BY <1>3 DEF Clients, Submit, SubmitClose, SubmitControl, Worker, Interpret,
              WorkerFails, disk, vars
<1>4. CASE \/ StopPoisoned \/ StopOnStorageError \/ Complete \/ CompleteFails
           \/ RunMaintenance \/ Shutdown \/ Dispatch \/ Register \/ JoinGroup
           \/ RejectInGroup
  BY <1>4 DEF StopPoisoned, StopOnStorageError, Complete, CompleteFails, RunMaintenance,
              Shutdown, Dispatch, Register, JoinGroup, RejectInGroup, disk
<1>5. CASE \/ MeetBarrier \/ PrepareFailsInGroup \/ DrainFails
           \/ (\E c \in Command : TakeCommand(c) \/ TakeFails(c))
           \/ TakeClose \/ EndOfRequests \/ TakeControl
  BY <1>5 DEF MeetBarrier, PrepareFailsInGroup, DrainFails, TakeCommand, TakeFails,
              TakeClose, EndOfRequests, TakeControl, disk
<1>6. CASE Exit \/ Crash \/ Recovery
  BY <1>6 DEF Exit, Crash, Recovery, Open, Replay, FinishRecovery, RecoveryFails, disk
<1> QED
  BY <1>1, <1>2, <1>3, <1>4, <1>5, <1>6 DEF Next, Coordinator

(* What is newly logged has a waiting caller.                              *)
LEMMA NewRecordsWait ==
  ASSUME IInv, PlaceInv, [Next]_vars, NEW i \in Len(log) + 1 .. Len(log')
  PROVE  reply[log'[i]] = Waiting
<1>1. log \in Seq(Command) /\ Len(log) \in Nat /\ DOMAIN log = 1 .. Len(log)
  BY DEF IInv, TypeOK, StoreTypeOK
<1>2. CASE log' = log
  BY <1>1, <1>2
<1>3. CASE mode = "running" /\ log' = Appended
  <2>1. /\ Len(records) \in Nat /\ Len(log') = Len(log) + Len(records)
        /\ log' \in Seq(Command)
        /\ \A k \in 1 .. Len(records) : log'[Len(log) + k] = records[k].request
    BY <1>3, AppendedIsLonger DEF IInv, TypeOK, ScheduleTypeOK
  <2>2. i - Len(log) \in 1 .. Len(records) /\ i = Len(log) + (i - Len(log))
    BY <1>1, <2>1
  <2>3. DOMAIN records = 1 .. Len(records) /\ frontier \in 0 .. Len(log)
    BY DEF IInv, TypeOK, ScheduleTypeOK, StoreTypeOK
  <2>4. log'[i] = entries[i].request /\ i \in DOMAIN entries
    BY <1>1, <1>3, <2>1, <2>2, <2>3 DEF IInv, ScheduleInv
  <2>5. log'[i] \in Command /\ IsAssigned(log'[i])
    BY <1>1, <2>1, <2>4, ElementOfSeq DEF IsAssigned
  <2> QED
    BY <2>5 DEF PlaceInv, Placed
<1>4. CASE AdminDue /\ log' = Append(log, head.request)
  <2>1. head.request \in Command /\ IsHead(head.request)
    BY <1>4, AdminMeetsDrained DEF AdminDue, IsHead
  <2>2. log'[i] = head.request
    BY <1>1, <1>4, <2>1, AppendProperties
  <2> QED
    BY <2>1, <2>2 DEF PlaceInv, Placed, Unassigned
<1> QED
  BY <1>2, <1>3, <1>4, LogSteps

(* The log grows by waiting commands that it does not hold yet.            *)
LEMMA StepAccepts ==
  ASSUME IInv, PlaceInv, PlaceInv', [Next]_vars
  PROVE  Serial!Accept
<1>1. /\ Len(log) <= Len(log') /\ log' \in Seq(Command) /\ Len(log) \in Nat
  BY HistoryGrows DEF IInv, TypeOK, StoreTypeOK
<1>2. SubSeq(log', 1, Len(log)) = log
  BY LogIsPrefix
<1>3. ASSUME NEW i \in Len(log) + 1 .. Len(log')
      PROVE  /\ Serial!Kind(log'[i]) = "waiting"
             /\ \A j \in 1 .. i - 1 : log'[j] # log'[i]
  <2>1. Serial!Kind(log'[i]) = "waiting"
    BY NewRecordsWait DEF Serial!Kind, Waiting
  <2>2. DOMAIN log' = 1 .. Len(log') /\ Len(log') \in Nat
    BY <1>1
  <2>3. \A j \in 1 .. i - 1 : j \in DOMAIN log' /\ j # i
    BY <1>1, <2>2
  <2>4. i \in DOMAIN log'
    BY <1>1, <2>2
  <2> QED
    BY <2>1, <2>3, <2>4 DEF PlaceInv, LoggedOnce
<1> QED
  BY <1>1, <1>2, <1>3 DEF Serial!Accept

(* What becomes visible is a longer prefix with its serial outcomes.       *)
LEMMA StepReveals ==
  ASSUME IInv, IInv', [Next]_vars
  PROVE  Serial!Reveal
<1>1. PICK k \in 0 .. Len(log') : DOMAIN observed' = 1 .. k
  BY DEF IInv, ObservedInv
<1>2. \A n \in DOMAIN observed : n \in DOMAIN observed' /\ observed'[n] = observed[n]
  BY HistoryGrows
<1>3. \A n \in DOMAIN observed' : observed'[n] = Interpretation(log'[n], observed', n)
  BY DEF IInv, ObservedInv, Sound
<1>4. \A n \in 1 .. k :
        observed'[n] = IF n \in DOMAIN observed
                         THEN observed[n]
                         ELSE Serial!Interpretation(log'[n], observed', n)
  BY <1>1, <1>2, <1>3, SameInterpretation
<1>5. DOMAIN observed \subseteq 1 .. k
  BY <1>1, <1>2
<1> QED
  BY <1>1, <1>4, <1>5 DEF Serial!Reveal

(* Every change of a caller's knowledge is one the serial database allows. *)
LEMMA StepAnswers ==
  ASSUME IInv, IInv', PlaceInv, PlaceInv', [Next]_vars
  PROVE  Serial!Answers
<1> SUFFICES ASSUME NEW c \in Command, reply'[c] # reply[c]
             PROVE  \/ /\ Serial!Kind(c) = "unsent"
                       /\ reply'[c] \in {[kind |-> "waiting"], [kind |-> "closed"]}
                    \/ /\ Serial!Kind(c) = "waiting"
                       /\ \/ /\ reply'[c].kind \in {"rejected", "closed"}
                             /\ \A i \in 1 .. Len(log') : log'[i] # c
                          \/ reply'[c].kind = "uncertain"
                          \/ \E n \in DOMAIN observed' :
                               /\ log'[n] = c
                               /\ reply'[c] = [kind |-> "receipt", sequence |-> n,
                                               outcome |-> observed'[n]]
  BY SameInterpretation DEF Serial!Answers
<1>1. Progress(c) /\ TrueReply(c)
  BY StepProgress, AnswersAreTrue
<1>2. CASE reply[c] = Unsent /\ reply'[c] \in {Waiting, Closed}
  BY <1>2 DEF Serial!Kind, Unsent, Waiting, Closed
<1>3. CASE reply[c] = Waiting /\ reply'[c] \notin {Unsent, Waiting}
  <2>1. Serial!Kind(c) = "waiting"
    BY <1>3 DEF Serial!Kind, Waiting
  <2>2. CASE reply'[c].kind = "receipt"
    BY <1>1, <2>1, <2>2 DEF TrueReply, Receipt
  <2>3. CASE reply'[c].kind # "receipt"
    <3>1. reply'[c] \in {Rejected, Closed, Uncertain}
      BY <1>3, <2>3 DEF IInv, TypeOK, CallerTypeOK, Replies
    <3>2. CASE reply'[c] \in {Rejected, Closed}
      <4>1. ~IsLogged(c)'
        BY <3>2 DEF PlaceInv, Placed
      <4>2. DOMAIN log' = 1 .. Len(log')
        BY DEF IInv, TypeOK, StoreTypeOK
      <4> QED
        BY <2>1, <3>2, <4>1, <4>2 DEF IsLogged, Rejected, Closed
    <3>3. CASE reply'[c] = Uncertain
      BY <2>1, <3>3 DEF Uncertain
    <3> QED
      BY <3>1, <3>2, <3>3
  <2> QED
    BY <2>2, <2>3
<1> QED
  BY <1>1, <1>2, <1>3 DEF Progress

(* The engine implements the serial database: whatever run, its workers,   *)
(* its failures, crashes and recovery do, callers cannot tell them from    *)
(* one command after the other on a database that never stops.             *)
THEOREM SerialRefinement == Spec => ImplementsSerialDB
<1>1. ASSUME IInv, IInv', PlaceInv, PlaceInv', [Next]_vars
      PROVE  [Serial!Next]_Serial!vars
  BY <1>1, StepAccepts, StepReveals, StepAnswers DEF Serial!Next
<1> QED
  BY <1>1, InitRefines, Invariance, Places, PTL DEF Spec, ImplementsSerialDB, Serial!Spec


-----------------------------------------------------------------------------
(* Admission is decided by the catalogue and the policy, and only          *)
(* administrative records change them; the coordinator drains the schedule *)
(* before it commits one, so nothing unresolved can change an admission.   *)

(* Replaying the records before n admits record n of the log L.            *)
Admitted(L, n) ==
  \A f : IsHistory(f) /\ Sound(L, f) /\ DOMAIN f = 1 .. n - 1 => Preparable(L[n], f, n)

(* The log is admitted, and so is everything prepared for it.              *)
AdmissionInv ==
  /\ mode # "corrupt"
  /\ \A n \in 1 .. Len(log) : Admitted(log, n)
  /\ mode = "running" =>
       /\ \A n \in DOMAIN entries : n > Len(log) => Preparable(entries[n].request, live, n)
       /\ head # None /\ head.request \in Txn =>
            Preparable(head.request, live, head.sequence)

(* Transactions write no catalogue and no policy versions.                 *)
LEMMA TransactionsKeepMetadata ==
  ASSUME NEW c \in Txn, NEW f, IsHistory(f), NEW n \in Nat
  PROVE  Metadata \notin DOMAIN Interpretation(c, f, n).effects
<1>1. DOMAIN Interpretation(c, f, n).effects \subseteq WriteSet(c)
  BY InterpretationIsOutcome DEF Command
<1>2. Metadata \notin WriteSet(c)
  BY LocationsDiffer DEF WriteSet, Covered
<1> QED
  BY <1>1, <1>2

(* Two sound images that hold 1 .. k show record n the same catalogue and  *)
(* policy when only transactions lie between.                              *)
LEMMA MetadataIsSettled ==
  ASSUME NEW L, NEW f, NEW g, NEW k, Holds(L, f, k), Holds(L, g, k), NEW n \in Nat,
         \A m \in k + 1 .. n - 1 : m <= Len(L) => L[m] \in Txn
  PROVE  Before(f, n)[Metadata] = Before(g, n)[Metadata]
<1>1. k \in Nat /\ L \in Seq(Command) /\ Len(L) \in Nat
  BY DEF Holds
<1>2. ASSUME NEW h, Holds(L, h, k), NEW m \in Writers(h, n, Metadata)
      PROVE  m \in 1 .. k
  <2>1. /\ m \in DOMAIN h /\ m < n /\ Metadata \in DOMAIN h[m].effects
        /\ m \in 1 .. Len(L) /\ h[m] = Interpretation(L[m], h, m)
    BY <1>2 DEF Writers, Holds, Sound
  <2>2. L[m] \notin Txn
    BY <1>2, <2>1, TransactionsKeepMetadata DEF Holds
  <2> QED
    BY <1>1, <2>1, <2>2
<1>3. \A m \in 1 .. k : m \in DOMAIN f /\ m \in DOMAIN g /\ f[m] = g[m]
  BY SoundImagesAgree DEF Holds
<1>4. Writers(f, n, Metadata) = Writers(g, n, Metadata)
  <2>1. \A m \in Writers(f, n, Metadata) : m \in Writers(g, n, Metadata)
    BY <1>2, <1>3 DEF Writers
  <2>2. \A m \in Writers(g, n, Metadata) : m \in Writers(f, n, Metadata)
    BY <1>2, <1>3 DEF Writers
  <2> QED
    BY <2>1, <2>2
<1>5. \A m \in Writers(f, n, Metadata) : f[m] = g[m]
  BY <1>2, <1>3
<1> QED
  BY <1>4, <1>5, SameWritersSameRead DEF Holds, Location

(* A sound image of a prefix of the log is one of the prefix.              *)
LEMMA ShorterLogKeepsSound ==
  ASSUME NEW L \in Seq(Command), NEW M \in Seq(Command), NEW f, Sound(M, f),
         Len(L) <= Len(M), \A i \in 1 .. Len(L) : M[i] = L[i],
         DOMAIN f \subseteq 1 .. Len(L)
  PROVE  Sound(L, f)
<1>1. ASSUME NEW n \in DOMAIN f
      PROVE  f[n] = Interpretation(L[n], f, n) /\ Settled(L, f, n)
  <2>1. n \in 1 .. Len(L) /\ M[n] = L[n]
    OBVIOUS
  <2>2. f[n] = Interpretation(M[n], f, n) /\ Settled(M, f, n)
    BY DEF Sound
  <2>3. \A m \in 1 .. n - 1 : M[m] = L[m]
    BY <2>1
  <2> QED
    BY <2>1, <2>2, <2>3 DEF Settled
<1> QED
  BY <1>1 DEF Sound

(* What a log admits does not depend on what is appended to it.            *)
LEMMA AdmissionIsPrefix ==
  ASSUME NEW L \in Seq(Command), NEW M \in Seq(Command),
         Len(L) <= Len(M), \A i \in 1 .. Len(L) : M[i] = L[i],
         NEW n \in 1 .. Len(L), Admitted(L, n)
  PROVE  Admitted(M, n)
<1> SUFFICES ASSUME NEW f, IsHistory(f), Sound(M, f), DOMAIN f = 1 .. n - 1
             PROVE  Preparable(M[n], f, n)
  BY DEF Admitted
<1>1. DOMAIN f \subseteq 1 .. Len(L)
  OBVIOUS
<1>2. Sound(L, f)
  BY <1>1, ShorterLogKeepsSound
<1> QED
  BY <1>2 DEF Admitted

(* A record prepared on the store's image is admitted by its log when only *)
(* transactions are unresolved before it.                                  *)
LEMMA PreparedIsAdmitted ==
  ASSUME NEW L, NEW g, NEW k, Holds(L, g, k), NEW n \in k + 1 .. Len(L),
         \A m \in k + 1 .. n - 1 : L[m] \in Txn, Preparable(L[n], g, n)
  PROVE  Admitted(L, n)
<1> SUFFICES ASSUME NEW f, IsHistory(f), Sound(L, f), DOMAIN f = 1 .. n - 1
             PROVE  Preparable(L[n], f, n)
  BY DEF Admitted
<1>1. Holds(L, f, k)
  BY DEF Holds
<1>2. n \in Nat
  BY DEF Holds
<1>3. Before(f, n)[Metadata] = Before(g, n)[Metadata]
  BY <1>1, <1>2, MetadataIsSettled
<1> QED
  BY <1>3 DEF Preparable

-----------------------------------------------------------------------------
(* A running store's image is a sound image of the log, up to the frontier. *)
LEMMA LiveHolds ==
  ASSUME IInv, mode = "running"
  PROVE  Holds(log, live, frontier)
BY ImageIsHistory DEF IInv, TypeOK, StoreTypeOK, LiveInv, Holds

(* The records after the frontier are transactions.                        *)
LEMMA UnresolvedAreTransactions ==
  ASSUME IInv, mode = "running"
  PROVE  /\ \A n \in DOMAIN entries : entries[n].request \in Txn
         /\ \A n \in frontier + 1 .. Len(log) : log[n] \in Txn
<1>1. \A n \in DOMAIN entries : entries[n].request \in Txn
  BY DEF IInv, TypeOK, ScheduleTypeOK
<1>2. ASSUME NEW n \in frontier + 1 .. Len(log)
      PROVE  n \in DOMAIN entries /\ n <= Len(log)
  BY DEF IInv, TypeOK, StoreTypeOK, ScheduleTypeOK, ScheduleInv
<1> QED
  BY <1>1, <1>2 DEF IInv, ScheduleInv

(* Appending a group keeps the log admitted, also when the group reaches   *)
(* the disk in a failed or interrupted append.                             *)
LEMMA AppendedIsAdmitted ==
  ASSUME IInv, AdmissionInv, mode = "running", log' = Appended
  PROVE  \A n \in 1 .. Len(log') : Admitted(log', n)
<1>1. /\ log' \in Seq(Command) /\ log \in Seq(Command)
      /\ Len(log) \in Nat /\ Len(records) \in Nat /\ frontier \in 0 .. Len(log)
      /\ Len(log') = Len(log) + Len(records)
      /\ \A i \in 1 .. Len(log) : log'[i] = log[i]
      /\ \A i \in 1 .. Len(records) : log'[Len(log) + i] = records[i].request
      /\ DOMAIN records = 1 .. Len(records)
  BY AppendedIsLonger DEF IInv, TypeOK, StoreTypeOK, ScheduleTypeOK
<1>2. DOMAIN entries = frontier + 1 .. Len(log')
  BY <1>1 DEF IInv, ScheduleInv
<1>3. \A n \in DOMAIN entries : log'[n] = entries[n].request
  <2> TAKE n \in DOMAIN entries
  <2>1. CASE n <= Len(log)
    BY <1>1, <1>2, <2>1 DEF IInv, ScheduleInv
  <2>2. CASE ~(n <= Len(log))
    <3>1. n - Len(log) \in 1 .. Len(records) /\ n = Len(log) + (n - Len(log))
      BY <1>1, <1>2, <2>2
    <3>2. log'[n] = records[n - Len(log)].request
      BY <1>1, <3>1
    <3> QED
      BY <1>1, <3>1, <3>2 DEF IInv, ScheduleInv
  <2> QED
    BY <2>1, <2>2
<1>4. Holds(log', live, frontier)
  <2>1. Holds(log, live, frontier)
    BY LiveHolds
  <2>2. Sound(log', live)
    BY <1>1, <2>1, LogGrowthKeepsSound DEF Holds
  <2> QED
    BY <1>1, <2>1, <2>2 DEF Holds
<1>5. ASSUME NEW n \in 1 .. Len(log)
      PROVE  Admitted(log', n)
  BY <1>1, AdmissionIsPrefix DEF AdmissionInv
<1>6. ASSUME NEW n \in Len(log) + 1 .. Len(log')
      PROVE  Admitted(log', n)
  <2>1. n \in DOMAIN entries /\ n > Len(log) /\ n \in frontier + 1 .. Len(log')
    BY <1>1, <1>2
  <2>2. Preparable(log'[n], live, n)
    BY <1>3, <2>1 DEF AdmissionInv
  <2>3. \A m \in frontier + 1 .. n - 1 : m \in DOMAIN entries
    BY <1>1, <1>2, <2>1
  <2>4. \A m \in frontier + 1 .. n - 1 : log'[m] \in Txn
    BY <1>3, <2>3, UnresolvedAreTransactions
  <2> QED
    BY <1>4, <2>1, <2>2, <2>4, PreparedIsAdmitted
<1> QED
  BY <1>1, <1>5, <1>6

(* A step that logs nothing and changes no prepared record.                *)
LEMMA AdmissionKept ==
  ASSUME AdmissionInv, log' = log, mode' # "corrupt",
         mode' = "running" =>
           /\ mode = "running" /\ live' = live /\ head' \in {head, None}
           /\ DOMAIN entries' = DOMAIN entries
           /\ \A n \in DOMAIN entries : entries'[n].request = entries[n].request
  PROVE  AdmissionInv'
<1>1. \A n \in 1 .. Len(log') : Admitted(log', n)
  BY DEF AdmissionInv
<1>2. mode' = "running" =>
        /\ \A n \in DOMAIN entries' : n > Len(log') => Preparable(entries'[n].request, live', n)
        /\ head' # None /\ head'.request \in Txn =>
             Preparable(head'.request, live', head'.sequence)
  BY DEF AdmissionInv
<1> QED
  BY <1>1, <1>2 DEF AdmissionInv

(* A step that leaves "running" admits nothing new but what it logs.       *)
LEMMA AdmissionAtStop ==
  ASSUME mode' \notin {"running", "corrupt"}, \A n \in 1 .. Len(log') : Admitted(log', n)
  PROVE  AdmissionInv'
BY DEF AdmissionInv

(* Workers, checkpoints, dispatching, the channels and every stop.         *)
LEMMA QuietAdmission ==
  ASSUME IInv, AdmissionInv,
         \/ Clients \/ \E w \in Workers : Worker(w)
         \/ StopPoisoned \/ StopOnStorageError \/ CompleteFails \/ RunMaintenance
         \/ Shutdown \/ Dispatch \/ RejectInGroup \/ MeetBarrier
         \/ PrepareFailsInGroup \/ DrainFails \/ TakeClose \/ EndOfRequests \/ TakeControl
         \/ (\E c \in Command : TakeFails(c))
         \/ Exit \/ Crash \/ Open \/ RecoveryFails \/ UNCHANGED vars
  PROVE  AdmissionInv'
<1>1. CASE Dispatch
  <2>1. UNCHANGED <<log, mode, live, head>>
    BY <1>1 DEF Dispatch, disk, intake
  <2>2. DOMAIN entries' = DOMAIN entries
        /\ \A n \in DOMAIN entries : entries'[n].request = entries[n].request
    BY <1>1 DEF Dispatch, IInv, TypeOK, ScheduleTypeOK
  <2>3. mode' # "corrupt"
    BY <2>1 DEF AdmissionInv
  <2> QED
    BY <2>1, <2>2, <2>3, AdmissionKept
<1>2. CASE Clients \/ (\E w \in Workers : Worker(w)) \/ UNCHANGED vars
  <2>1. UNCHANGED <<log, mode, live, head, entries>>
    BY <1>2 DEF Clients, Submit, SubmitClose, SubmitControl, Worker, Interpret,
                WorkerFails, vars, disk, intake, schedule
  <2> QED
    BY <2>1, AdmissionKept DEF AdmissionInv
<1>3. CASE \/ StopPoisoned \/ StopOnStorageError \/ CompleteFails \/ Shutdown
           \/ PrepareFailsInGroup \/ DrainFails \/ (\E c \in Command : TakeFails(c))
           \/ Exit \/ Crash \/ Open \/ RecoveryFails
  <2>1. log' = log
    BY <1>3 DEF StopPoisoned, StopOnStorageError, CompleteFails, Shutdown,
                PrepareFailsInGroup, DrainFails, TakeFails, Exit, Crash, Open,
                RecoveryFails, disk
  <2>2. mode' \in {"stopping", "down", "recovering"}
    BY <1>3 DEF StopPoisoned, StopOnStorageError, CompleteFails, Shutdown,
                PrepareFailsInGroup, DrainFails, TakeFails, Exit, Crash, Open,
                RecoveryFails, Fail
  <2> QED
    BY <2>1, <2>2, AdmissionKept
<1>4. CASE \/ RunMaintenance \/ RejectInGroup \/ MeetBarrier
           \/ TakeClose \/ EndOfRequests \/ TakeControl
  <2>1. UNCHANGED <<log, live, head, entries>>
    BY <1>4 DEF RunMaintenance, RejectInGroup, MeetBarrier, TakeClose, EndOfRequests,
                TakeControl, disk, intake, schedule
  <2>2. mode' \in {mode, "stopping"}
    BY <1>4 DEF RunMaintenance, RejectInGroup, MeetBarrier, TakeClose, EndOfRequests,
                TakeControl, Fail
  <2> QED
    BY <2>1, <2>2, AdmissionKept DEF AdmissionInv
<1> QED
  BY <1>1, <1>2, <1>3, <1>4

(* A taken command becomes the head only when it is preparable on the      *)
(* store's image.                                                          *)
LEMMA TakeCommandAdmission ==
  ASSUME IInv, AdmissionInv, NEW c \in Command, TakeCommand(c)
  PROVE  AdmissionInv'
<1>1. UNCHANGED <<log, mode, live, entries>>
  BY DEF TakeCommand, disk, schedule
<1>2. CASE head' = head
  BY <1>1, <1>2, AdmissionKept DEF AdmissionInv
<1>3. CASE prepare(c, Len(log) + 1) /\ head' = Prepared(c, Len(log) + 1)
  <2>1. head'.request = c /\ head'.sequence = Len(log) + 1
    BY <1>3 DEF Prepared
  <2>2. c \in Txn => Preparable(c, live, Len(log) + 1)
    BY <1>3 DEF prepare
  <2> QED
    BY <1>1, <2>1, <2>2 DEF AdmissionInv
<1> QED
  BY <1>2, <1>3 DEF TakeCommand

(* An assigned record has been prepared for its sequence.                  *)
LEMMA AssignAdmission ==
  ASSUME IInv, AdmissionInv, mode = "running", UNCHANGED <<log, mode, live>>,
         head' \in {head, None}, NEW c, Assign(c, NextSequence),
         Preparable(c, live, NextSequence)
  PROVE  AdmissionInv'
<1>1. \A n \in DOMAIN entries' :
        \/ n = NextSequence /\ entries'[n].request = c
        \/ n \in DOMAIN entries /\ entries'[n].request = entries[n].request
  BY DEF Assign, Entry
<1> QED
  BY <1>1 DEF AdmissionInv

(* The head joins the group it was prepared for, or starts it; the group is *)
(* then logged, or fails, as it was prepared.                              *)
LEMMA RegisterAdmission ==
  ASSUME IInv, AdmissionInv, Register \/ JoinGroup
  PROVE  AdmissionInv'
<1>1. mode = "running" /\ UNCHANGED <<log, mode, live>>
  BY DEF Register, JoinGroup, ReadyForHead, NothingReported, AtLoopTop, GroupGoesOn, disk
<1>2. CASE Register
  <2>1. /\ head # None /\ head.request \in Txn /\ head' = None
        /\ Assign(head.request, head.sequence)
    BY <1>2 DEF Register
  <2>2. head.sequence = NextSequence /\ Preparable(head.request, live, head.sequence)
    BY <1>1, <2>1 DEF IInv, ScheduleInv, AdmissionInv
  <2> QED
    BY <1>1, <2>1, <2>2, AssignAdmission
<1>3. CASE JoinGroup
  <2>1. Preparable(queue[1], live, NextSequence)
    BY <1>3 DEF JoinGroup, prepare
  <2>2. CASE Assign(queue[1], NextSequence) /\ head' = head
    BY <1>1, <2>1, <2>2, AssignAdmission
  <2>3. CASE head' = Prepared(queue[1], NextSequence) /\ entries' = entries
    <3>1. head'.request = queue[1] /\ head'.sequence = NextSequence
      BY <2>3 DEF Prepared
    <3> QED
      BY <1>1, <2>1, <2>3, <3>1 DEF AdmissionInv
  <2> QED
    BY <1>3, <2>2, <2>3 DEF JoinGroup
<1> QED
  BY <1>2, <1>3

(* append_group: the group becomes part of the admitted log.               *)
LEMMA AppendAdmission ==
  ASSUME IInv, AdmissionInv, AppendGroup \/ AppendFails \/ CrashInAppend
  PROVE  AdmissionInv'
<1>1. mode = "running"
  BY DEF AppendGroup, AppendFails, CrashInAppend
<1>2. log' \in {log, Appended}
  BY DEF AppendGroup, AppendFails, CrashInAppend
<1>3. \A n \in 1 .. Len(log') : Admitted(log', n)
  BY <1>1, <1>2, AppendedIsAdmitted DEF AdmissionInv
<1>4. CASE AppendFails \/ CrashInAppend
  BY <1>3, <1>4, AdmissionAtStop DEF AppendFails, CrashInAppend, Fail
<1>5. CASE AppendGroup
  <2>1. UNCHANGED <<mode, live, head, entries>> /\ log' = Appended
    BY <1>5 DEF AppendGroup, intake, schedule
  <2>2. Len(log') = Len(log) + Len(records) /\ Len(records) \in Nat /\ Len(log) \in Nat
    BY <2>1, AppendedIsLonger DEF IInv, TypeOK, ScheduleTypeOK, StoreTypeOK
  <2>3. \A n \in DOMAIN entries' : ~(n > Len(log'))
    BY <1>1, <2>1, <2>2 DEF IInv, TypeOK, ScheduleTypeOK
  <2> QED
    BY <1>3, <2>1, <2>3 DEF AdmissionInv
<1> QED
  BY <1>4, <1>5

(* An administrative command is admitted on the drained store.             *)
LEMMA CommitAdminAdmission ==
  ASSUME IInv, AdmissionInv, CommitAdmin \/ CommitAdminFails
  PROVE  AdmissionInv'
<1> DEFINE c == head.request
           n == Len(log) + 1
<1>1. AdminDue /\ head' = None /\ entries' = entries
  BY DEF CommitAdmin, CommitAdminFails, schedule
<1>2. /\ mode = "running" /\ DOMAIN entries = {} /\ frontier = Len(log)
      /\ DOMAIN live = 1 .. Len(log) /\ c \in Command /\ Len(log) \in Nat
  BY <1>1, AdminMeetsDrained
<1>3. mode' \in {"running", "stopping"}
  BY <1>2 DEF CommitAdmin, CommitAdminFails, Fail
<1>4. \A i \in 1 .. Len(log') : Admitted(log', i)
  <2>1. CASE log' = log
    BY <2>1 DEF AdmissionInv
  <2>2. CASE log' = Append(log, c) /\ Preparable(c, live, n)
    <3>1. log \in Seq(Command)
      BY DEF IInv, TypeOK, StoreTypeOK
    <3>2. /\ log' \in Seq(Command) /\ Len(log') = n /\ log'[n] = c
          /\ \A i \in 1 .. Len(log) : log'[i] = log[i]
      BY <1>2, <2>2, <3>1, AppendProperties
    <3>3. \A i \in 1 .. Len(log) : Admitted(log', i)
      BY <1>2, <3>1, <3>2, AdmissionIsPrefix DEF AdmissionInv
    <3>4. Holds(log', live, Len(log))
      <4>1. Holds(log, live, Len(log))
        BY <1>2, LiveHolds
      <4>2. Sound(log', live)
        BY <1>2, <3>1, <3>2, <4>1, LogGrowthKeepsSound DEF Holds
      <4> QED
        BY <1>2, <3>2, <4>1, <4>2 DEF Holds
    <3>5. Admitted(log', n)
      <4>1. n \in Len(log) + 1 .. Len(log')
        BY <1>2, <3>2
      <4>2. \A m \in Len(log) + 1 .. n - 1 : log'[m] \in Txn
        BY <1>2
      <4>3. Preparable(log'[n], live, n)
        BY <2>2, <3>2
      <4> HIDE DEF n
      <4> QED
        BY <3>4, <4>1, <4>2, <4>3, PreparedIsAdmitted
    <3> QED
      BY <1>2, <3>2, <3>3, <3>5
  <2> QED
    BY <2>1, <2>2 DEF CommitAdmin, CommitAdminFails
<1> QED
  BY <1>1, <1>2, <1>3, <1>4 DEF AdmissionInv

(* Completions install no catalogue and no policy, so a prepared head      *)
(* stays admissible while the records before it resolve.                   *)
LEMMA CompleteAdmission ==
  ASSUME IInv, AdmissionInv, Complete
  PROVE  AdmissionInv'
<1>1. /\ mode = "running" /\ records = <<>> /\ live' = Installed
      /\ UNCHANGED <<log, mode, head>>
  BY DEF Complete, AtLoopTop, intake
<1>2. Len(log) \in Nat /\ Len(records) = 0 /\ frontier \in 0 .. Len(log)
  BY <1>1 DEF IInv, TypeOK, StoreTypeOK
<1>3. \A n \in DOMAIN entries' : ~(n > Len(log))
  <2>1. DOMAIN entries' \subseteq DOMAIN entries
    BY DEF Complete, Retire
  <2> QED
    BY <1>1, <1>2, <2>1 DEF IInv, ScheduleInv
<1>4. Holds(log, live, frontier) /\ Holds(log, Installed, frontier)
  <2>1. Holds(log, live, frontier)
    BY <1>1, LiveHolds
  <2>2. DOMAIN live \subseteq DOMAIN Installed /\ IsImage(Installed) /\ Sound(log, Installed)
    BY <1>1, InstalledIsSound
  <2> QED
    BY <2>1, <2>2, ImageIsHistory DEF Holds, IInv, TypeOK
<1>5. ASSUME head # None, head.request \in Txn
      PROVE  Preparable(head.request, Installed, head.sequence)
  <2>1. head.sequence = Len(log) + 1 /\ head.sequence \in Nat
    BY <1>1, <1>2, <1>5 DEF IInv, ScheduleInv, NextSequence
  <2>2. Before(live, head.sequence)[Metadata] = Before(Installed, head.sequence)[Metadata]
    BY <1>1, <1>2, <1>4, <2>1, UnresolvedAreTransactions, MetadataIsSettled
  <2>3. Preparable(head.request, live, head.sequence)
    BY <1>1, <1>5 DEF AdmissionInv
  <2> QED
    BY <2>2, <2>3 DEF Preparable
<1> QED
  BY <1>1, <1>3, <1>5 DEF AdmissionInv

(* Recovery meets no inadmissible record.                                  *)
LEMMA RecoveryAdmission ==
  ASSUME IInv, AdmissionInv, Replay \/ FinishRecovery
  PROVE  AdmissionInv'
<1>1. mode = "recovering" /\ log' = log
  BY DEF Replay, FinishRecovery, disk
<1>2. CASE Replay
  <2> DEFINE n == frontier + 1
  <2>1. n \in 1 .. Len(log) /\ DOMAIN live = 1 .. n - 1 /\ Sound(log, live)
    BY <1>1, <1>2 DEF Replay, IInv, TypeOK, StoreTypeOK, LiveInv
  <2>2. IsHistory(live)
    BY ImageIsHistory DEF IInv, TypeOK, StoreTypeOK
  <2>3. Preparable(log[n], live, n)
    BY <2>1, <2>2 DEF AdmissionInv, Admitted
  <2>4. mode' = "recovering"
    BY <1>1, <1>2, <2>3 DEF Replay
  <2> QED
    BY <1>1, <2>4, AdmissionKept
<1>3. CASE FinishRecovery
  <2>1. mode' = "running" /\ UNCHANGED <<head, entries>>
    BY <1>3 DEF FinishRecovery, intake, schedule
  <2>2. head = None /\ DOMAIN entries = {}
    BY <1>1 DEF IInv, RestInv, NoEntries
  <2> QED
    BY <1>1, <2>1, <2>2 DEF AdmissionInv
<1> QED
  BY <1>2, <1>3

(* A new directory has an empty log, which is admitted.                    *)
LEMMA InitAdmission == Init => AdmissionInv
BY DEF Init, AdmissionInv

(* Every step of the engine, of its workers and of a crash keeps the log   *)
(* and the records in hand admitted.                                       *)
LEMMA StepAdmission ==
  ASSUME IInv, AdmissionInv, [Next]_vars
  PROVE  AdmissionInv'
<1>1. CASE Clients \/ (\E w \in Workers : Worker(w)) \/ UNCHANGED vars
  BY <1>1, QuietAdmission
<1>2. CASE Recovery
  BY <1>2, QuietAdmission, RecoveryAdmission DEF Recovery
<1>3. CASE Exit \/ Crash
  BY <1>3, QuietAdmission
<1>4. CASE AppendGroup \/ AppendFails \/ CrashInAppend
  BY <1>4, AppendAdmission
<1>5. CASE Complete \/ CommitAdmin \/ CommitAdminFails
  BY <1>5, CompleteAdmission, CommitAdminAdmission
<1>6. CASE Register \/ JoinGroup \/ \E c \in Command : TakeCommand(c) \/ TakeFails(c)
  BY <1>6, RegisterAdmission, TakeCommandAdmission, QuietAdmission
<1>7. CASE \/ StopPoisoned \/ StopOnStorageError \/ CompleteFails \/ RunMaintenance
           \/ Shutdown \/ Dispatch \/ RejectInGroup \/ MeetBarrier
           \/ PrepareFailsInGroup \/ DrainFails \/ TakeClose \/ EndOfRequests \/ TakeControl
  BY <1>7, QuietAdmission
<1> QED
  BY <1>1, <1>2, <1>3, <1>4, <1>5, <1>6, <1>7 DEF Next, Coordinator

(* Whatever a crash leaves in the log passes preparation again: recovery   *)
(* never takes a directory that the engine wrote for a corrupt one.        *)
THEOREM ReplaySucceeds == Spec => []ReplayAdmitsLog
<1>1. AdmissionInv => ReplayAdmitsLog
  BY DEF AdmissionInv, ReplayAdmitsLog
<1>2. IInv /\ AdmissionInv /\ [Next]_vars => AdmissionInv'
  BY StepAdmission
<1> QED
  BY <1>1, <1>2, InitAdmission, Invariance, PTL DEF Spec

-----------------------------------------------------------------------------
(* The coordinator waits only for completions that will come: the record   *)
(* after the frontier depends on nothing, so it is being executed or can   *)
(* be dispatched.                                                          *)

(* A worker has the record in its hands.                                   *)
Held(n) == \E w \in Workers : Busy(w) /\ worker[w].sequence = n

(* A dispatched record that has no outcome is in somebody's hands, unless  *)
(* a worker has failed; a record waits only for unresolved earlier ones,   *)
(* and the one after the frontier is unresolved.                           *)
PoolInv ==
  mode = "running" =>
    /\ \A n \in DOMAIN entries : \A m \in entries[n].dependencies :
         m \in unresolved /\ m < n
    /\ frontier + 1 \notin DOMAIN live
    /\ ~poisoned =>
         /\ \A w \in Workers : worker[w] # Exited
         /\ \A n \in unresolved : entries[n].prepared \/ Held(n)

(* A step that leaves the schedule, the store and the pool alone, or that  *)
(* ends the running database.                                              *)
LEMMA PoolKept ==
  ASSUME PoolInv,
         mode' = "running" =>
           mode = "running" /\ UNCHANGED <<entries, frontier, live, worker, poisoned>>
  PROVE  PoolInv'
BY DEF PoolInv, unresolved, Held, Busy

(* Queueing, taking and answering commands, appends, checkpoints, stops and *)
(* crashes change neither the schedule nor what a worker holds.            *)
LEMMA QuietPool ==
  ASSUME PoolInv,
         \/ Clients
         \/ StopPoisoned \/ StopOnStorageError \/ CompleteFails \/ RunMaintenance
         \/ Shutdown \/ RejectInGroup \/ MeetBarrier \/ AppendGroup \/ AppendFails
         \/ PrepareFailsInGroup \/ DrainFails \/ CommitAdminFails
         \/ TakeClose \/ EndOfRequests \/ TakeControl
         \/ (\E c \in Command : TakeCommand(c) \/ TakeFails(c))
         \/ Exit \/ Crash \/ CrashInAppend \/ Open \/ Replay \/ RecoveryFails
         \/ UNCHANGED vars
  PROVE  PoolInv'
<1>1. CASE \/ Clients \/ UNCHANGED vars \/ RunMaintenance \/ RejectInGroup \/ MeetBarrier
           \/ AppendGroup \/ TakeClose \/ EndOfRequests \/ TakeControl
           \/ \E c \in Command : TakeCommand(c)
  <2>1. UNCHANGED <<entries, frontier, live, worker, poisoned>>
    BY <1>1 DEF Clients, Submit, SubmitClose, SubmitControl, vars, RunMaintenance,
                RejectInGroup, MeetBarrier, AppendGroup, TakeClose, EndOfRequests,
                TakeControl, TakeCommand, schedule, pool
  <2>2. mode' \in {mode, "stopping"}
    BY <1>1 DEF Clients, Submit, SubmitClose, SubmitControl, vars, RunMaintenance,
                RejectInGroup, MeetBarrier, AppendGroup, TakeClose, EndOfRequests,
                TakeControl, TakeCommand, Fail
  <2> QED
    BY <2>1, <2>2, PoolKept
<1>2. CASE \/ StopPoisoned \/ StopOnStorageError \/ CompleteFails \/ Shutdown
           \/ AppendFails \/ PrepareFailsInGroup \/ DrainFails \/ CommitAdminFails
           \/ (\E c \in Command : TakeFails(c))
           \/ Exit \/ Crash \/ CrashInAppend \/ Open \/ Replay \/ RecoveryFails
  <2>1. mode' # "running"
    BY <1>2 DEF StopPoisoned, StopOnStorageError, CompleteFails, Shutdown, AppendFails,
                PrepareFailsInGroup, DrainFails, CommitAdminFails, TakeFails, Exit,
                Crash, CrashInAppend, Open, Replay, RecoveryFails, Fail
  <2> QED
    BY <2>1, PoolKept
<1> QED
  BY <1>1, <1>2

(* A job becomes a completion of the same record; a failing worker poisons *)
(* the pool.                                                               *)
LEMMA WorkerPool ==
  ASSUME IInv, PoolInv, NEW w \in Workers, Worker(w)
  PROVE  PoolInv'
<1>1. mode = "running" /\ UNCHANGED <<mode, entries, frontier, live>>
  BY DEF Worker, Interpret, WorkerFails, schedule
<1>2. worker = [v \in Workers |-> worker[v]]
  BY DEF IInv, TypeOK, ScheduleTypeOK
<1>3. CASE WorkerFails(w)
  BY <1>1, <1>3 DEF WorkerFails, PoolInv, unresolved
<1>4. CASE Interpret(w)
  <2>1. PICK o : worker' = [worker EXCEPT ![w] = Completion(worker[w].sequence, o)]
    BY <1>4 DEF Interpret
  <2>2. /\ \A v \in Workers : v # w => worker'[v] = worker[v]
        /\ worker'[w] = Completion(worker[w].sequence, o)
    BY <1>2, <2>1
  <2>3. poisoned' = poisoned
    BY <1>4 DEF Interpret
  <2>4. \A v \in Workers : Busy(v) => Busy(v)' /\ worker'[v].sequence = worker[v].sequence
    BY <2>2 DEF Busy, Completion
  <2>5. \A n : Held(n) => Held(n)'
    BY <2>4 DEF Held
  <2>6. worker'[w] # Exited
    BY <2>2 DEF Completion, Exited
  <2> QED
    BY <1>1, <2>2, <2>3, <2>5, <2>6 DEF PoolInv, unresolved
<1> QED
  BY <1>3, <1>4 DEF Worker

(* A new record depends on unresolved records before it.                   *)
LEMMA AssignPool ==
  ASSUME IInv, PoolInv, mode = "running", NEW c, Assign(c, NextSequence),
         UNCHANGED <<log, mode, frontier, live, worker, poisoned>>
  PROVE  PoolInv'
<1> DEFINE n == NextSequence
<1>1. /\ \A m \in DOMAIN entries : m < n
      /\ n \notin DOMAIN entries /\ n \notin DOMAIN live
  BY DEF IInv, TypeOK, StoreTypeOK, ScheduleTypeOK, ScheduleInv, NextSequence, IsImage
<1> HIDE DEF n
<1>2. /\ DOMAIN entries' = DOMAIN entries \cup {n}
      /\ entries'[n] = Entry(c, Dependencies(c))
      /\ \A m \in DOMAIN entries : entries'[m] = entries[m]
  BY <1>1 DEF Assign, n
<1>3. entries'[n].dependencies = Dependencies(c) /\ entries'[n].prepared
  BY <1>2 DEF Entry
<1>4. \A m : m \in unresolved' <=> m \in unresolved \/ m = n
  BY <1>1, <1>2 DEF unresolved
<1>5. \A m \in DOMAIN entries' : \A k \in entries'[m].dependencies :
        k \in unresolved' /\ k < m
  <2>1. \A k \in Dependencies(c) : k \in unresolved /\ k \in DOMAIN entries
    BY DEF Dependencies, unresolved
  <2> QED
    BY <1>1, <1>2, <1>3, <1>4, <2>1 DEF PoolInv
<1>6. \A m : Held(m)' <=> Held(m)
  BY DEF Held, Busy
<1>7. \A m \in unresolved' : ~poisoned => entries'[m].prepared \/ Held(m)'
  BY <1>2, <1>3, <1>4, <1>6 DEF PoolInv, unresolved
<1> QED
  BY <1>5, <1>7 DEF PoolInv

(* register schedules the head against the unresolved records.             *)
LEMMA RegisterPool ==
  ASSUME IInv, PoolInv, Register \/ JoinGroup
  PROVE  PoolInv'
<1>1. /\ mode = "running" /\ UNCHANGED <<log, mode, frontier, live, worker, poisoned>>
  BY DEF Register, JoinGroup, ReadyForHead, NothingReported, AtLoopTop, GroupGoesOn,
         disk, pool
<1>2. CASE \E c : Assign(c, NextSequence)
  BY <1>1, <1>2, AssignPool
<1>3. CASE entries' = entries
  BY <1>1, <1>3, PoolKept
<1>4. Register => Assign(head.request, NextSequence)
  BY <1>1 DEF Register, IInv, ScheduleInv
<1> QED
  BY <1>2, <1>3, <1>4 DEF JoinGroup

(* Every dispatched record is in the hands of the worker it is sent to.    *)
LEMMA DispatchPool ==
  ASSUME IInv, PoolInv, Dispatch
  PROVE  PoolInv'
<1>1. /\ mode = "running" /\ UNCHANGED <<mode, frontier, live, poisoned>>
  BY DEF Dispatch, NothingReported, AtLoopTop
<1>2. PICK W \in SUBSET IdleWorkers : \E assigned \in [W -> Dispatchable] :
       /\ worker' = [w \in Workers |->
            IF w \in W THEN Job(assigned[w], live) ELSE worker[w]]
       /\ entries' = [n \in DOMAIN entries |->
            IF n \in Range(assigned) THEN [entries[n] EXCEPT !.prepared = FALSE]
                                     ELSE entries[n]]
  BY DEF Dispatch
<1>3. PICK assigned \in [W -> Dispatchable] :
       /\ worker' = [w \in Workers |->
            IF w \in W THEN Job(assigned[w], live) ELSE worker[w]]
       /\ entries' = [n \in DOMAIN entries |->
            IF n \in Range(assigned) THEN [entries[n] EXCEPT !.prepared = FALSE]
                                     ELSE entries[n]]
  BY <1>2
<1>4. /\ DOMAIN entries' = DOMAIN entries
      /\ \A n \in DOMAIN entries :
           /\ entries'[n].dependencies = entries[n].dependencies
           /\ n \notin Range(assigned) => entries'[n].prepared = entries[n].prepared
  <2>1. \A n \in DOMAIN entries : entries[n] \in
          [request : Txn, dependencies : SUBSET Nat, prepared : BOOLEAN]
    BY DEF IInv, TypeOK, ScheduleTypeOK
  <2> QED
    BY <1>3, <2>1
<1>5. unresolved' = unresolved
  BY <1>1, <1>4 DEF unresolved
<1>6. \A w \in Workers : /\ w \in W => worker'[w] = Job(assigned[w], live)
                         /\ w \notin W => worker'[w] = worker[w]
  BY <1>3
<1>7. \A n \in Range(assigned) : Held(n)'
  <2> SUFFICES ASSUME NEW n \in Range(assigned)
               PROVE  Held(n)'
    OBVIOUS
  <2>1. PICK w \in W : assigned[w] = n
    BY DEF Range
  <2>2. w \in Workers /\ worker'[w] = Job(n, live)
    BY <1>6, <2>1 DEF IdleWorkers
  <2> QED
    BY <2>2 DEF Held, Busy, Job
<1>8. \A n : Held(n) => Held(n)'
  <2> SUFFICES ASSUME NEW n, NEW w \in Workers, Busy(w), worker[w].sequence = n
               PROVE  Held(n)'
    BY DEF Held
  <2>1. w \notin W
    BY DEF Busy, IdleWorkers
  <2> QED
    BY <1>6, <2>1 DEF Held, Busy
<1>9. \A w \in Workers : worker[w] # Exited => worker'[w] # Exited
  <2>1. \A n : Job(n, live).kind = "running" /\ Exited.kind = "exited"
    BY DEF Job, Exited
  <2>2. \A n : Job(n, live) # Exited
    BY <2>1
  <2> QED
    BY <1>6, <2>2
<1>10. \A n \in unresolved' : ~poisoned => entries'[n].prepared \/ Held(n)'
  BY <1>1, <1>4, <1>5, <1>7, <1>8 DEF PoolInv, unresolved
<1> QED
  BY <1>1, <1>4, <1>5, <1>9, <1>10 DEF PoolInv

(* complete resolves what was reported, everywhere it is waited for.       *)
LEMMA CompletePool ==
  ASSUME IInv, PoolInv, Complete
  PROVE  PoolInv'
<1>1. /\ mode = "running" /\ records = <<>> /\ live' = Installed /\ worker' = Freed
      /\ UNCHANGED <<log, mode, records, poisoned>>
  BY DEF Complete, AtLoopTop, group
<1>2. PICK f \in frontier .. Len(log) : Reaches(f) /\ frontier' = f /\ Retire(f)
  BY DEF Complete
<1>3. /\ frontier \in Nat /\ Len(log) \in Nat /\ Len(records) = 0
      /\ f \in Nat /\ f >= frontier /\ f <= Len(log)
      /\ DOMAIN entries = frontier + 1 .. Len(log)
  BY <1>1 DEF IInv, TypeOK, StoreTypeOK, ScheduleInv
<1>4. /\ DOMAIN entries' = {n \in DOMAIN entries : ~(n <= f)}
      /\ \A n \in DOMAIN entries' : entries'[n] = Released[n]
  BY <1>2 DEF Retire
<1>5. /\ \A n \in DOMAIN entries :
           /\ Released[n].prepared = entries[n].prepared
           /\ Released[n].dependencies = entries[n].dependencies \ Reported
  BY ReleasedEntries DEF IInv, TypeOK
<1>6. /\ DOMAIN Installed = DOMAIN live \cup Reported
      /\ IsImage(Installed)
  BY <1>1, InstalledIsSound
<1>7. \A n \in unresolved : n \notin Reported => n \in unresolved'
  <2> SUFFICES ASSUME NEW n \in unresolved, n \notin Reported
               PROVE  n \in unresolved'
    OBVIOUS
  <2>1. n \in DOMAIN entries /\ n \notin DOMAIN Installed
    BY <1>6 DEF unresolved
  <2>2. ~(n <= f)
    BY <1>2, <1>3, <2>1 DEF Reaches
  <2> QED
    BY <1>1, <1>4, <2>1, <2>2 DEF unresolved
<1>8. \A n \in unresolved' : n \in unresolved /\ n \notin Reported /\ n \in DOMAIN entries'
  BY <1>1, <1>4, <1>6 DEF unresolved
<1>9. \A n \in DOMAIN entries' : \A m \in entries'[n].dependencies :
        m \in unresolved' /\ m < n
  BY <1>4, <1>5, <1>7, <1>1 DEF PoolInv
<1>10. f + 1 \notin DOMAIN live'
  <2>1. CASE f + 1 \in DOMAIN entries
    BY <1>1, <1>2, <2>1 DEF Reaches
  <2>2. CASE f + 1 \notin DOMAIN entries
    <3>1. f + 1 > Len(log)
      BY <1>3, <2>2
    <3> QED
      BY <1>1, <1>3, <1>6, <3>1 DEF IsImage
  <2> QED
    BY <2>1, <2>2
<1>11. \A w \in Workers : worker[w] # Exited => worker'[w] # Exited
  BY <1>1 DEF Freed, Idle, Exited
<1>12. \A n : Held(n) /\ n \notin Reported => Held(n)'
  <2> SUFFICES ASSUME NEW n, n \notin Reported,
                      NEW w \in Workers, Busy(w), worker[w].sequence = n
               PROVE  Held(n)'
    BY DEF Held
  <2>1. w \notin Done
    BY DEF Reported
  <2>2. worker'[w] = worker[w]
    BY <1>1, <2>1 DEF Freed
  <2> QED
    BY <2>2 DEF Held, Busy
<1>13. \A n \in unresolved' : ~poisoned => entries'[n].prepared \/ Held(n)'
  BY <1>1, <1>4, <1>5, <1>8, <1>12 DEF PoolInv, unresolved
<1> QED
  BY <1>1, <1>2, <1>9, <1>10, <1>11, <1>13 DEF PoolInv

(* An administrative command leaves an empty schedule behind, and so does  *)
(* recovery.                                                               *)
LEMMA DrainedPool ==
  ASSUME IInv, PoolInv, CommitAdmin \/ FinishRecovery
  PROVE  PoolInv'
<1>1. CASE CommitAdmin
  <2>1. /\ mode = "running" /\ DOMAIN entries = {} /\ frontier = Len(log)
        /\ DOMAIN live = 1 .. Len(log) /\ Len(log) \in Nat
    BY <1>1, AdminMeetsDrained DEF CommitAdmin
  <2>2. UNCHANGED <<mode, entries, worker, poisoned>>
    BY <1>1 DEF CommitAdmin, pool
  <2>3. frontier' + 1 \notin DOMAIN live'
    <3>1. CASE live' = live /\ frontier' = frontier
      BY <2>1, <3>1
    <3>2. CASE /\ frontier' = Len(log) + 1
               /\ live' = Executed(head.request, Len(log) + 1)
      <4>1. DOMAIN live' = DOMAIN live \cup {Len(log) + 1}
        BY <3>2 DEF Executed
      <4> QED
        BY <2>1, <3>2, <4>1
    <3> QED
      BY <1>1, <3>1, <3>2 DEF CommitAdmin
  <2> QED
    BY <2>1, <2>2, <2>3 DEF PoolInv, unresolved
<1>2. CASE FinishRecovery
  <2>1. mode = "recovering" /\ UNCHANGED <<frontier, live, entries, worker>>
    BY <1>2 DEF FinishRecovery, schedule, pool
  <2>2. /\ DOMAIN live = 1 .. frontier /\ frontier \in Nat
        /\ DOMAIN entries = {} /\ worker = [w \in Workers |-> Idle]
    BY <2>1 DEF IInv, TypeOK, StoreTypeOK, LiveInv, RestInv, NoEntries
  <2>3. frontier' + 1 \notin DOMAIN live'
    BY <2>1, <2>2
  <2>4. \A w \in Workers : worker'[w] # Exited
    BY <2>1, <2>2 DEF Idle, Exited
  <2> QED
    BY <2>1, <2>2, <2>3, <2>4 DEF PoolInv, unresolved
<1> QED
  BY <1>1, <1>2

(* Every step leaves every unresolved record to a worker or dispatchable.  *)
LEMMA StepPool ==
  ASSUME IInv, PoolInv, [Next]_vars
  PROVE  PoolInv'
<1>1. CASE Clients \/ UNCHANGED vars \/ Exit \/ Crash \/ CrashInAppend
  BY <1>1, QuietPool
<1>2. CASE \E w \in Workers : Worker(w)
  BY <1>2, WorkerPool
<1>3. CASE Recovery
  BY <1>3, QuietPool, DrainedPool DEF Recovery
<1>4. CASE Complete \/ Dispatch \/ Register \/ JoinGroup \/ CommitAdmin
  BY <1>4, CompletePool, DispatchPool, RegisterPool, DrainedPool
<1>5. CASE \/ StopPoisoned \/ StopOnStorageError \/ CompleteFails \/ RunMaintenance
           \/ Shutdown \/ RejectInGroup \/ MeetBarrier \/ AppendGroup \/ AppendFails
           \/ PrepareFailsInGroup
  BY <1>5, QuietPool
<1>6. CASE \/ DrainFails \/ CommitAdminFails
           \/ TakeClose \/ EndOfRequests \/ TakeControl
           \/ \E c \in Command : TakeCommand(c) \/ TakeFails(c)
  BY <1>6, QuietPool
<1> QED
  BY <1>1, <1>2, <1>3, <1>4, <1>5, <1>6 DEF Next, Coordinator

(* While records are assigned and no worker has failed, somebody works on  *)
(* one of them or the oldest can be dispatched: wait never blocks on       *)
(* completions that cannot come.                                           *)
THEOREM SomebodyWorks == Spec => []NobodyWaitsForNobody
<1>1. Init => PoolInv
  BY DEF Init, PoolInv
<1>2. IInv /\ PoolInv /\ [Next]_vars => PoolInv'
  BY StepPool
<1>3. ASSUME IInv, PoolInv, mode = "running", ~poisoned, records = <<>>,
             DOMAIN entries # {}, \A w \in Workers : worker[w].kind \notin {"running", "done"}
      PROVE  DispatchDue
  <2> DEFINE n == frontier + 1
  <2>1. /\ frontier \in Nat /\ Len(log) \in Nat /\ Len(records) = 0
        /\ DOMAIN entries = frontier + 1 .. Len(log)
    BY <1>3 DEF IInv, TypeOK, StoreTypeOK, ScheduleInv
  <2>2. n \in DOMAIN entries /\ n <= Len(log) /\ n > frontier /\ n - frontier <= execution_window
    BY <1>3, <2>1, EngineOptions
  <2>3. n \in unresolved
    BY <1>3, <2>2 DEF PoolInv, unresolved
  <2>4. entries[n].dependencies = {}
    <3>1. \A m \in entries[n].dependencies : m \in DOMAIN entries /\ m < n
      BY <1>3, <2>2 DEF PoolInv, unresolved
    <3> QED
      BY <2>1, <3>1
  <2>5. entries[n].prepared
    BY <1>3, <2>3 DEF PoolInv, Held, Busy
  <2>6. n \in Dispatchable
    BY <2>2, <2>4, <2>5 DEF Dispatchable, in_window
  <2>7. PICK w \in Workers : TRUE
    BY EngineOptions
  <2>8. IsJob(worker[w]) /\ worker[w] # Exited
    BY <1>3, <2>7 DEF IInv, TypeOK, ScheduleTypeOK, PoolInv
  <2>9. w \in IdleWorkers
    BY <1>3, <2>7, <2>8 DEF IdleWorkers, IsJob, Idle
  <2> QED
    BY <2>6, <2>9 DEF DispatchDue
<1>4. IInv /\ PoolInv => NobodyWaitsForNobody
  BY <1>3 DEF NobodyWaitsForNobody
<1> QED
  BY <1>1, <1>2, <1>4, Invariance, PTL DEF Spec

-----------------------------------------------------------------------------
(* The coordinator never recounts: it adds the bytes of a record when the  *)
(* record is assigned and subtracts them when the record is retired, and   *)
(* compares the running counters with the limits.                          *)

(* What each record of a schedule adds to the counters.                    *)
LogWeight(e) == [n \in DOMAIN e |-> LogBytes(e[n].request)]
MemoryWeight(e) == [n \in DOMAIN e |-> Reservation(e[n].request)]

(* A schedule e whose counters are a and r.                                *)
Budgeted(e, a, r) ==
  /\ a = Total(LogWeight(e), DOMAIN e)
  /\ r = Total(MemoryWeight(e), DOMAIN e)
  /\ a <= assigned_backlog_bytes
  /\ r <= execution_bytes
  /\ Cardinality(DOMAIN e) <= assigned_backlog_count

(* Without an open database nothing is assigned and nothing is counted.    *)
BudgetInv ==
  /\ mode = "running" => Budgeted(entries, assigned_bytes, reserved_bytes)
  /\ mode \notin {"running", "stopping"} => assigned_bytes = 0 /\ reserved_bytes = 0

(* A finite schedule of commands.                                          *)
IsSchedule(e) == IsFiniteSet(DOMAIN e) /\ \A n \in DOMAIN e : e[n].request \in Command

(* The fold that the model sums with, taken apart.                         *)
FoldedBytes(e, S) ==
  (CHOOSE h : h = [s \in SUBSET S |->
     IF s = {} THEN 0
     ELSE LogBytes(e[CHOOSE x \in s : TRUE].request) + h[s \ {CHOOSE x \in s : TRUE}]])[S]

(* The same for the memory that is reserved.                               *)
FoldedReservation(e, S) ==
  (CHOOSE h : h = [s \in SUBSET S |->
     IF s = {} THEN 0
     ELSE Reservation(e[CHOOSE x \in s : TRUE].request) + h[s \ {CHOOSE x \in s : TRUE}]])[S]

(* Its value is the total of the weights.                                  *)
LEMMA FoldedBytesIsTotal ==
  ASSUME NEW e, NEW S \in SUBSET DOMAIN e, IsFiniteSet(S)
  PROVE  FoldedBytes(e, S) = Total(LogWeight(e), S)
<1> DEFINE P(h) == h = [s \in SUBSET S |->
     IF s = {} THEN 0
     ELSE LogBytes(e[CHOOSE x \in s : TRUE].request) + h[s \ {CHOOSE x \in s : TRUE}]]
<1> PICK g : g = LogWeight(e)
  OBVIOUS
<1>1. \A x \in S : g[x] = LogBytes(e[x].request)
  BY DEF LogWeight
<1>2. \A s \in SUBSET S : s # {} => (CHOOSE x \in s : TRUE) \in S
  OBVIOUS
<1>3. ASSUME NEW h
      PROVE  P(h) <=> IsSum(g, S, h)
  <2>1. ASSUME NEW s \in SUBSET S
        PROVE  Partial(g, h, s) =
                 IF s = {} THEN 0
                 ELSE LogBytes(e[CHOOSE x \in s : TRUE].request) + h[s \ {CHOOSE x \in s : TRUE}]
    BY <1>1, <1>2 DEF Partial, Pick
  <2> QED
    BY <2>1 DEF IsSum
<1>4. PICK i : IsSum(g, S, i) /\ Total(g, S) = i[S]
  BY TotalIs
<1>5. P(i)
  BY <1>3, <1>4
<1>6. PICK h : h = CHOOSE k : P(k)
  OBVIOUS
<1>7. P(h)
  <2> HIDE DEF P
  <2> QED
    BY <1>5, <1>6
<1>8. IsSum(g, S, h)
  BY <1>3, <1>7
<1>9. \A s \in SUBSET S : h[s] = i[s]
  <2> HIDE DEF P
  <2> QED
    BY <1>4, <1>8, SumSame
<1>10. FoldedBytes(e, S) = h[S]
  BY <1>6 DEF FoldedBytes
<1> QED
  <2> HIDE DEF P
  <2> QED
    BY <1>4, <1>9, <1>10

(* The same of the reservations.                                           *)
LEMMA FoldedReservationIsTotal ==
  ASSUME NEW e, NEW S \in SUBSET DOMAIN e, IsFiniteSet(S)
  PROVE  FoldedReservation(e, S) = Total(MemoryWeight(e), S)
<1> DEFINE P(h) == h = [s \in SUBSET S |->
     IF s = {} THEN 0
     ELSE Reservation(e[CHOOSE x \in s : TRUE].request) + h[s \ {CHOOSE x \in s : TRUE}]]
<1> PICK g : g = MemoryWeight(e)
  OBVIOUS
<1>1. \A x \in S : g[x] = Reservation(e[x].request)
  BY DEF MemoryWeight
<1>2. \A s \in SUBSET S : s # {} => (CHOOSE x \in s : TRUE) \in S
  OBVIOUS
<1>3. ASSUME NEW h
      PROVE  P(h) <=> IsSum(g, S, h)
  <2>1. ASSUME NEW s \in SUBSET S
        PROVE  Partial(g, h, s) =
                 IF s = {} THEN 0
                 ELSE Reservation(e[CHOOSE x \in s : TRUE].request) + h[s \ {CHOOSE x \in s : TRUE}]
    BY <1>1, <1>2 DEF Partial, Pick
  <2> QED
    BY <2>1 DEF IsSum
<1>4. PICK i : IsSum(g, S, i) /\ Total(g, S) = i[S]
  BY TotalIs
<1>5. P(i)
  BY <1>3, <1>4
<1>6. PICK h : h = CHOOSE k : P(k)
  OBVIOUS
<1>7. P(h)
  <2> HIDE DEF P
  <2> QED
    BY <1>5, <1>6
<1>8. IsSum(g, S, h)
  BY <1>3, <1>7
<1>9. \A s \in SUBSET S : h[s] = i[s]
  <2> HIDE DEF P
  <2> QED
    BY <1>4, <1>8, SumSame
<1>10. FoldedReservation(e, S) = h[S]
  BY <1>6 DEF FoldedReservation
<1> QED
  <2> HIDE DEF P
  <2> QED
    BY <1>4, <1>9, <1>10

(* What the model's sums are.                                              *)
LEMMA SumsAreTotals ==
  ASSUME IsSchedule(entries), NEW S \in SUBSET DOMAIN entries
  PROVE  /\ BytesOf(S) = Total(LogWeight(entries), S)
         /\ ReservedOf(S) = Total(MemoryWeight(entries), S)
<1>1. IsFiniteSet(S)
  BY FS_Subset DEF IsSchedule
<1>2. BytesOf(S) = FoldedBytes(entries, S)
  BY DEF BytesOf, MapThenSumSet, MapThenFoldSet, FoldedBytes
<1>3. ReservedOf(S) = FoldedReservation(entries, S)
  BY DEF ReservedOf, MapThenSumSet, MapThenFoldSet, FoldedReservation
<1> QED
  BY <1>1, <1>2, <1>3, FoldedBytesIsTotal, FoldedReservationIsTotal

(* The weights of a schedule are numbers.                                  *)
LEMMA WeightsAreNumbers ==
  ASSUME NEW e, IsSchedule(e)
  PROVE  /\ IsFiniteSet(DOMAIN e)
         /\ \A n \in DOMAIN e :
              /\ LogWeight(e)[n] \in Nat /\ LogWeight(e)[n] = LogBytes(e[n].request)
              /\ MemoryWeight(e)[n] \in Nat /\ MemoryWeight(e)[n] = Reservation(e[n].request)
BY EngineOptions DEF IsSchedule, LogWeight, MemoryWeight

(* The running database's schedule is one.                                 *)
LEMMA EntriesAreSchedule ==
  ASSUME IInv, mode = "running"
  PROVE  IsSchedule(entries)
<1>1. DOMAIN entries = frontier + 1 .. Len(log) + Len(records)
  BY DEF IInv, ScheduleInv
<1>2. frontier + 1 \in Int /\ Len(log) + Len(records) \in Int
  BY DEF IInv, TypeOK, StoreTypeOK, ScheduleTypeOK
<1>3. IsFiniteSet(DOMAIN entries)
  BY <1>1, <1>2, FS_Interval
<1>4. \A n \in DOMAIN entries : entries[n].request \in Command
  BY DEF IInv, TypeOK, ScheduleTypeOK, Command
<1> QED
  BY <1>3, <1>4 DEF IsSchedule

(* Records that keep their requests keep the sums.                         *)
LEMMA SameRequests ==
  ASSUME NEW e, IsSchedule(e), NEW k, NEW S \in SUBSET DOMAIN e, S \subseteq DOMAIN k,
         \A n \in S : k[n].request = e[n].request
  PROVE  /\ Total(LogWeight(k), S) = Total(LogWeight(e), S)
         /\ Total(MemoryWeight(k), S) = Total(MemoryWeight(e), S)
<1>1. IsFiniteSet(S)
  BY FS_Subset DEF IsSchedule
<1>2. \A n \in S : /\ LogWeight(k)[n] = LogWeight(e)[n]
                   /\ MemoryWeight(k)[n] = MemoryWeight(e)[n]
  BY DEF LogWeight, MemoryWeight
<1> QED
  BY <1>1, <1>2, TotalSame

(* A schedule is the sum of its parts.                                     *)
LEMMA SchedulesSplit ==
  ASSUME NEW e, IsSchedule(e), NEW T \in SUBSET DOMAIN e
  PROVE  /\ Total(LogWeight(e), DOMAIN e) =
              Total(LogWeight(e), T) + Total(LogWeight(e), DOMAIN e \ T)
         /\ Total(MemoryWeight(e), DOMAIN e) =
              Total(MemoryWeight(e), T) + Total(MemoryWeight(e), DOMAIN e \ T)
         /\ Total(LogWeight(e), T) \in Nat /\ Total(LogWeight(e), DOMAIN e \ T) \in Nat
         /\ Total(MemoryWeight(e), T) \in Nat /\ Total(MemoryWeight(e), DOMAIN e \ T) \in Nat
<1>1. IsFiniteSet(DOMAIN e) /\ IsFiniteSet(T) /\ IsFiniteSet(DOMAIN e \ T)
  BY FS_Subset DEF IsSchedule
<1> PICK D : D = DOMAIN e
  OBVIOUS
<1> PICK g : g = LogWeight(e)
  OBVIOUS
<1> PICK m : m = MemoryWeight(e)
  OBVIOUS
<1>2. \A x \in D : g[x] \in Nat /\ m[x] \in Nat
  BY WeightsAreNumbers
<1>3. /\ Total(g, D) = Total(g, T) + Total(g, D \ T)
      /\ Total(m, D) = Total(m, T) + Total(m, D \ T)
  BY <1>1, <1>2, TotalSplit
<1>4. \A U \in {T, D \ T} : Total(g, U) \in Nat /\ Total(m, U) \in Nat
  BY <1>1, <1>2, TotalNat
<1> QED
  BY <1>3, <1>4

-----------------------------------------------------------------------------
(* The steps.                                                              *)

(* A step that leaves the schedule and its counters alone, or that ends    *)
(* the running database.                                                   *)
LEMMA BudgetKept ==
  ASSUME BudgetInv,
         mode' = "running" => mode = "running" /\ UNCHANGED <<entries, assigned_bytes, reserved_bytes>>,
         mode' \notin {"running", "stopping"} =>
           \/ assigned_bytes' = 0 /\ reserved_bytes' = 0
           \/ mode \notin {"running", "stopping"} /\ UNCHANGED <<assigned_bytes, reserved_bytes>>
  PROVE  BudgetInv'
<1>1. mode' = "running" => Budgeted(entries, assigned_bytes, reserved_bytes)'
  <2> SUFFICES ASSUME mode' = "running"
               PROVE  Budgeted(entries, assigned_bytes, reserved_bytes)'
    OBVIOUS
  <2>1. /\ Budgeted(entries, assigned_bytes, reserved_bytes)
        /\ entries' = entries /\ assigned_bytes' = assigned_bytes
        /\ reserved_bytes' = reserved_bytes
    BY DEF BudgetInv
  <2> QED
    BY <2>1 DEF Budgeted, LogWeight, MemoryWeight
<1> QED
  BY <1>1 DEF BudgetInv

(* A step that leaves the schedule and the counters alone.                 *)
LEMMA QuietBudget ==
  ASSUME BudgetInv,
         \/ Clients \/ (\E w \in Workers : Worker(w))
         \/ StopPoisoned \/ StopOnStorageError \/ CompleteFails \/ RunMaintenance
         \/ Shutdown \/ RejectInGroup \/ MeetBarrier \/ AppendGroup \/ AppendFails
         \/ PrepareFailsInGroup \/ DrainFails \/ CommitAdmin \/ CommitAdminFails
         \/ TakeClose \/ EndOfRequests \/ TakeControl
         \/ (\E c \in Command : TakeCommand(c) \/ TakeFails(c))
         \/ Exit \/ Crash \/ CrashInAppend \/ Open \/ Replay \/ RecoveryFails
         \/ UNCHANGED vars
  PROVE  BudgetInv'
<1>1. CASE \/ Clients \/ (\E w \in Workers : Worker(w)) \/ UNCHANGED vars \/ RunMaintenance
           \/ RejectInGroup \/ MeetBarrier \/ AppendGroup \/ CommitAdmin
           \/ TakeClose \/ EndOfRequests \/ TakeControl \/ \E c \in Command : TakeCommand(c)
  <2>1. UNCHANGED <<entries, assigned_bytes, reserved_bytes>>
    BY <1>1 DEF Clients, Submit, SubmitClose, SubmitControl, vars, RunMaintenance,
                RejectInGroup, MeetBarrier, AppendGroup, TakeClose, EndOfRequests,
                TakeControl, TakeCommand, CommitAdmin, Worker, Interpret, WorkerFails, schedule
  <2>2. mode' = mode \/ mode' = "stopping"
    BY <1>1 DEF Clients, Submit, SubmitClose, SubmitControl, vars, RunMaintenance,
                RejectInGroup, MeetBarrier, AppendGroup, TakeClose, EndOfRequests,
                TakeControl, TakeCommand, CommitAdmin, Worker, Interpret, WorkerFails, Fail
  <2> QED
    BY <2>1, <2>2, BudgetKept
<1>2. CASE \/ StopPoisoned \/ StopOnStorageError \/ CompleteFails \/ Shutdown
           \/ AppendFails \/ PrepareFailsInGroup \/ DrainFails \/ CommitAdminFails
           \/ \E c \in Command : TakeFails(c)
  <2>1. mode' = "stopping"
    BY <1>2 DEF StopPoisoned, StopOnStorageError, CompleteFails, Shutdown, AppendFails,
                PrepareFailsInGroup, DrainFails, CommitAdminFails, TakeFails, Fail
  <2> QED
    BY <2>1, BudgetKept
<1>3. CASE Exit \/ Crash \/ CrashInAppend
  <2>1. mode' = "down" /\ assigned_bytes' = 0 /\ reserved_bytes' = 0
    BY <1>3 DEF Exit, Crash, CrashInAppend, Forget
  <2> QED
    BY <2>1, BudgetKept
<1>4. CASE Open \/ Replay \/ RecoveryFails
  <2>1. /\ mode \notin {"running", "stopping"} /\ mode' \notin {"running", "stopping"}
        /\ UNCHANGED <<assigned_bytes, reserved_bytes>>
    BY <1>4 DEF Open, Replay, RecoveryFails
  <2> QED
    BY <2>1, BudgetKept
<1> QED
  BY <1>1, <1>2, <1>3, <1>4

(* A record that fits is added.                                            *)
LEMMA AssignBudget ==
  ASSUME IInv, BudgetInv, mode = "running", mode' = "running",
         NEW c \in Command, Fits(c), Assign(c, NextSequence)
  PROVE  BudgetInv'
<1> PICK n : n = NextSequence
  OBVIOUS
<1> PICK e : e = entries
  OBVIOUS
<1> PICK k : k = entries'
  OBVIOUS
<1>1. IsSchedule(e) /\ Budgeted(e, assigned_bytes, reserved_bytes)
  BY EntriesAreSchedule DEF BudgetInv
<1>2. n \notin DOMAIN e
  BY DEF IInv, TypeOK, StoreTypeOK, ScheduleTypeOK, ScheduleInv, NextSequence
<1>3. /\ DOMAIN k = DOMAIN e \cup {n}
      /\ k[n].request = c /\ \A m \in DOMAIN e : k[m].request = e[m].request
  BY <1>2 DEF Assign, Entry
<1>4. Cardinality(DOMAIN k) = Cardinality(DOMAIN e) + 1 /\ IsFiniteSet(DOMAIN k)
  BY <1>1, <1>2, <1>3, FS_AddElement DEF IsSchedule
<1>5. IsSchedule(k)
  BY <1>1, <1>3, <1>4 DEF IsSchedule
<1>6. DOMAIN k \ {n} = DOMAIN e /\ {n} \in SUBSET DOMAIN k /\ DOMAIN e \in SUBSET DOMAIN k
  BY <1>2, <1>3
<1>7. /\ Total(LogWeight(k), DOMAIN e) = assigned_bytes
      /\ Total(MemoryWeight(k), DOMAIN e) = reserved_bytes
  BY <1>1, <1>3, <1>6, SameRequests DEF Budgeted
<1>8. /\ Total(LogWeight(k), {n}) = LogBytes(c)
      /\ Total(MemoryWeight(k), {n}) = Reservation(c)
  <2>1. /\ LogWeight(k)[n] \in Nat /\ LogWeight(k)[n] = LogBytes(c)
        /\ MemoryWeight(k)[n] \in Nat /\ MemoryWeight(k)[n] = Reservation(c)
    BY <1>3, <1>5, WeightsAreNumbers
  <2> QED
    BY <2>1, TotalOne
<1>9. /\ Total(LogWeight(k), DOMAIN k) = LogBytes(c) + assigned_bytes
      /\ Total(MemoryWeight(k), DOMAIN k) = Reservation(c) + reserved_bytes
      /\ LogBytes(c) \in Nat /\ assigned_bytes \in Nat
      /\ Reservation(c) \in Nat /\ reserved_bytes \in Nat
  <2>1. /\ Total(LogWeight(k), DOMAIN k) =
              Total(LogWeight(k), {n}) + Total(LogWeight(k), DOMAIN k \ {n})
        /\ Total(MemoryWeight(k), DOMAIN k) =
              Total(MemoryWeight(k), {n}) + Total(MemoryWeight(k), DOMAIN k \ {n})
        /\ Total(LogWeight(k), {n}) \in Nat /\ Total(LogWeight(k), DOMAIN k \ {n}) \in Nat
        /\ Total(MemoryWeight(k), {n}) \in Nat /\ Total(MemoryWeight(k), DOMAIN k \ {n}) \in Nat
    BY <1>5, <1>6, SchedulesSplit
  <2> QED
    BY <1>6, <1>7, <1>8, <2>1
<1>10. assigned_bytes' = assigned_bytes + LogBytes(c) /\ reserved_bytes' = reserved_bytes + Reservation(c)
  BY DEF Assign
<1>11. /\ assigned_bytes' = Total(LogWeight(k), DOMAIN k)
       /\ reserved_bytes' = Total(MemoryWeight(k), DOMAIN k)
  BY <1>9, <1>10
<1>12. assigned_bytes' <= assigned_backlog_bytes /\ reserved_bytes' <= execution_bytes
  BY <1>9, <1>10, EngineOptions DEF Fits
<1>13. Cardinality(DOMAIN k) <= assigned_backlog_count
  <2>1. Cardinality(DOMAIN e) \in Nat
    BY <1>1, FS_CardinalityType DEF IsSchedule
  <2> QED
    BY <1>4, <2>1, EngineOptions DEF Fits
<1>14. Budgeted(k, assigned_bytes', reserved_bytes')
  BY <1>11, <1>12, <1>13 DEF Budgeted
<1> QED
  BY <1>14 DEF BudgetInv, Budgeted, LogWeight, MemoryWeight

(* Registration adds the bytes it has just compared with the limits.       *)
LEMMA RegisterBudget ==
  ASSUME IInv, BudgetInv, Register \/ JoinGroup
  PROVE  BudgetInv'
<1>1. mode = "running" /\ mode' = mode
  BY DEF Register, JoinGroup, ReadyForHead, NothingReported, AtLoopTop, GroupGoesOn
<1>2. CASE \E c \in Command : Fits(c) /\ Assign(c, NextSequence)
  BY <1>1, <1>2, AssignBudget
<1>3. CASE UNCHANGED <<entries, assigned_bytes, reserved_bytes>>
  BY <1>1, <1>3, BudgetKept
<1>4. Register => /\ head.request \in Command /\ Fits(head.request)
                  /\ Assign(head.request, NextSequence)
  BY <1>1 DEF Register, IInv, ScheduleInv, Command
<1>5. JoinGroup => queue[1] \in Command
  BY DEF JoinGroup, Command
<1> QED
  BY <1>2, <1>3, <1>4, <1>5 DEF JoinGroup

(* Dispatching changes no request.                                         *)
LEMMA DispatchBudget ==
  ASSUME IInv, BudgetInv, Dispatch
  PROVE  BudgetInv'
<1>1. mode = "running" /\ UNCHANGED <<mode, assigned_bytes, reserved_bytes>>
  BY DEF Dispatch, NothingReported, AtLoopTop
<1>2. PICK W \in SUBSET IdleWorkers : \E assigned \in [W -> Dispatchable] :
       entries' = [n \in DOMAIN entries |->
            IF n \in Range(assigned) THEN [entries[n] EXCEPT !.prepared = FALSE]
                                     ELSE entries[n]]
  BY DEF Dispatch
<1>3. PICK assigned \in [W -> Dispatchable] :
       entries' = [n \in DOMAIN entries |->
            IF n \in Range(assigned) THEN [entries[n] EXCEPT !.prepared = FALSE]
                                     ELSE entries[n]]
  BY <1>2
<1> PICK e : e = entries
  OBVIOUS
<1> PICK k : k = entries'
  OBVIOUS
<1>4. DOMAIN k = DOMAIN e /\ \A n \in DOMAIN e : k[n].request = e[n].request
  <2>1. \A n \in DOMAIN entries : entries[n] \in
          [request : Txn, dependencies : SUBSET Nat, prepared : BOOLEAN]
    BY DEF IInv, TypeOK, ScheduleTypeOK
  <2> QED
    BY <1>3, <2>1
<1>5. IsSchedule(e) /\ Budgeted(e, assigned_bytes, reserved_bytes)
  BY <1>1, EntriesAreSchedule DEF BudgetInv
<1>6. /\ Total(LogWeight(k), DOMAIN k) = assigned_bytes
      /\ Total(MemoryWeight(k), DOMAIN k) = reserved_bytes
  BY <1>4, <1>5, SameRequests DEF Budgeted
<1>7. Budgeted(k, assigned_bytes', reserved_bytes')
  BY <1>1, <1>4, <1>5, <1>6 DEF Budgeted
<1> QED
  BY <1>1, <1>7 DEF BudgetInv, Budgeted, LogWeight, MemoryWeight

(* What is retired is subtracted.                                          *)
LEMMA CompleteBudget ==
  ASSUME IInv, BudgetInv, Complete
  PROVE  BudgetInv'
<1>1. mode = "running" /\ mode' = mode
  BY DEF Complete, AtLoopTop
<1>2. PICK f : Retire(f)
  BY DEF Complete
<1> PICK e : e = entries
  OBVIOUS
<1> PICK k : k = entries'
  OBVIOUS
<1> PICK T : T = {n \in DOMAIN e : n <= f}
  OBVIOUS
<1>3. /\ DOMAIN k = DOMAIN e \ T /\ \A n \in DOMAIN k : k[n] = Released[n]
      /\ assigned_bytes' = assigned_bytes - BytesOf(T)
      /\ reserved_bytes' = reserved_bytes - ReservedOf(T)
  BY <1>2 DEF Retire
<1>4. \A n \in DOMAIN k : k[n].request = e[n].request
  BY <1>3, ReleasedEntries DEF IInv, TypeOK
<1>5. IsSchedule(e) /\ Budgeted(e, assigned_bytes, reserved_bytes) /\ T \in SUBSET DOMAIN e
  BY <1>1, EntriesAreSchedule DEF BudgetInv
<1>6. /\ BytesOf(T) = Total(LogWeight(e), T)
      /\ ReservedOf(T) = Total(MemoryWeight(e), T)
  BY <1>5, SumsAreTotals
<1>7. /\ Total(LogWeight(e), DOMAIN e) =
           Total(LogWeight(e), T) + Total(LogWeight(e), DOMAIN e \ T)
      /\ Total(MemoryWeight(e), DOMAIN e) =
           Total(MemoryWeight(e), T) + Total(MemoryWeight(e), DOMAIN e \ T)
      /\ Total(LogWeight(e), T) \in Nat /\ Total(LogWeight(e), DOMAIN e \ T) \in Nat
      /\ Total(MemoryWeight(e), T) \in Nat /\ Total(MemoryWeight(e), DOMAIN e \ T) \in Nat
  BY <1>5, SchedulesSplit
<1>8. /\ Total(LogWeight(k), DOMAIN k) = Total(LogWeight(e), DOMAIN k)
      /\ Total(MemoryWeight(k), DOMAIN k) = Total(MemoryWeight(e), DOMAIN k)
  <2>1. DOMAIN k \in SUBSET DOMAIN e
    BY <1>3
  <2> QED
    BY <1>4, <1>5, <2>1, SameRequests
<1>9. /\ assigned_bytes' = Total(LogWeight(k), DOMAIN k)
      /\ reserved_bytes' = Total(MemoryWeight(k), DOMAIN k)
      /\ assigned_bytes' <= assigned_bytes /\ reserved_bytes' <= reserved_bytes
      /\ assigned_bytes' \in Nat /\ assigned_bytes \in Nat
      /\ reserved_bytes' \in Nat /\ reserved_bytes \in Nat
  BY <1>3, <1>5, <1>6, <1>7, <1>8 DEF Budgeted
<1>10. assigned_bytes' <= assigned_backlog_bytes /\ reserved_bytes' <= execution_bytes
  BY <1>5, <1>9, EngineOptions DEF Budgeted
<1>11. Cardinality(DOMAIN k) <= assigned_backlog_count
  <2>1. /\ IsFiniteSet(DOMAIN e) /\ DOMAIN k \subseteq DOMAIN e
    BY <1>3, <1>5 DEF IsSchedule
  <2>2. /\ Cardinality(DOMAIN k) <= Cardinality(DOMAIN e) /\ IsFiniteSet(DOMAIN k)
    BY <2>1, FS_Subset
  <2>3. Cardinality(DOMAIN k) \in Nat /\ Cardinality(DOMAIN e) \in Nat
    BY <2>1, <2>2, FS_CardinalityType
  <2> QED
    BY <1>5, <2>2, <2>3, EngineOptions DEF Budgeted
<1>12. Budgeted(k, assigned_bytes', reserved_bytes')
  BY <1>9, <1>10, <1>11 DEF Budgeted
<1> QED
  BY <1>1, <1>12 DEF BudgetInv, Budgeted, LogWeight, MemoryWeight

(* A recovered database starts with nothing assigned.                      *)
LEMMA RecoveredBudget ==
  ASSUME IInv, BudgetInv, FinishRecovery
  PROVE  BudgetInv'
<1>1. /\ mode = "recovering" /\ mode' = "running"
      /\ UNCHANGED <<entries, assigned_bytes, reserved_bytes>>
  BY DEF FinishRecovery, schedule
<1> PICK k : k = entries'
  OBVIOUS
<1>2. /\ DOMAIN k = {} /\ assigned_bytes' = 0 /\ reserved_bytes' = 0
  BY <1>1 DEF IInv, RestInv, NoEntries, BudgetInv
<1>3. /\ Total(LogWeight(k), DOMAIN k) = 0 /\ Total(MemoryWeight(k), DOMAIN k) = 0
      /\ Cardinality(DOMAIN k) = 0
  BY <1>2, TotalEmpty, FS_EmptySet
<1>4. Budgeted(k, assigned_bytes', reserved_bytes')
  BY <1>2, <1>3, EngineOptions DEF Budgeted
<1> QED
  BY <1>1, <1>4 DEF BudgetInv, Budgeted, LogWeight, MemoryWeight

(* Every step keeps the counters exact and within their limits.            *)
LEMMA StepBudget ==
  ASSUME IInv, BudgetInv, [Next]_vars
  PROVE  BudgetInv'
<1>1. CASE Clients \/ UNCHANGED vars \/ Exit \/ Crash \/ CrashInAppend
  BY <1>1, QuietBudget
<1>2. CASE \E w \in Workers : Worker(w)
  BY <1>2, QuietBudget
<1>3. CASE Recovery
  BY <1>3, QuietBudget, RecoveredBudget DEF Recovery
<1>4. CASE Complete \/ Dispatch \/ Register \/ JoinGroup
  BY <1>4, CompleteBudget, DispatchBudget, RegisterBudget
<1>5. CASE \/ StopPoisoned \/ StopOnStorageError \/ CompleteFails \/ RunMaintenance
           \/ Shutdown \/ RejectInGroup \/ MeetBarrier \/ AppendGroup \/ AppendFails
           \/ PrepareFailsInGroup
  BY <1>5, QuietBudget
<1>6. CASE \/ DrainFails \/ CommitAdmin \/ CommitAdminFails
           \/ TakeClose \/ EndOfRequests \/ TakeControl
           \/ \E c \in Command : TakeCommand(c) \/ TakeFails(c)
  BY <1>6, QuietBudget
<1> QED
  BY <1>1, <1>2, <1>3, <1>4, <1>5, <1>6 DEF Next, Coordinator

(* The coordinator's counters are the exact sums over what is assigned,    *)
(* and with them what is assigned stays within the backlog and the         *)
(* execution memory, for every record size and every limit.                *)
THEOREM BudgetsAreKept == Spec => []BudgetsHold
<1>1. Init => BudgetInv
  BY DEF Init, BudgetInv
<1>2. IInv /\ BudgetInv /\ [Next]_vars => BudgetInv'
  BY StepBudget
<1>3. IInv /\ BudgetInv => BudgetsHold
  <2> SUFFICES ASSUME IInv, BudgetInv, mode = "running"
               PROVE  /\ assigned_bytes = BytesOf(DOMAIN entries)
                      /\ reserved_bytes = ReservedOf(DOMAIN entries)
                      /\ assigned_bytes <= assigned_backlog_bytes
                      /\ reserved_bytes <= execution_bytes
                      /\ Cardinality(DOMAIN entries) <= assigned_backlog_count
    BY DEF BudgetsHold
  <2>1. /\ IsSchedule(entries) /\ Budgeted(entries, assigned_bytes, reserved_bytes)
        /\ DOMAIN entries \in SUBSET DOMAIN entries
    BY EntriesAreSchedule DEF BudgetInv
  <2>2. /\ BytesOf(DOMAIN entries) = Total(LogWeight(entries), DOMAIN entries)
        /\ ReservedOf(DOMAIN entries) = Total(MemoryWeight(entries), DOMAIN entries)
    BY <2>1, SumsAreTotals
  <2> QED
    BY <2>1, <2>2 DEF Budgeted
<1> QED
  BY <1>1, <1>2, <1>3, Invariance, PTL DEF Spec
=============================================================================
