------------------------------ MODULE History ------------------------------
(***************************************************************************)
(* The logical history of a database: the catalogue, policy, state and     *)
(* outcome trees that the records of the log leave behind, the checkpoint  *)
(* that selects a prefix of them, the collection of what no reader needs,  *)
(* and the validation that recovery and maintenance apply to what is left. *)
(*                                                                         *)
(* A record is executed alone and in order; Scheduler shows that the       *)
(* coordinator's groups and workers amount to that.  Trees are functions   *)
(* of their keys; a schema is a name, and a policy or the claims of a      *)
(* transaction are the number of rows it may write, the one of the         *)
(* seventeen resources that history validation can relate to the rows.     *)
(***************************************************************************)
EXTENDS Integers, Sequences, FiniteSets, FiniteSetsExt, TLC

CONSTANTS
  Commands,      \* bound: the commands that may become the record of a sequence
  Programs,      \* program name -> its instructions, [op, key]
  SchemaOf,      \* table name -> the value schema that a creation asks for
  GenesisPolicy,
  MaxSequence    \* bound: records in the log

VARIABLES
  log,           \* every record ever committed; the disk keeps a suffix
  starts,        \* the first sequences of the retained log segments
  rotate,        \* Store::rotate_next
  live,          \* the trees of the working roots
  resolved,      \* the last executed record
  saved,         \* the trees of the selected checkpoint
  checkpoint,    \* its sequence
  floor,         \* Manifest::history_floor
  refused,       \* recovery or maintenance failed its validation
  reference      \* history variable: the trees of the whole log, uncollected

vars == <<log, starts, rotate, live, resolved, saved, checkpoint, floor, refused, reference>>

-----------------------------------------------------------------------------
(* Commands and outcomes.                                                  *)

(* A transaction runs program op of one table with its claims in bound; a  *)
(* limits record sets the policy to bound.                                 *)
Command(kind, op, table, name, bound) ==
  [kind |-> kind, op |-> op, table |-> table, name |-> name, bound |-> bound]
Transaction(program, table, claims) == Command(1, program, table, "", claims)
Create(name) == Command(2, "create", 0, name, 0)
Rename(table, name) == Command(2, "rename", table, name, 0)
Drop(table) == Command(2, "drop", table, "", 0)
Limits(policy) == Command(3, "limits", 0, "", policy)

(* Effects are a function of their addresses, which encode_outcome sorts:  *)
(* a table and a key, key 0 standing for the catalogue entry of the table  *)
(* and table 0 for the policy.                                             *)
Success(effects) ==
  [ok |-> TRUE, reason |-> "", at |-> 0, detail |-> 0, effects |-> effects]
Aborted(reason, at, detail) ==
  [ok |-> FALSE, reason |-> reason, at |-> at, detail |-> detail, effects |-> <<>>]
NoInstruction == -1
AdministrativeAbort(reason) == Aborted(reason, NoInstruction, 0)

Deleted == [schema |-> "", n |-> 0]
NoTable == [live |-> FALSE, name |-> "", schema |-> ""]
Genesis ==
  [cat |-> <<>>, pol |-> 0 :> GenesisPolicy, st |-> <<>>, out |-> <<>>]

-----------------------------------------------------------------------------
(* Historical reads and execution.                                         *)

Newest(versions) == Max(versions)

CatalogueVersion(cat, t, s) ==
  LET at == {q \in 1 .. s : <<t, q>> \in DOMAIN cat}
  IN IF at = {} THEN NoTable ELSE cat[<<t, Newest(at)>>]

Policy(pol, s) == pol[Newest({q \in DOMAIN pol : q <= s})]

Row(st, t, k, s) ==
  LET at == {q \in 1 .. s : <<t, k, q>> \in DOMAIN st}
  IN IF at = {} THEN Deleted ELSE st[<<t, k, Newest(at)>>]

NameInUse(cat, s, name, except) ==
  \E t \in 1 .. s \ except :
    CatalogueVersion(cat, t, s).live /\ CatalogueVersion(cat, t, s).name = name

CatalogueEffect(t, version) == Success(<<t, 0>> :> version)

Catalogue(cat, s, c) ==
  LET old == CatalogueVersion(cat, c.table, s - 1) IN
  CASE c.op = "create" ->
         IF NameInUse(cat, s - 1, c.name, {}) THEN AdministrativeAbort("NameInUse")
         ELSE CatalogueEffect(s, [live |-> TRUE, name |-> c.name, schema |-> SchemaOf[c.name]])
    [] ~old.live -> AdministrativeAbort("TableNotLive")
    [] c.op = "rename" ->
         IF NameInUse(cat, s - 1, c.name, {c.table}) THEN AdministrativeAbort("NameInUse")
         ELSE CatalogueEffect(c.table, [old EXCEPT !.name = c.name])
    [] OTHER -> CatalogueEffect(c.table, [old EXCEPT !.live = FALSE])

(* A program reads the rows of the record before it and its own writes;    *)
(* the overlay that remains becomes its effects.                           *)
Interpret(T, s, c) ==
  LET p == Programs[c.op]
      schema == CatalogueVersion(T.cat, c.table, s - 1).schema
      Write(r, i, value) ==
        LET a == <<c.table, p[i].key>> IN
        IF a \notin DOMAIN r.overlay /\ Cardinality(DOMAIN r.overlay) = c.bound
          THEN [r EXCEPT !.stop = Aborted("ResourceLimit", i, 15)]
        ELSE [r EXCEPT !.overlay = (a :> value) @@ r.overlay]
      Step(r, i) ==
        LET a == <<c.table, p[i].key>>
            now == IF a \in DOMAIN r.overlay THEN r.overlay[a]
                   ELSE Row(T.st, c.table, p[i].key, s - 1)
        IN CASE p[i].op = "load" ->
                  IF now = Deleted THEN [r EXCEPT !.stop = Aborted("MissingKey", i, 0)]
                  ELSE [r EXCEPT !.loaded = now.n]
             [] p[i].op = "insert" /\ now # Deleted ->
                  [r EXCEPT !.stop = Aborted("KeyExists", i, 0)]
             [] p[i].op = "delete" -> Write(r, i, Deleted)
             [] OTHER -> Write(r, i, [schema |-> schema, n |-> 1 - r.loaded])
      run[i \in 0 .. Len(p)] ==
        IF i = 0 THEN [overlay |-> <<>>, loaded |-> 0, stop |-> Success(<<>>)]
        ELSE IF run[i - 1].stop.ok THEN Step(run[i - 1], i) ELSE run[i - 1]
      end == run[Len(p)]
  IN IF end.stop.ok THEN Success(end.overlay) ELSE end.stop

OutcomeOf(T, s, c) ==
  CASE c.kind = 1 -> Interpret(T, s, c)
    [] c.kind = 2 -> Catalogue(T.cat, s, c)
    [] OTHER -> Success(<<0, 0>> :> c.bound)

(* record::prepare: what must hold of a command before it is sequenced,    *)
(* and again whenever its record is read back.  Catalogue conflicts are    *)
(* outcomes, not rejections.                                               *)
Admitted(T, s, c) ==
  c.kind = 1 => /\ c.bound <= Policy(T.pol, s - 1)
                /\ CatalogueVersion(T.cat, c.table, s - 1).live

-----------------------------------------------------------------------------
(* Outcomes as they are stored.                                            *)

AbortIsLegal(kind, o) ==
  /\ IF kind = 1 THEN o.reason \in {"MissingKey", "KeyExists", "ResourceLimit"} /\ o.at # NoInstruction
     ELSE kind = 2 /\ o.reason \in {"NameInUse", "TableNotLive"} /\ o.at = NoInstruction
  /\ IF o.reason = "ResourceLimit" THEN o.detail \in 1 .. 17 ELSE o.detail = 0

EffectIsLegal(s, kind, a, value) ==
  CASE kind = 1 -> a[1] \in 1 .. s - 1 /\ a[2] # 0
    [] kind = 2 -> a[1] \in 1 .. s /\ a[2] = 0 /\ (a[1] = s => value.live)
    [] OTHER -> a = <<0, 0>>

(* validate_success and validate_abort, which encode_outcome and           *)
(* decode_outcome share.                                                   *)
Encodable(s, kind, o) ==
  IF o.ok THEN /\ kind # 1 => Cardinality(DOMAIN o.effects) = 1
               /\ \A a \in DOMAIN o.effects : EffectIsLegal(s, kind, a, o.effects[a])
  ELSE AbortIsLegal(kind, o)

(* decode_outcome: what must hold of the fields of a stored outcome.       *)
Decodes(s, r) ==
  /\ r.kind \in 1 .. 3
  /\ IF r.outcome.ok THEN r.outcome.reason = "" /\ r.outcome.detail = 0
     ELSE DOMAIN r.outcome.effects = {}
  /\ Encodable(s, r.kind, r.outcome)

(* The digest of a record is the record itself.                            *)
OutcomeRecord(s, c, o) == [digest |-> <<s, c>>, kind |-> c.kind, outcome |-> o]

VersionKey(s, kind, a) ==
  CASE kind = 1 -> <<a[1], a[2], s>> [] kind = 2 -> <<a[1], s>> [] OTHER -> s

Versions(s, kind, effects) ==
  [key \in {VersionKey(s, kind, a) : a \in DOMAIN effects} |->
     effects[CHOOSE a \in DOMAIN effects : VersionKey(s, kind, a) = key]]

Install(T, s, c, o) ==
  LET added(kind) == IF kind = c.kind THEN Versions(s, kind, o.effects) ELSE <<>>
  IN [st |-> added(1) @@ T.st, cat |-> added(2) @@ T.cat, pol |-> added(3) @@ T.pol,
      out |-> (s :> OutcomeRecord(s, c, o)) @@ T.out]

(* next_view, record::execute and install refuse a gap, a record executed  *)
(* already and an outcome that could not be read back.                     *)
Executable(T, at, s, c) ==
  /\ s > at
  /\ s - 1 # at => s - 1 \in DOMAIN T.out
  /\ \A q \in DOMAIN T.out : q < s
  /\ Admitted(T, s, c)
  /\ Encodable(s, c.kind, OutcomeOf(T, s, c))

Executed(T, s, c) == Install(T, s, c, OutcomeOf(T, s, c))

-----------------------------------------------------------------------------
(* Validation of retained history.                                         *)

(* The kind of record that left versions at s, 0 for none, and how many.   *)
CountAt(T, s, kind) ==
  CASE kind = 1 -> Cardinality({v \in DOMAIN T.st : v[3] = s})
    [] kind = 2 -> Cardinality({v \in DOMAIN T.cat : v[2] = s})
    [] OTHER -> Cardinality({s} \cap DOMAIN T.pol)
VersionKinds(T, s) == {kind \in 1 .. 3 : CountAt(T, s, kind) # 0}
VersionCount(T, s) == CountAt(T, s, 1) + CountAt(T, s, 2) + CountAt(T, s, 3)

VersionSequences(T) ==
  {v[3] : v \in DOMAIN T.st} \cup {v[2] : v \in DOMAIN T.cat} \cup (DOMAIN T.pol \ {0})

(* version: one kind of record per sequence, and one version of a          *)
(* catalogue or policy record.                                             *)
VersionsAreCompatible(T, end) ==
  \A s \in VersionSequences(T) :
    /\ s \in 1 .. end /\ Cardinality(VersionKinds(T, s)) = 1
    /\ CountAt(T, s, 1) = 0 => VersionCount(T, s) = 1

(* catalogue_history: a table is created live at its own sequence, is      *)
(* never touched after its drop, and keeps its schema; no two live tables  *)
(* share a name.                                                           *)
CatalogueIsLegal(cat) ==
  \A v \in DOMAIN cat :
    LET before == CatalogueVersion(cat, v[1], v[2] - 1) IN
    /\ v[2] >= v[1]
    /\ IF \E u \in DOMAIN cat : u[1] = v[1] /\ u[2] < v[2]
         THEN /\ before.live /\ before.schema = cat[v].schema
              /\ ~cat[v].live => before.name = cat[v].name
         ELSE v[1] = v[2] /\ cat[v].live
    /\ cat[v].live => ~NameInUse(cat, v[2], cat[v].name, {v[1]})

(* Mutant: a dropped table was never live.                                 *)
InLifetimeOfLive(cat, t, s) ==
  /\ <<t, t>> \in DOMAIN cat /\ s > t
  /\ \A v \in DOMAIN cat : v[1] = t => cat[v].live

InLifetime(cat, t, s) ==
  /\ <<t, t>> \in DOMAIN cat /\ s > t
  /\ \A v \in DOMAIN cat : v[1] = t /\ ~cat[v].live => s < v[2]

ValueFits(cat, t, value) == value # Deleted => value.schema = cat[<<t, t>>].schema

(* The version that an effect left, if it is retained.                     *)
Stored(T, s, kind, a) ==
  LET key == VersionKey(s, kind, a)
      tree == CASE kind = 1 -> T.st [] kind = 2 -> T.cat [] OTHER -> T.pol
  IN IF key \in DOMAIN tree THEN <<tree[key]>> ELSE <<>>

(* Mutant: a state version may always have been reclaimed.                 *)
MayBeReclaimedAlways(kind, s, low) == kind = 1

MayBeReclaimed(kind, s, low) == kind = 1 /\ s <= low

(* exact_outcome: the versions at s are those that the outcome describes,  *)
(* except for state below the floor, which may be gone.                    *)
ExactOutcome(T, low, s, kind, o) ==
  LET found == {a \in DOMAIN o.effects : Stored(T, s, kind, a) # <<>>} IN
  /\ VersionKinds(T, s) \subseteq {kind}
  /\ \A a \in DOMAIN o.effects :
       \/ Stored(T, s, kind, a) = <<o.effects[a]>>
       \/ a \notin found /\ MayBeReclaimed(kind, s, low)
  /\ Cardinality(found) = VersionCount(T, s)

TransactionLimits(o, bound) == Cardinality(DOMAIN o.effects) <= bound

(* A stored outcome, read without its record.                              *)
OutcomeIsLegal(T, low, s) ==
  LET r == T.out[s] IN
  /\ Decodes(s, r)
  /\ r.kind = 1 =>
       /\ TransactionLimits(r.outcome, Policy(T.pol, s - 1))
       /\ \A a \in DOMAIN r.outcome.effects :
            InLifetime(T.cat, a[1], s) /\ ValueFits(T.cat, a[1], r.outcome.effects[a])
  /\ ExactOutcome(T, low, s, r.kind, r.outcome)

(* validate_history.                                                       *)
Validate(T, end, low, digest) ==
  /\ low <= end
  /\ VersionsAreCompatible(T, end)
  /\ CatalogueIsLegal(T.cat)
  /\ 0 \in DOMAIN T.pol /\ T.pol[0] = GenesisPolicy
  /\ \A v \in DOMAIN T.st : InLifetime(T.cat, v[1], v[3]) /\ ValueFits(T.cat, v[1], T.st[v])
  /\ low + 1 .. end \subseteq DOMAIN T.out /\ DOMAIN T.out \subseteq 1 .. end
  /\ \A s \in DOMAIN T.out : OutcomeIsLegal(T, low, s)
  /\ end \in DOMAIN T.out => T.out[end].digest = digest

(* validate_transaction_outcome: what the program says of its outcome      *)
(* without being run.                                                      *)
SourceAllows(c, o) ==
  LET p == Programs[c.op]
      ops == {p[i].op : i \in DOMAIN p}
  IN IF o.ok
       THEN /\ TransactionLimits(o, c.bound)
            /\ \A a \in DOMAIN o.effects :
                 /\ a[1] = c.table
                 /\ ops \cap (IF o.effects[a] = Deleted THEN {"delete"} ELSE {"store", "insert"}) # {}
     ELSE /\ o.at \in DOMAIN p
          /\ CASE o.reason = "MissingKey" -> p[o.at].op = "load"
               [] o.reason = "KeyExists" -> p[o.at].op = "insert"
               [] OTHER -> o.reason = "ResourceLimit"

(* validate_checkpoint_record: a retained record against the history.      *)
RecordIsLegal(T, low, s, c) ==
  LET outcome == IF s \in DOMAIN T.out THEN <<T.out[s]>> ELSE <<>>
      expected == OutcomeOf(T, s, c)
  IN /\ Admitted(T, s, c)
     /\ outcome # <<>> => outcome[1].kind = c.kind /\ outcome[1].digest = <<s, c>>
     /\ VersionKinds(T, s) \subseteq {c.kind}
     /\ IF c.kind = 1 THEN outcome # <<>> => SourceAllows(c, outcome[1].outcome)
        ELSE /\ outcome # <<>> => outcome[1].outcome = expected
             /\ ExactOutcome(T, low, s, c.kind, expected)

LogFloor(segments) == IF segments = {} THEN Len(log) + 1 ELSE Min(segments)

(* What recovery and maintenance demand of a checkpoint at end.            *)
Accepted(T, end, low, segments) ==
  /\ Validate(T, end, low, IF end = 0 THEN <<>> ELSE <<end, log[end]>>)
  /\ \A s \in LogFloor(segments) .. end : RecordIsLegal(T, low, s, log[s])

-----------------------------------------------------------------------------
(* Operations.                                                             *)

Init ==
  /\ log = <<>> /\ starts = {} /\ rotate = FALSE
  /\ live = Genesis /\ resolved = 0
  /\ saved = Genesis /\ checkpoint = 0 /\ floor = 0
  /\ refused = FALSE /\ reference = Genesis

(* A prepared command reaches the log.  Administrative commands wait until *)
(* every record before them is executed.                                   *)
AppendRecord(c) ==
  LET s == Len(log) + 1 IN
  /\ IF c.kind = 1 THEN \A q \in resolved + 1 .. Len(log) : log[q].kind = 1
     ELSE resolved = Len(log)
  /\ Admitted(live, s, c)
  /\ log' = Append(log, c)
  /\ starts' = IF rotate \/ starts = {} THEN starts \cup {s} ELSE starts
  /\ rotate' = FALSE
  /\ reference' = Executed(reference, s, c)
  /\ UNCHANGED <<live, resolved, saved, checkpoint, floor, refused>>

Execute ==
  LET s == resolved + 1 IN
  /\ resolved < Len(log)
  /\ Executable(live, checkpoint, s, log[s])
  /\ live' = Executed(live, s, log[s]) /\ resolved' = s
  /\ UNCHANGED <<log, starts, rotate, saved, checkpoint, floor, refused, reference>>

(* prepare_checkpoint: the working trees without the versions after s.     *)
Upto(T, s) ==
  [st |-> [v \in {v \in DOMAIN T.st : v[3] <= s} |-> T.st[v]],
   cat |-> [v \in {v \in DOMAIN T.cat : v[2] <= s} |-> T.cat[v]],
   pol |-> [q \in {q \in DOMAIN T.pol : q <= s} |-> T.pol[q]],
   out |-> [q \in {q \in DOMAIN T.out : q <= s} |-> T.out[q]]]

Publish(s) ==
  /\ s \in checkpoint + 1 .. resolved
  /\ saved' = Upto(live, s) /\ checkpoint' = s
  /\ UNCHANGED <<log, starts, rotate, live, resolved, floor, refused, reference>>

(* Mutant: the baseline of an address must lie below the floor.            *)
KeepStateAfter(T, v, low) ==
  \/ v[3] > low
  \/ v[3] < low /\ \A u \in DOMAIN T.st : u[1] = v[1] /\ u[2] = v[2] /\ u[3] < low => u[3] <= v[3]

(* keep_state: every version after the floor, and the newest of each       *)
(* address at or below it, a deletion included.                            *)
KeepState(T, v, low) ==
  \/ v[3] > low
  \/ \A u \in DOMAIN T.st : u[1] = v[1] /\ u[2] = v[2] /\ u[3] <= low => u[3] <= v[3]

(* collect_view.                                                           *)
Collected(T, low) ==
  [T EXCEPT !.st = [v \in {v \in DOMAIN T.st : KeepState(T, v, low)} |-> T.st[v]],
            !.out = [q \in {q \in DOMAIN T.out : q > low} |-> T.out[q]]]

SegmentEnd(q) == Min({r - 1 : r \in {r \in starts : r > q}} \cup {Len(log)})

(* The segments that a log floor leaves.                                   *)
Retained(from) == {q \in starts : SegmentEnd(q) >= from}

Refuse ==
  /\ refused' = TRUE
  /\ UNCHANGED <<log, starts, rotate, live, resolved, saved, checkpoint, floor, reference>>

(* maintenance::run on a drained database: the checkpoint advances to the  *)
(* end of the log, the candidate is validated against every record of the  *)
(* segments it is about to retire, and becomes the working roots.          *)
MaintainWith(T, low, segments) ==
  IF Accepted(live, resolved, floor, starts) /\ Accepted(T, resolved, low, starts)
    THEN /\ saved' = T /\ live' = T /\ checkpoint' = resolved /\ floor' = low
         /\ starts' \in segments
         /\ \E rotate_log \in BOOLEAN : rotate' = (rotate \/ rotate_log)
         /\ UNCHANGED <<log, resolved, refused, reference>>
  ELSE Refuse

Maintain ==
  /\ resolved = Len(log)
  /\ \/ MaintainWith(live, floor, {starts})
     \/ \E history \in floor .. resolved :
          MaintainWith(Collected(live, history), history,
                       {Retained(from) : from \in LogFloor(starts) .. resolved + 1})

(* The trees after the records up to end are executed on T, which holds    *)
(* those up to from.                                                       *)
Replay(T, from, end) ==
  LET after[s \in from .. end] == IF s = from THEN T ELSE Executed(after[s - 1], s, log[s])
  IN after[end]

(* Every record after the checkpoint is accepted by the trees before it.   *)
Replayable(T, from, end) ==
  \A s \in from + 1 .. end : Executable(Replay(T, from, s - 1), from, s, log[s])

(* The process ends at any point, and the database is opened again: the    *)
(* working trees are gone, recover validates the checkpoint, replays the   *)
(* rest of the log and publishes.  The log continues in a new segment.     *)
Reopen ==
  IF Accepted(saved, checkpoint, floor, starts) /\ Replayable(saved, checkpoint, Len(log))
    THEN /\ live' = Replay(saved, checkpoint, Len(log)) /\ saved' = live'
         /\ resolved' = Len(log) /\ checkpoint' = Len(log) /\ rotate' = TRUE
         /\ UNCHANGED <<log, starts, floor, refused, reference>>
  ELSE Refuse

Next ==
  \/ Len(log) < MaxSequence /\ \E c \in Commands[Len(log) + 1] : AppendRecord(c)
  \/ Execute
  \/ \E s \in 1 .. MaxSequence : Publish(s)
  \/ Maintain
  \/ Reopen

Spec == Init /\ [][Next]_vars

-----------------------------------------------------------------------------
(* Properties.                                                             *)

(* A database that answered can be opened, maintained and continued:       *)
(* whatever was executed, collected and lost with the process, validation  *)
(* refuses neither the checkpoint nor a candidate, and every logged record *)
(* can be executed.                                                        *)
HistoryValidates ==
  /\ ~refused
  /\ Accepted(saved, checkpoint, floor, starts)
  /\ resolved < Len(log) => Executable(live, checkpoint, resolved + 1, log[resolved + 1])

(* T holds the history of the first n records as far as the floor promises *)
(* it: every row as of every sequence from the floor on, every outcome     *)
(* after it, and the whole catalogue and policy.                           *)
Holds(T, n) ==
  LET full == Upto(reference, n) IN
  /\ T.cat = full.cat /\ T.pol = full.pol
  /\ \A s \in floor .. n : \A v \in DOMAIN full.st \cup DOMAIN T.st :
       Row(T.st, v[1], v[2], s) = Row(full.st, v[1], v[2], s)
  /\ \A s \in floor + 1 .. n : s \in DOMAIN T.out /\ T.out[s] = full.out[s]
  /\ Upto(T, n) = T

(* Collection, checkpoints and recovery lose nothing above the floor: the  *)
(* working trees, the checkpoint and what replay makes of the checkpoint   *)
(* all hold the history that serial execution of the whole log gives.      *)
HistorySurvives ==
  /\ floor <= checkpoint
  /\ Holds(live, resolved) /\ Holds(saved, checkpoint)
  /\ Holds(Replay(saved, checkpoint, Len(log)), Len(log))

Without(f, k) == [x \in DOMAIN f \ {k} |-> f[x]]

(* The checkpoints that lack one entry above the floor, or a catalogue or  *)
(* policy version whose record the log still has, or hold another value.   *)
Damaged ==
  {[saved EXCEPT !.st = Without(@, v)] : v \in {v \in DOMAIN saved.st : v[3] > floor}}
    \cup {[saved EXCEPT !.st[v] = IF @ = Deleted THEN [schema |-> saved.cat[<<v[1], v[1]>>].schema, n |-> 0]
                                  ELSE Deleted] : v \in {v \in DOMAIN saved.st : v[3] > floor}}
    \cup {[saved EXCEPT !.out = Without(@, s)] : s \in {s \in DOMAIN saved.out : s > floor}}
    \cup {[saved EXCEPT !.cat = Without(@, v)] :
            v \in {v \in DOMAIN saved.cat : v[2] > floor \/ v[2] >= LogFloor(starts)}}
    \cup {[saved EXCEPT !.pol = Without(@, q)] :
            q \in {q \in DOMAIN saved.pol : q > floor \/ q >= LogFloor(starts)}}

(* Lost and changed history is met: recovery never accepts a checkpoint    *)
(* from which a version or an outcome above the floor is missing or in     *)
(* which a row was replaced, although it executes nothing again.           *)
DamageIsMet == \A T \in Damaged : ~Accepted(T, checkpoint, floor, starts)
=============================================================================
