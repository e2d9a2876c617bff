----------------------------- MODULE Execution -----------------------------
(***************************************************************************)
(* What the engine executes: commands, the access scopes a transaction      *)
(* declares, the versioned state it reads and the outcome it produces.      *)
(*                                                                         *)
(* A command is one call of execute, execute_catalogue or execute_limits,   *)
(* so two calls with the same program are two members of Txn.  The program  *)
(* itself is the constant operator Run: the modules that use it only need   *)
(* the two facts the interpreter guarantees, that an outcome depends on no  *)
(* more than the declared reads and touches no more than the declared       *)
(* writes (RunReadsItsScopes, RunWritesItsScopes).                          *)
(***************************************************************************)
EXTENDS Naturals, Sequences, FiniteSetsExt

CONSTANTS
  Table, Key,      \* table identifiers and canonical keys
  AnyKey,          \* the key field of a scope that covers a whole table
  Metadata,        \* the catalogue and the limit policy, as one location
  Value, Absent,   \* stored values; Absent is both "never written" and deleted
  Txn, Admin,      \* transactions; catalogue operations and limit changes
  Reads(_),        \* the read scopes of a transaction's manifest
  Writes(_),       \* the write scopes of a transaction's manifest
  Run(_, _),       \* Run(c, state): the outcome of c on a state
  Admits(_, _)     \* Admits(c, v): preparation accepts c under metadata v

Command == Txn \cup Admin

-----------------------------------------------------------------------------
(* Scopes and their intersection.                                          *)

Scope == [table : Table, key : Key \cup {AnyKey}]

(* A row address, and every location a command can read or write.          *)
Address == Table \X Key

Location == Address \cup {Metadata}

(* The addresses a scope stands for.                                       *)
Covered(s) == {a \in Address : a[1] = s.table /\ s.key \in {AnyKey, a[2]}}

(* Mutant: a whole-table scope only meets another whole-table scope.       *)
overlapExact(left, right) == left.table = right.table /\ left.key = right.key

(* Two scopes intersect: same table, and equal keys unless one of them is  *)
(* the whole table.                                                        *)
overlap(left, right) ==
  /\ left.table = right.table
  /\ left.key # AnyKey /\ right.key # AnyKey => left.key = right.key

(* A later transaction with reads `reads` may observe a write in `writes`. *)
overlaps(writes, reads) == \E w \in writes, r \in reads : overlap(w, r)

(* Metadata is read by every transaction without being declared: the       *)
(* program is prepared and run under the catalogue and policy before it.   *)
ReadSet(c) == {Metadata} \cup (UNION {Covered(s) : s \in Reads(c)})

WriteSet(c) == IF c \in Txn THEN UNION {Covered(s) : s \in Writes(c)}
                            ELSE {Metadata}

-----------------------------------------------------------------------------
(* Outcomes and versioned state.                                           *)

State == [Location -> Value \cup {Absent}]

(* An abort has no effects; a success has one effect per written location. *)
Outcome == [ok : BOOLEAN,
            effects : UNION {[D -> Value \cup {Absent}] : D \in SUBSET Location}]

(* An image maps each resolved sequence to its outcome: the physical trees *)
(* hold one version per effect, keyed by location and sequence.            *)
Writers(image, n, a) == {m \in DOMAIN image : m < n /\ a \in DOMAIN image[m].effects}

(* What record n reads through an image: the newest version below n, so    *)
(* versions installed by later records are not seen; a tombstone is an     *)
(* answer and does not fall back to an older version.                      *)
Before(image, n) ==
  [a \in Location |->
     LET W == Writers(image, n, a)
     IN IF W = {} THEN Absent ELSE image[Max(W)].effects[a]]

(* Interpret record n of the log through an image.                         *)
Interpretation(c, image, n) == Run(c, Before(image, n))

(* Preparation of c as record n: the catalogue and policy before n.        *)
Preparable(c, image, n) == Admits(c, Before(image, n)[Metadata])

(* Remove the versions above n from an image.                              *)
Through(image, n) == [m \in {k \in DOMAIN image : k <= n} |-> image[m]]

-----------------------------------------------------------------------------
ASSUME LocationsDiffer ==
  /\ AnyKey \notin Key
  /\ Metadata \notin Address
  /\ Absent \notin Value
  /\ Txn \cap Admin = {}

ASSUME ScopesDeclared ==
  \A c \in Txn : Reads(c) \subseteq Scope /\ Writes(c) \subseteq Scope

ASSUME RunHasOutcome ==
  \A c \in Command : \A s \in State : Run(c, s) \in Outcome

ASSUME AdmitsIsBoolean ==
  \A c \in Command : \A v \in Value \cup {Absent} : Admits(c, v) \in BOOLEAN

(* An interpreter never reads outside the manifest: access::validate       *)
(* refuses a manifest that does not cover the program's accesses.          *)
ASSUME RunReadsItsScopes ==
  \A c \in Txn : \A s, t \in State :
    (\A a \in ReadSet(c) : s[a] = t[a]) => Run(c, s) = Run(c, t)

(* Transactions write inside their write scopes; administrative records    *)
(* write only catalogue and policy versions.                               *)
ASSUME RunWritesItsScopes ==
  \A c \in Command : \A s \in State : DOMAIN Run(c, s).effects \subseteq WriteSet(c)
=============================================================================
