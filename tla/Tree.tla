-------------------------------- MODULE Tree --------------------------------
(***************************************************************************)
(* The copy-on-write B+ tree of storage/tree.rs: edits, point reads, seeks *)
(* and range scans, over every tree that a sequence of edits can build.    *)
(*                                                                         *)
(* Pages are written once and never changed, so a root is its whole tree:  *)
(* a node is a leaf of cells or an internal node of separators and         *)
(* children.  Keys are numbers.  Sizes are in units that keep the ratio of *)
(* cell to page small enough for every split the format promises.          *)
(***************************************************************************)
EXTENDS Naturals, SequencesExt, FiniteSetsExt

(* The trees that are explored, each a record of                           *)
(*   KEYS       the keys are 1 .. KEYS                                     *)
(*   LongKeys   the keys that take two units, the others take one          *)
(*   Values     value sizes: 0 is an overflow value, on its own pages      *)
(*   PAGE_SIZE  units of cells that fit a node                             *)
CONSTANT Shapes

ASSUME TreeShapes ==
  \A s \in Shapes :
    /\ s.KEYS \in Nat /\ s.LongKeys \subseteq 1 .. s.KEYS
    /\ s.Values \subseteq 0 .. 1
    /\ s.PAGE_SIZE \in Nat /\ s.PAGE_SIZE >= 4
    \* MAX_KEY and INLINE_LIMIT keep a cell below half a page
    /\ (IF s.LongKeys = {} THEN 1 ELSE 2) + (IF 1 \in s.Values THEN 1 ELSE 0)
         <= s.PAGE_SIZE \div 2

VARIABLES
  shape,     \* the member of Shapes in force; never changes
  tree,      \* the tree under the root, or Empty (root 0)
  entries,   \* history: the map the edits describe
  failed     \* an edit reported an error

vars == <<shape, tree, entries, failed>>

KEYS == shape.KEYS
LongKeys == shape.LongKeys
Values == shape.Values
PAGE_SIZE == shape.PAGE_SIZE

-----------------------------------------------------------------------------
(* Nodes.                                                                  *)

Keys == 1 .. KEYS
Empty == [level |-> 0, cells |-> <<>>]
Leaf(cells) == [level |-> 0, cells |-> cells]
Cell(k, v) == [key |-> k, value |-> v]
IsLeaf(n) == n.level = 0

Internal(level, children) ==
  [level    |-> level,
   keys     |-> [i \in 1 .. Len(children) - 1 |-> children[i + 1].min],
   children |-> [i \in DOMAIN children |-> children[i].node]]

KeySize(k) == IF k \in LongKeys THEN 2 ELSE 1
LeafSize(c) == KeySize(c.key) + c.value
Total(sizes) ==
  LET sum[i \in 0 .. Len(sizes)] == IF i = 0 THEN 0 ELSE sum[i - 1] + sizes[i]
  IN sum[Len(sizes)]

(* route: the child after the last separator at or below the key.          *)
Route(keys, k) == Cardinality({i \in DOMAIN keys : keys[i] <= k}) + 1

RECURSIVE Minimum(_)
Minimum(n) == IF IsLeaf(n) THEN n.cells[1].key ELSE Minimum(n.children[1])

(* child_list: the children with their least keys.                         *)
ChildList(n) ==
  [i \in DOMAIN n.children |->
     [node |-> n.children[i],
      min  |-> IF i = 1 THEN Minimum(n.children[1]) ELSE n.keys[i - 1]]]

-----------------------------------------------------------------------------
(* Writing nodes.                                                          *)

(* The units of the two halves of a node that is split after i cells; the  *)
(* first key of a half of an internal node moves up.                       *)
Halves(sizes, internal) ==
  [i \in 1 .. Len(sizes) - 1 |->
     [left  |-> Total(SubSeq(sizes, 1, i)) - (IF internal THEN sizes[1] ELSE 0),
      right |-> Total(SubSeq(sizes, i + 1, Len(sizes)))
                  - (IF internal THEN sizes[i + 1] ELSE 0)]]

Difference(h) == IF h.left > h.right THEN h.left - h.right ELSE h.right - h.left

MostEven(halves, fits) ==
  IF fits = {} THEN 0
  ELSE Min({i \in fits : \A j \in fits : Difference(halves[i]) <= Difference(halves[j])})

Fitting(halves, minimum, n) ==
  {i \in minimum .. n - minimum : halves[i].left <= PAGE_SIZE /\ halves[i].right <= PAGE_SIZE}

(* split_point: the most even split whose halves both fit, or 0.           *)
SplitPoint(sizes, internal) ==
  LET halves == Halves(sizes, internal)
  IN MostEven(halves, Fitting(halves, IF internal THEN 2 ELSE 1, Len(sizes)))

Edit(level, children, ok) == [level |-> level, children |-> children, ok |-> ok]
Failed == Edit(1, <<>>, FALSE)

Child(n) == [node |-> n, min |-> Minimum(n)]

SplitLeaf(cells, split) ==
  IF split = 0 THEN Failed
  ELSE Edit(0, <<Child(Leaf(SubSeq(cells, 1, split))),
                 Child(Leaf(SubSeq(cells, split + 1, Len(cells))))>>, TRUE)

WriteLeaves(cells) ==
  LET sizes == [i \in DOMAIN cells |-> LeafSize(cells[i])]
  IN IF cells = <<>> THEN Edit(0, <<>>, TRUE)
     ELSE IF Total(sizes) <= PAGE_SIZE
       THEN Edit(0, <<Child(Leaf(cells))>>, TRUE)
       ELSE SplitLeaf(cells, SplitPoint(sizes, FALSE))

Part(level, children) ==
  [node |-> Internal(level, children), min |-> children[1].min]

SplitInternal(level, children, split) ==
  IF split = 0 THEN Failed
  ELSE Edit(level, <<Part(level, SubSeq(children, 1, split)),
                     Part(level, SubSeq(children, split + 1, Len(children)))>>, TRUE)

WriteInternal(level, children) ==
  LET sizes == [i \in DOMAIN children |-> KeySize(children[i].min)]
  IN IF Total(Tail(sizes)) <= PAGE_SIZE
       THEN Edit(level, <<Part(level, children)>>, TRUE)
       ELSE SplitInternal(level, children, SplitPoint(sizes, TRUE))

Splice(s, a, b, t) == SubSeq(s, 1, a - 1) \o t \o SubSeq(s, b + 1, Len(s))

(* The siblings i and j replaced by what was written for both.             *)
Joined(children, i, j, edit) ==
  [ok       |-> edit.ok,
   children |-> Splice(children, Min({i, j}), Max({i, j}), edit.children)]

(* repair: join an underflowing node's only child with a sibling.          *)
Repair(level, children, i, underflow) ==
  LET sibling == IF i = 1 THEN 2 ELSE i - 1
      own == ChildList(children[sibling].node)
  IN IF children[sibling].node.level # level - 1
       THEN [ok |-> FALSE, children |-> <<>>]
       ELSE Joined(children, i, sibling,
                   WriteInternal(level - 1,
                                 IF sibling < i THEN own \o underflow
                                 ELSE underflow \o own))

-----------------------------------------------------------------------------
(* update: the edit of the subtree n; Missing when there is nothing to     *)
(* delete.  A deletion is the value Removed.                               *)

Removed == 2
Missing == Edit(0, <<>>, FALSE)

WithCell(cells, k, v) ==
  SelectSeq(cells, LAMBDA c : c.key < k)
    \o (IF v = Removed THEN <<>> ELSE <<Cell(k, v)>>)
    \o SelectSeq(cells, LAMBDA c : c.key > k)

HasKey(cells, k) == \E i \in DOMAIN cells : cells[i].key = k

(* An internal node with a single child is replaced by that child.         *)
Collapse(level, children) ==
  IF Len(children) = 1 THEN Edit(level - 1, children, TRUE)
  ELSE WriteInternal(level, children)

Mended(level, repaired) ==
  IF repaired.ok THEN Collapse(level, repaired.children) ELSE Failed

(* The node n above the edit of its child i: an edit one level lower is a  *)
(* child to be joined with a sibling.                                      *)
Above(n, i, edit) ==
  IF edit = Missing \/ ~edit.ok THEN edit
  ELSE IF edit.children = <<>> \/ edit.level = n.level - 1
    THEN Collapse(n.level, Splice(ChildList(n), i, i, edit.children))
  ELSE IF n.level >= 2 /\ edit.level = n.level - 2 /\ Len(edit.children) = 1
    THEN Mended(n.level, Repair(n.level, ChildList(n), i, edit.children))
  ELSE Failed

RECURSIVE Update(_, _, _)
Update(n, k, v) ==
  IF ~IsLeaf(n)
    THEN LET i == Route(n.keys, k) IN Above(n, i, Update(n.children[i], k, v))
  ELSE IF v = Removed /\ ~HasKey(n.cells, k) THEN Missing
  ELSE WriteLeaves(WithCell(n.cells, k, v))

(* finish: the new root.                                                   *)
Finish(n, edit) ==
  IF edit = Missing THEN [node |-> n, ok |-> TRUE]
  ELSE [ok   |-> edit.ok,
        node |-> CASE edit.children = <<>> -> Empty
                   [] Len(edit.children) = 1 -> edit.children[1].node
                   [] OTHER -> Internal(edit.level + 1, edit.children)]

-----------------------------------------------------------------------------
(* Reading.                                                                *)

RECURSIVE Get(_, _)
Get(n, k) ==
  IF IsLeaf(n)
    THEN IF HasKey(n.cells, k)
           THEN {n.cells[i].value : i \in {j \in DOMAIN n.cells : n.cells[j].key = k}}
           ELSE {}
    ELSE Get(n.children[Route(n.keys, k)], k)

(* Mutant: the search ends with the leaf the key belongs to.               *)
SeekInLeaf(n, k, successor) ==
  SelectSeq(n.cells, LAMBDA c : c.key >= k)

(* seek: the cells at or above the key in its leaf, or in the leftmost     *)
(* leaf of the nearest subtree to the right.                               *)
RECURSIVE Seek(_, _, _)
SeekLeaf(n, k, successor) ==
  LET found == SelectSeq(n.cells, LAMBDA c : c.key >= k)
  IN IF found # <<>> \/ successor = <<>> THEN found
     ELSE Seek(successor[1], k, <<>>)

Seek(n, k, successor) ==
  IF IsLeaf(n) THEN SeekLeaf(n, k, successor)
  ELSE LET i == Route(n.keys, k)
       IN Seek(n.children[i], k,
               IF i < Len(n.children) THEN <<n.children[i + 1]>> ELSE successor)

(* A bound of a scan: absent, inclusive or exclusive.                      *)
Unbounded == [kind |-> "none", key |-> 0]
Bounds == {Unbounded} \cup [kind : {"included", "excluded"}, key : Keys]

AboveLower(lower, k) ==
  CASE lower.kind = "none" -> TRUE
    [] lower.kind = "included" -> k >= lower.key
    [] OTHER -> k > lower.key

BelowUpper(upper, k) ==
  CASE upper.kind = "none" -> TRUE
    [] upper.kind = "included" -> k <= upper.key
    [] OTHER -> k < upper.key

(* descend and advance: the leaves from the one the lower bound leads to,  *)
(* the rest of each ancestor after its subtree.                            *)
RECURSIVE Leaves(_, _)
Leaves(n, lower) ==
  IF IsLeaf(n) THEN SelectSeq(n.cells, LAMBDA c : AboveLower(lower, c.key))
  ELSE LET i == IF lower.kind = "none" THEN 1 ELSE Route(n.keys, lower.key)
       IN Leaves(n.children[i], lower)
            \o FlattenSeq([j \in 1 .. Len(n.children) - i |->
                             Leaves(n.children[i + j], Unbounded)])

(* A range that no key can be in is empty without a look at the tree.      *)
EmptyRange(lower, upper) ==
  /\ lower.kind # "none" /\ upper.kind # "none"
  /\ IF lower.kind = "included" /\ upper.kind = "included"
       THEN lower.key > upper.key ELSE lower.key >= upper.key

(* advance stops at the first key beyond the upper bound.                  *)
TakeBelow(upper, cells) ==
  LET beyond == {i \in DOMAIN cells : ~BelowUpper(upper, cells[i].key)}
  IN IF beyond = {} THEN cells ELSE SubSeq(cells, 1, Min(beyond) - 1)

Scan(n, lower, upper) ==
  IF EmptyRange(lower, upper) THEN <<>> ELSE TakeBelow(upper, Leaves(n, lower))

-----------------------------------------------------------------------------
(* validate_subtree: levels, order, exact separators, and that each node   *)
(* fits a page and is not empty (validate_header, decode_node).            *)

RECURSIVE Keyset(_)
Keyset(n) ==
  IF IsLeaf(n) THEN {n.cells[i].key : i \in DOMAIN n.cells}
  ELSE UNION {Keyset(n.children[i]) : i \in DOMAIN n.children}

RECURSIVE ValidSubtree(_)
ValidSubtree(n) ==
  IF IsLeaf(n)
    THEN /\ n.cells # <<>>
         /\ \A i \in 1 .. Len(n.cells) - 1 : n.cells[i].key < n.cells[i + 1].key
         /\ Total([i \in DOMAIN n.cells |-> LeafSize(n.cells[i])]) <= PAGE_SIZE
    ELSE /\ n.keys # <<>> /\ Len(n.children) = Len(n.keys) + 1
         /\ Total([i \in DOMAIN n.keys |-> KeySize(n.keys[i])]) <= PAGE_SIZE
         /\ \A i \in DOMAIN n.children :
              n.children[i].level = n.level - 1 /\ ValidSubtree(n.children[i])
         /\ \A i \in DOMAIN n.keys :
              /\ n.keys[i] = Minimum(n.children[i + 1])
              /\ Max(Keyset(n.children[i])) < n.keys[i]

(* copy_tree: compaction rebuilds each node from the leaves up.            *)
RECURSIVE CopyTree(_)
CopyTree(n) ==
  IF IsLeaf(n) THEN n
  ELSE [n EXCEPT !.children = [i \in DOMAIN n.children |-> CopyTree(n.children[i])]]

-----------------------------------------------------------------------------
Init ==
  /\ shape \in Shapes
  /\ tree = Empty
  /\ entries = <<>>
  /\ failed = FALSE

Becomes(new) == ~failed /\ tree' = new.node /\ failed' = ~new.ok

(* tree::put: an empty tree becomes a leaf.                                *)
Put(k, v) ==
  /\ Becomes(IF tree = Empty THEN [node |-> Leaf(<<Cell(k, v)>>), ok |-> TRUE]
             ELSE Finish(tree, Update(tree, k, v)))
  /\ entries' = [x \in DOMAIN entries \cup {k} |-> IF x = k THEN v ELSE entries[x]]

(* tree::delete.                                                           *)
Delete(k) ==
  /\ Becomes(IF tree = Empty THEN [node |-> tree, ok |-> TRUE]
             ELSE Finish(tree, Update(tree, k, Removed)))
  /\ entries' = [x \in DOMAIN entries \ {k} |-> entries[x]]

Compact ==
  /\ tree # Empty /\ ~failed
  /\ tree' = CopyTree(tree)
  /\ UNCHANGED <<entries, failed>>

Edits ==
  \/ \E k \in Keys, v \in Values : Put(k, v)
  \/ \E k \in Keys : Delete(k)
  \/ Compact

Next == Edits /\ UNCHANGED shape

Spec == Init /\ [][Next]_vars

-----------------------------------------------------------------------------
(* Properties.                                                             *)

(* The entries of the reference map between two bounds, in key order.      *)
Expected(lower, upper) ==
  LET keys == SelectSeq([k \in Keys |-> k],
                        LAMBDA k : /\ k \in DOMAIN entries
                                   /\ AboveLower(lower, k) /\ BelowUpper(upper, k))
  IN [i \in DOMAIN keys |-> Cell(keys[i], entries[keys[i]])]

(* No sequence of edits makes an edit fail (a node that is too full can    *)
(* always be split, a deletion never breaks the level rule: update,        *)
(* repair, split_point), and every tree they build passes the validation a *)
(* checkpoint applies to it: balanced, ordered, exact separators, no node  *)
(* over a page.                                                            *)
TreesValidate == ~failed /\ (tree # Empty => ValidSubtree(tree))

(* Reads of every key return what was last put, and a seek finds the least *)
(* cell at or above its key.                                               *)
ReadsMatchMap ==
  \A k \in Keys :
    /\ Get(tree, k) = IF k \in DOMAIN entries THEN {entries[k]} ELSE {}
    /\ LET above == Expected([kind |-> "included", key |-> k], Unbounded)
           found == Seek(tree, k, <<>>)
       IN IF above = <<>> THEN found = <<>> ELSE found # <<>> /\ found[1] = above[1]

(* A scan between any two bounds yields exactly the entries between them,  *)
(* in order and once (scan, descend, advance).                             *)
ScansMatchMap ==
  \A lower, upper \in Bounds : Scan(tree, lower, upper) = Expected(lower, upper)

(* A tree validates, and holds the map its edits describe, to get, seek    *)
(* and scan alike.                                                         *)
TreeIsMap == TreesValidate /\ ReadsMatchMap /\ ScansMatchMap
=============================================================================
