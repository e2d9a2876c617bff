----------------------------- MODULE PageCodec -----------------------------
(***************************************************************************)
(* The page format of storage/page.rs: encode_node, store_value, and the   *)
(* validation that reading applies to the bytes it finds.  A page is the   *)
(* record of its fields; a cell's bytes are its header and the lengths of  *)
(* its parts.  Sizes are in units: a slot and the fixed part of an         *)
(* internal cell take one each, the fixed part of a leaf cell two.  Forge  *)
(* changes single fields of a written page and recomputes its checksum, as *)
(* the corruption tests do.                                                *)
(***************************************************************************)
EXTENDS Naturals, SequencesExt, FiniteSetsExt

CONSTANTS
  PAGE_SIZE,      \* units of a page
  MAX_KEY,        \* longest key
  INLINE_LIMIT,   \* longest inline value
  MAX_VALUE,      \* longest value
  PageCount,      \* pages of the reader's prefix
  Kind,           \* the nodes of a run: "leaf", "internal" or "overflow"
  Forgeries       \* bound: fields forged at the same time

VARIABLES
  node,     \* what was written: a node, or the length of an overflow value
  pages,    \* the page, or the pages of the chain from its head
  forged    \* number of forged fields

vars == <<node, pages, forged>>

HEADER_SIZE == 1
PAYLOAD_SIZE == PAGE_SIZE - HEADER_SIZE
LEAF_FIXED == 2
INTERNAL_FIXED == 1
SLOT == 1
ValidRef(id) == id # 0 /\ id < PageCount

-----------------------------------------------------------------------------
(* Nodes.  A key is its length and its rank in the order of keys.          *)

Keys == [len : 0 .. MAX_KEY, rank : 1 .. 2]
LeafCells ==
  [key : Keys, inline : {TRUE}, len : 0 .. INLINE_LIMIT, head : {0}]
    \cup [key : Keys, inline : {FALSE}, len : {INLINE_LIMIT + 1, MAX_VALUE},
          head : {1, PageCount - 1}]

Ordered(s) == \A i \in 1 .. Len(s) - 1 : s[i].rank < s[i + 1].rank

Leaves ==
  {n \in [level : {0}, cells : SeqOf(LeafCells, 2)] :
     Ordered([i \in DOMAIN n.cells |-> n.cells[i].key])}
Internals ==
  {n \in [level : {1, 2}, keys : SeqOf(Keys, 2), children : SeqOf({1, PageCount - 1}, 3)] :
     Ordered(n.keys) /\ Len(n.children) = Len(n.keys) + 1}

IsLeaf(n) == "cells" \in DOMAIN n

(* leaf_size, and the size of an internal cell with its slot.              *)
LeafSize(c) == SLOT + LEAF_FIXED + c.key.len + (IF c.inline THEN c.len ELSE 0)
Sum(s) == LET t[i \in 0 .. Len(s)] == IF i = 0 THEN 0 ELSE t[i - 1] + s[i]
          IN t[Len(s)]

-----------------------------------------------------------------------------
(* Writing.                                                                *)

(* header: the fields that every kind of page starts from.                 *)
Header(kind, level) ==
  [magic |-> TRUE, version |-> 1, identity |-> TRUE, reserved |-> 0, kind |-> kind,
   level |-> level, count |-> 0, lower |-> HEADER_SIZE, upper |-> PAGE_SIZE,
   link |-> 0, payload |-> 0, gap |-> 0, slots |-> <<>>, cells |-> <<>>]

(* Cells are packed from the end of the page, in order.                    *)
Slots(lengths) ==
  [i \in DOMAIN lengths |->
     [offset |-> PAGE_SIZE - Sum(SubSeq(lengths, 1, i)), length |-> lengths[i]]]

Packed(page, lengths, cells) ==
  [page EXCEPT !.count = Len(cells), !.lower = HEADER_SIZE + SLOT * Len(cells),
               !.upper = PAGE_SIZE - Sum(lengths), !.slots = Slots(lengths),
               !.cells = cells]

EncodeLeaf(n) ==
  Packed(Header(1, 0), [i \in DOMAIN n.cells |-> LeafSize(n.cells[i]) - SLOT],
         [i \in DOMAIN n.cells |->
            [key |-> n.cells[i].key, flag |-> IF n.cells[i].inline THEN 0 ELSE 1,
             zero |-> 0, len |-> n.cells[i].len, ref |-> n.cells[i].head]])

EncodeInternal(n) ==
  [Packed(Header(2, n.level), [i \in DOMAIN n.keys |-> INTERNAL_FIXED + n.keys[i].len],
          [i \in DOMAIN n.keys |-> [key |-> n.keys[i], flag |-> 0, zero |-> 0,
                                    len |-> 0, ref |-> n.children[i + 1]]])
     EXCEPT !.link = n.children[1]]

(* encode_node refuses an empty node, one that does not fit, a key that is *)
(* too long and an internal node without a level or with a child 0.        *)
Encodes(n) ==
  LET keys == IF IsLeaf(n) THEN [i \in DOMAIN n.cells |-> n.cells[i].key] ELSE n.keys
      size(i) == IF IsLeaf(n) THEN LeafSize(n.cells[i])
                 ELSE SLOT + INTERNAL_FIXED + n.keys[i].len
  IN /\ ~IsLeaf(n) => /\ n.level # 0 /\ Len(n.children) = Len(n.keys) + 1
                      /\ 0 \notin Range(n.children)
     /\ keys # <<>> /\ HEADER_SIZE + Sum([i \in DOMAIN keys |-> size(i)]) <= PAGE_SIZE
     /\ \A i \in DOMAIN keys : keys[i].len <= MAX_KEY

(* store_value: the chunks of an overflow value, each page linked to the   *)
(* next, which was written before it.                                      *)
Chain(len) ==
  LET count == (len + PAYLOAD_SIZE - 1) \div PAYLOAD_SIZE
  IN [i \in 1 .. count |->
        [Header(3, 0) EXCEPT
           !.link = IF i = count THEN 0 ELSE i + 1,
           !.payload = IF i = count THEN len - PAYLOAD_SIZE * (count - 1)
                       ELSE PAYLOAD_SIZE]]

-----------------------------------------------------------------------------
(* Reading.                                                                *)

(* Mutant: bytes between the slots and the cells are not looked at.        *)
NodeBoundaries(p) ==
  /\ p.count # 0
  /\ p.lower = HEADER_SIZE + SLOT * p.count
  /\ p.lower <= p.upper /\ p.upper <= PAGE_SIZE
  /\ p.payload = 0

Boundaries(p) ==
  /\ p.count # 0
  /\ p.lower = HEADER_SIZE + SLOT * p.count
  /\ p.lower <= p.upper /\ p.upper <= PAGE_SIZE
  /\ p.payload = 0 /\ p.gap = 0

(* validate_header, for a page other than the file header.                 *)
ValidHeader(p) ==
  /\ p.magic /\ p.version = 1 /\ p.identity /\ p.reserved = 0
  /\ \/ p.kind = 1 /\ Boundaries(p) /\ p.level = 0 /\ p.link = 0
     \/ p.kind = 2 /\ Boundaries(p) /\ p.level # 0 /\ ValidRef(p.link)
     \/ /\ p.kind = 3 /\ p.level = 0 /\ p.count = 0
        /\ p.lower = HEADER_SIZE /\ p.upper = PAGE_SIZE
        /\ p.payload \in 1 .. PAYLOAD_SIZE
        /\ (p.link = 0 \/ ValidRef(p.link)) /\ p.gap = 0

Fixed(p) == IF p.kind = 1 THEN LEAF_FIXED ELSE INTERNAL_FIXED

(* Where cell i must end: at the offset of the one before it.              *)
CellEnd(p, i) == IF i = 1 THEN PAGE_SIZE ELSE p.slots[i - 1].offset

ValidLeafCell(c, length) ==
  /\ c.zero = 0 /\ c.len <= MAX_VALUE
  /\ \/ /\ c.flag = 0 /\ c.len <= INLINE_LIMIT /\ c.ref = 0
        /\ length = LEAF_FIXED + c.key.len + c.len
     \/ /\ c.flag = 1 /\ c.len > INLINE_LIMIT /\ ValidRef(c.ref)
        /\ length = LEAF_FIXED + c.key.len

ValidInternalCell(c, length) ==
  c.zero = 0 /\ c.flag = 0 /\ length = INTERNAL_FIXED + c.key.len /\ ValidRef(c.ref)

SlotsPacked(p) ==
  /\ \A i \in 1 .. p.count :
       /\ p.slots[i].offset >= p.upper
       /\ p.slots[i].offset + p.slots[i].length = CellEnd(p, i)
       /\ p.slots[i].length >= Fixed(p)
  /\ p.slots[p.count].offset = p.upper

(* decode_node: whether the page holds a node.                             *)
Decodes(p) ==
  /\ ValidHeader(p) /\ p.kind \in {1, 2}
  /\ p.count <= Len(p.slots)
  /\ SlotsPacked(p)
  /\ \A i \in 1 .. p.count :
       LET c == p.cells[i]  length == p.slots[i].length
       IN /\ c.key.len <= MAX_KEY /\ Fixed(p) + c.key.len <= length
          /\ i > 1 => p.cells[i - 1].key.rank < c.key.rank
          /\ IF p.kind = 1 THEN ValidLeafCell(c, length) ELSE ValidInternalCell(c, length)

Decoded(p) ==
  IF p.kind = 1
    THEN [level |-> 0,
          cells |-> [i \in 1 .. p.count |->
                       [key |-> p.cells[i].key, inline |-> p.cells[i].flag = 0,
                        len |-> p.cells[i].len, head |-> p.cells[i].ref]]]
    ELSE [level |-> p.level,
          keys |-> [i \in 1 .. p.count |-> p.cells[i].key],
          children |-> <<p.link>> \o [i \in 1 .. p.count |-> p.cells[i].ref]]

(* walk_overflow: the bytes read from a chain, 0 when it is refused.  No   *)
(* page is visited twice.                                                  *)
Walk(chain, len) ==
  LET walk[id \in 0 .. PageCount, owned \in SUBSET (1 .. Len(chain)), rest \in 0 .. len] ==
        LET p == chain[id]
            length == IF rest < PAYLOAD_SIZE THEN rest ELSE PAYLOAD_SIZE
        IN IF id \notin DOMAIN chain \/ id \in owned THEN 0
           ELSE IF ~(ValidHeader(p) /\ p.kind = 3 /\ p.payload = length) THEN 0
           ELSE IF (p.link = 0) # (rest = length) THEN 0
           ELSE IF rest = length THEN len
           ELSE walk[p.link, owned \cup {id}, rest - length]
  IN IF len \in INLINE_LIMIT + 1 .. MAX_VALUE THEN walk[1, {}, len] ELSE 0

-----------------------------------------------------------------------------
Nodes == {n \in IF Kind = "leaf" THEN Leaves ELSE Internals : Encodes(n)}

Encode(n) == IF IsLeaf(n) THEN EncodeLeaf(n) ELSE EncodeInternal(n)

Init ==
  /\ forged = 0
  /\ IF Kind = "overflow"
       THEN node \in INLINE_LIMIT + 1 .. MAX_VALUE /\ pages = Chain(node)
       ELSE node \in Nodes /\ pages = <<Encode(node)>>

(* The values a forged header or cell field may take.                      *)
HeaderForgeries(p) ==
  {[p EXCEPT !.magic = FALSE], [p EXCEPT !.version = 2], [p EXCEPT !.identity = FALSE],
   [p EXCEPT !.reserved = 1], [p EXCEPT !.gap = 1]}
    \cup {[p EXCEPT !.kind = k] : k \in 0 .. 3}
    \cup {[p EXCEPT !.level = k] : k \in 0 .. 1}
    \cup {[p EXCEPT !.count = k] : k \in 0 .. Len(p.slots) + 1}
    \cup {[p EXCEPT !.lower = k] : k \in {p.lower - 1, p.lower + 1}}
    \cup {[p EXCEPT !.upper = k] : k \in {p.upper - 1, p.upper + 1}}
    \cup {[p EXCEPT !.link = k] : k \in 0 .. PageCount}
    \cup {[p EXCEPT !.payload = k] : k \in {0, 1, PAYLOAD_SIZE, PAYLOAD_SIZE + 1}}

SlotForgeries(p, i) ==
  LET s == p.slots[i]  c == p.cells[i] IN
  {[p EXCEPT !.slots[i].offset = k] : k \in {s.offset - 1, s.offset + 1}}
    \cup {[p EXCEPT !.slots[i].length = k] : k \in {0, s.length - 1, s.length + 1}}
    \cup {[p EXCEPT !.cells[i].key.len = k] : k \in {0, MAX_KEY, MAX_KEY + 1}}
    \cup {[p EXCEPT !.cells[i].key.rank = k] : k \in {1, 3}}
    \cup {[p EXCEPT !.cells[i].flag = k] : k \in 0 .. 2}
    \cup {[p EXCEPT !.cells[i].zero = 1]}
    \cup {[p EXCEPT !.cells[i].len = k] :
            k \in IF Kind = "leaf" THEN {0, c.len + 1, INLINE_LIMIT + 1, MAX_VALUE + 1} ELSE {0}}
    \cup {[p EXCEPT !.cells[i].ref = k] : k \in {0, 2, PageCount}}

(* A field of the page on disk changes, under a checksum that is right.    *)
Forge ==
  /\ forged < Forgeries
  /\ forged' = forged + 1
  /\ \E j \in DOMAIN pages :
       LET p == pages[j] IN
       pages' \in {[pages EXCEPT ![j] = q] :
                     q \in HeaderForgeries(p)
                             \cup UNION {SlotForgeries(p, i) : i \in DOMAIN p.slots}}
  /\ UNCHANGED node

Next == Forge

Spec == Init /\ [][Next]_vars

-----------------------------------------------------------------------------
(* Properties.                                                             *)

(* What was written reads back: encode_node and decode_node agree, and a   *)
(* stored value is walked to exactly its length.                           *)
RoundTrip ==
  forged = 0 =>
    IF Kind = "overflow" THEN Walk(pages, node) = node
    ELSE Decodes(pages[1]) /\ Decoded(pages[1]) = node

(* Only canonical pages are read: whatever fields changed, a page that     *)
(* decodes is the encoding of the node it decodes to, so the same node     *)
(* never has two forms on disk.                                            *)
AcceptedIsCanonical ==
  Kind # "overflow" /\ Decodes(pages[1]) =>
    /\ Encodes(Decoded(pages[1]))
    /\ Encode(Decoded(pages[1])) = pages[1]

(* A chain that is read covers its value exactly: its links visit          *)
(* different pages, whose payloads add up to the length, and end there.    *)
AcceptedChainIsExact ==
  Kind = "overflow" /\ Walk(pages, node) # 0 =>
    LET n == Len(Chain(node))
        path[i \in 1 .. n] == IF i = 1 THEN 1 ELSE pages[path[i - 1]].link
    IN /\ \A i, j \in 1 .. n : path[i] = path[j] => i = j
       /\ Sum([i \in 1 .. n |-> pages[path[i]].payload]) = node
       /\ pages[path[n]].link = 0
=============================================================================
