--------------------------- MODULE LogReuseProofs ---------------------------
(***************************************************************************)
(* A reused log validation decides as reading every log file would, for    *)
(* any history, any manifest and any files that a caller may supply.       *)
(*                                                                         *)
(* Digests are compared, histories are meant: comparing the digest of a    *)
(* file at some record says which history the file begins with.  A valid   *)
(* log is then a chain: every segment, and the checkpoint, begins what is  *)
(* acknowledged.  What the proof covers begins the acknowledged history,   *)
(* the suffix that is read continues it, and so the shortcut has seen what *)
(* full validation would see.  LogInv says that the selected manifest is   *)
(* valid in the present files, and that a proof of it has its anchors.     *)
(***************************************************************************)
EXTENDS LogReuse, Sums, SequenceTheorems

(* Histories of any length, descriptors, manifests and files.              *)
History == Seq(Contents)
Descriptor == [id : Nat, pred : History, last : History]
Manifests ==
  [generation : Nat, namespace : Nat, checkpoint : History, durable : History,
   floor : Nat, next : Nat, segments : Seq(Descriptor)]
LogFile == [pred : History, records : History]

-----------------------------------------------------------------------------
(* Beginnings of histories.                                                *)

(* The history s is where t begins.                                        *)
Begins(s, t) == Len(s) <= Len(t) /\ \A k \in 1 .. Len(s) : s[k] = t[k]

(* A digest of t is where t begins, and nothing else of its length is.     *)
LEMMA DigestBegins ==
  ASSUME NEW t \in History, NEW n \in 0 .. Len(t)
  PROVE  Digest(t, n) \in History /\ Len(Digest(t, n)) = n /\ Begins(Digest(t, n), t)
<1>1. n \in Nat /\ n <= Len(t)
  BY DEF History
<1>2. \A k \in 1 .. n : k \in 1 .. Len(t)
  BY <1>1 DEF History
<1>3. /\ SubSeq(t, 1, n) \in Seq(Contents)
      /\ Len(SubSeq(t, 1, n)) = IF 1 <= n THEN n - 1 + 1 ELSE 0
      /\ \A i \in 1 .. n - 1 + 1 : SubSeq(t, 1, n)[i] = t[1 + i - 1]
  <2>1. t \in Seq(Contents) /\ 1 \in 1 .. Len(t) + 1 /\ n \in 0 .. Len(t)
    BY <1>1 DEF History
  <2> QED
    BY ONLY <2>1, SubSeqProperties
<1>4. Len(SubSeq(t, 1, n)) = n /\ \A i \in 1 .. n : SubSeq(t, 1, n)[i] = t[i]
  BY <1>1, <1>3
<1> QED
  BY <1>1, <1>3, <1>4 DEF Digest, Begins, History

(* Histories of one length that begin a third one are the same.            *)
LEMMA SameBeginning ==
  ASSUME NEW s \in History, NEW t \in History, Begins(s, t), Len(s) = Len(t)
  PROVE  s = t
BY SeqEqual DEF History, Begins

(* To begin is an order.                                                   *)
LEMMA BeginsTransitive ==
  ASSUME NEW s \in History, NEW t \in History, NEW u \in History, Begins(s, t), Begins(t, u)
  PROVE  Begins(s, u)
BY DEF History, Begins

(* Every history begins itself.                                            *)
LEMMA BeginsItself ==
  ASSUME NEW s \in History
  PROVE  Begins(s, s)
BY DEF History, Begins

(* Of two beginnings of one history the shorter begins the longer.         *)
LEMMA BothBegin ==
  ASSUME NEW s \in History, NEW t \in History, NEW u \in History, Begins(s, u), Begins(t, u),
         Len(s) <= Len(t)
  PROVE  Begins(s, t)
BY DEF History, Begins

(* What a comparison of digests says.                                      *)
LEMMA DigestMeans ==
  ASSUME NEW s \in History, NEW t \in History, Len(s) <= Len(t)
  PROVE  Digest(t, Len(s)) = s <=> Begins(s, t)
<1>1. Len(s) \in 0 .. Len(t)
  BY DEF History
<1>2. /\ Digest(t, Len(s)) \in History /\ Len(Digest(t, Len(s))) = Len(s)
      /\ Begins(Digest(t, Len(s)), t)
  BY <1>1, DigestBegins
<1>3. ASSUME Begins(s, t)
      PROVE  Digest(t, Len(s)) = s
  <2>1. Begins(s, Digest(t, Len(s)))
    BY <1>2, <1>3, BothBegin
  <2> QED
    BY <1>2, <2>1, SameBeginning
<1> QED
  BY <1>2, <1>3

(* The community modules' prefix.                                          *)
LEMMA BeginsIsPrefix ==
  ASSUME NEW s \in History, NEW t \in History, Begins(s, t)
  PROVE  IsPrefix(s, t)
<1>1. Digest(t, Len(s)) = s /\ Len(s) <= Len(t)
  BY DigestMeans DEF Begins
<1>2. Digest(s, Len(s)) = s
  BY DigestMeans, BeginsItself DEF History
<1> QED
  BY <1>1, <1>2 DEF IsPrefix, Digest

(* An extended history begins as it did.                                   *)
LEMMA ExtensionBegins ==
  ASSUME NEW s \in History, NEW t \in History
  PROVE  s \o t \in History /\ Len(s \o t) = Len(s) + Len(t) /\ Begins(s, s \o t)
BY DEF History, Begins

-----------------------------------------------------------------------------
(* Validation, as a statement about beginnings.                            *)

(* ReadsSuffix and ValidateLogs, of given files.                           *)
ReadsIn(f, m, g, reached) ==
  /\ g.id \in DOMAIN f
  /\ f[g.id].pred = g.pred
  /\ Len(g.last) <= Len(f[g.id].records)
  /\ LET found == f[g.id].records
     IN  /\ Digest(found, Len(reached)) = reached
         /\ Digest(found, Len(g.last)) = g.last
         /\ Len(m.checkpoint) \in Len(reached) + 1 .. Len(g.last) =>
              Digest(found, Len(m.checkpoint)) = m.checkpoint
LogsIn(f, m) ==
  /\ ValidateManifest(m)
  /\ \A i \in DOMAIN m.segments : ReadsIn(f, m, m.segments[i], m.segments[i].pred)

(* What reading a segment from a digest on establishes.                    *)
Reading(f, c, g, reached) ==
  /\ g.id \in DOMAIN f /\ f[g.id].pred = g.pred
  /\ Begins(reached, f[g.id].records) /\ Begins(g.last, f[g.id].records)
  /\ Len(c) \in Len(reached) + 1 .. Len(g.last) => Begins(c, f[g.id].records)

(* Comparing the digests of a file compares beginnings of records.         *)
LEMMA ReadsMean ==
  ASSUME NEW f \in Seq(LogFile), NEW m \in Manifests, NEW g \in Descriptor,
         NEW reached \in History, Len(reached) <= Len(g.last)
  PROVE  ReadsIn(f, m, g, reached) <=> Reading(f, m.checkpoint, g, reached)
<1>1. CASE g.id \in DOMAIN f /\ Len(g.last) <= Len(f[g.id].records)
  <2>0. f[g.id] \in LogFile
    BY <1>1
  <2> PICK found \in History : found = f[g.id].records
    BY <2>0 DEF LogFile
  <2> PICK c \in History : c = m.checkpoint
    BY DEF Manifests
  <2> PICK last \in History : last = g.last
    BY DEF Descriptor
  <2>1. Len(c) \in Nat /\ Len(reached) \in Nat /\ Len(last) \in Nat /\ Len(found) \in Nat
    BY DEF History
  <2>2. Len(reached) <= Len(found) /\ Len(last) <= Len(found)
    BY <1>1, <2>1
  <2>3. Digest(found, Len(reached)) = reached <=> Begins(reached, found)
    BY <2>2, DigestMeans
  <2>4. Digest(found, Len(last)) = last <=> Begins(last, found)
    BY <2>2, DigestMeans
  <2>5. Len(c) <= Len(last) => (Digest(found, Len(c)) = c <=> Begins(c, found))
    BY <2>1, <2>2, DigestMeans
  <2> QED
    BY <1>1, <2>1, <2>2, <2>3, <2>4, <2>5 DEF ReadsIn, Reading
<1>2. CASE ~(g.id \in DOMAIN f /\ Len(g.last) <= Len(f[g.id].records))
  BY <1>2 DEF ReadsIn, Reading, Begins
<1> QED
  BY <1>1, <1>2

(* The lengths that a valid manifest has, segment by segment.              *)
LEMMA ManifestLengths ==
  ASSUME NEW m \in Manifests, ValidateManifest(m)
  PROVE  /\ Len(m.checkpoint) \in Nat /\ Len(m.durable) \in Nat /\ Len(m.segments) \in Nat
         /\ Len(m.checkpoint) <= Len(m.durable)
         /\ m.floor \in Nat /\ m.floor > 0 /\ m.floor <= Len(m.checkpoint) + 1
         /\ DOMAIN m.segments = 1 .. Len(m.segments)
         /\ \A i \in 1 .. Len(m.segments) :
              /\ m.segments[i] \in Descriptor
              /\ m.segments[i].pred \in History /\ m.segments[i].last \in History
              /\ Len(m.segments[i].pred) \in Nat /\ Len(m.segments[i].last) \in Nat
              /\ Len(m.segments[i].pred) < Len(m.segments[i].last)
              /\ ValidSegment(m, i)
<1>1. /\ m.checkpoint \in History /\ m.durable \in History /\ m.floor \in Nat
      /\ m.segments \in Seq(Descriptor)
  BY DEF Manifests
<1>2. Len(m.checkpoint) \in Nat /\ Len(m.durable) \in Nat /\ Len(m.segments) \in Nat
  BY <1>1 DEF History
<1>3. DOMAIN m.segments = 1 .. Len(m.segments)
  BY <1>1
<1>4. ASSUME NEW i \in 1 .. Len(m.segments)
      PROVE  /\ m.segments[i] \in Descriptor
             /\ m.segments[i].pred \in History /\ m.segments[i].last \in History
             /\ Len(m.segments[i].pred) \in Nat /\ Len(m.segments[i].last) \in Nat
             /\ Len(m.segments[i].pred) < Len(m.segments[i].last)
             /\ ValidSegment(m, i)
  <2>1. m.segments[i] \in Descriptor
    BY <1>1
  <2>2. m.segments[i].pred \in History /\ m.segments[i].last \in History
    BY <2>1 DEF Descriptor
  <2>3. Len(m.segments[i].pred) \in Nat /\ Len(m.segments[i].last) \in Nat
    BY <2>2 DEF History
  <2>4. Len(m.segments) # 0
    BY <1>2
  <2>5. ValidSegment(m, i)
    BY <2>4 DEF ValidateManifest
  <2>6. Len(m.segments[i].pred) < Len(m.segments[i].last)
    BY <2>3, <2>5 DEF ValidSegment
  <2> QED
    BY <2>1, <2>2, <2>3, <2>5, <2>6
<1> QED
  BY <1>1, <1>2, <1>3, <1>4 DEF ValidateManifest

(* Full validation of a manifest, said with beginnings.                    *)
LEMMA LogsMean ==
  ASSUME NEW f \in Seq(LogFile), NEW m \in Manifests
  PROVE  LogsIn(f, m) <=>
           /\ ValidateManifest(m)
           /\ \A i \in 1 .. Len(m.segments) :
                Reading(f, m.checkpoint, m.segments[i], m.segments[i].pred)
<1>1. SUFFICES ASSUME ValidateManifest(m)
               PROVE  (\A i \in DOMAIN m.segments : ReadsIn(f, m, m.segments[i], m.segments[i].pred))
                        <=> \A i \in 1 .. Len(m.segments) :
                              Reading(f, m.checkpoint, m.segments[i], m.segments[i].pred)
  BY DEF LogsIn
<1>2. ASSUME NEW i \in 1 .. Len(m.segments)
      PROVE  ReadsIn(f, m, m.segments[i], m.segments[i].pred)
               <=> Reading(f, m.checkpoint, m.segments[i], m.segments[i].pred)
  <2>1. /\ m.segments[i] \in Descriptor /\ m.segments[i].pred \in History
        /\ Len(m.segments[i].pred) <= Len(m.segments[i].last)
    BY <1>1, ManifestLengths
  <2> QED
    BY <2>1, ReadsMean
<1>3. DOMAIN m.segments = 1 .. Len(m.segments)
  BY <1>1, ManifestLengths
<1> QED
  BY <1>2, <1>3

(* The segments of a valid log, and its checkpoint, are where it begins:   *)
(* each segment starts with the digest the one before it ends with.        *)
LEMMA ValidLogIsChain ==
  ASSUME NEW f \in Seq(LogFile), NEW m \in Manifests, LogsIn(f, m)
  PROVE  /\ Begins(m.checkpoint, m.durable)
         /\ \A i \in 1 .. Len(m.segments) :
              Begins(m.segments[i].pred, m.durable) /\ Begins(m.segments[i].last, m.durable)
<1> PICK c \in History, d \in History, n \in Nat, lo \in Nat, seg \in Seq(Descriptor) :
      c = m.checkpoint /\ d = m.durable /\ n = Len(m.segments) /\ lo = m.floor /\ seg = m.segments
  BY DEF Manifests
<1>0. ValidateManifest(m)
  BY DEF LogsIn
<1>1. /\ Len(c) \in Nat /\ Len(d) \in Nat /\ Len(c) <= Len(d) /\ lo <= Len(c) + 1 /\ lo > 0
      /\ \A i \in 1 .. n :
           /\ seg[i] \in Descriptor /\ seg[i].pred \in History /\ seg[i].last \in History
           /\ Len(seg[i].pred) \in Nat /\ Len(seg[i].last) \in Nat
           /\ Len(seg[i].pred) < Len(seg[i].last)
           /\ ValidSegment(m, i)
  BY <1>0, ManifestLengths
<1>2. \A i \in 1 .. n : Reading(f, c, seg[i], seg[i].pred)
  BY LogsMean
<1>3. ASSUME NEW i \in 1 .. n
      PROVE  /\ Begins(seg[i].pred, seg[i].last)
             /\ f[seg[i].id].records \in History
  <2>1. seg[i].id \in DOMAIN f
    BY <1>2 DEF Reading
  <2>2. f[seg[i].id] \in LogFile
    BY <2>1
  <2>3. f[seg[i].id].records \in History
    BY <2>2 DEF LogFile
  <2> QED
    BY <1>1, <1>2, <2>3, BothBegin DEF Reading
<1>4. ASSUME NEW i \in 1 .. n, i > 1
      PROVE  i - 1 \in 1 .. n /\ seg[i].pred = seg[i - 1].last
  BY <1>1, <1>4 DEF ValidSegment
<1>5. n > 0 => seg[n].last = d
  BY <1>0 DEF ValidateManifest
<1>6. \A i \in 1 .. n : Begins(seg[i].last, d)
  <2> DEFINE Bad == {i \in 1 .. n : ~Begins(seg[i].last, d)}
  <2>1. SUFFICES ASSUME Bad # {}
                 PROVE  FALSE
    OBVIOUS
  <2>2. Bad \in SUBSET Nat /\ \A x \in Bad : x <= n
    OBVIOUS
  <2>3. PICK i \in Bad : \A j \in Bad : i >= j
    <3> HIDE DEF Bad
    <3> QED
      BY <2>1, <2>2, Greatest
  <2>4. i \in 1 .. n /\ ~Begins(seg[i].last, d)
    OBVIOUS
  <2>5. i # n
    BY <1>5, <2>4, BeginsItself
  <2>6. i + 1 \in 1 .. n /\ i + 1 \notin Bad
    BY <2>3, <2>4, <2>5
  <2>7. Begins(seg[i + 1].last, d) /\ seg[i + 1].pred = seg[i].last
    BY <1>4, <2>6
  <2>8. Begins(seg[i].last, seg[i + 1].last)
    BY <1>3, <2>6, <2>7
  <2> QED
    BY <1>1, <2>4, <2>6, <2>7, <2>8, BeginsTransitive
<1>7. \A i \in 1 .. n : Begins(seg[i].pred, d)
  BY <1>1, <1>3, <1>6, BeginsTransitive
<1>8. Begins(c, d)
  <2>1. CASE n = 0 \/ Len(c) = Len(d)
    <3>1. c = d
      BY <1>0, <2>1 DEF ValidateManifest
    <3> QED
      BY <3>1, BeginsItself
  <2>2. CASE n > 0 /\ Len(c) < Len(d)
    <3> DEFINE Covers == {i \in 1 .. n : Len(c) <= Len(seg[i].last)}
    <3>1. n \in Covers
      BY <1>1, <1>5, <2>2
    <3>2. Covers \in SUBSET Nat
      OBVIOUS
    <3>3. PICK i \in Covers : \A j \in Covers : i <= j
      <4> HIDE DEF Covers
      <4> QED
        BY <3>1, <3>2, Least
    <3>4. i \in 1 .. n /\ Len(c) <= Len(seg[i].last)
      OBVIOUS
    <3>5. CASE Len(c) > Len(seg[i].pred)
      <4>1. Begins(c, f[seg[i].id].records) /\ Begins(seg[i].last, f[seg[i].id].records)
        BY <1>1, <1>2, <3>4, <3>5 DEF Reading
      <4>2. Begins(c, seg[i].last)
        BY <1>1, <1>3, <3>4, <4>1, BothBegin
      <4> QED
        BY <1>1, <1>6, <3>4, <4>2, BeginsTransitive
    <3>6. CASE Len(c) <= Len(seg[i].pred)
      <4>1. i = 1
        <5>1. SUFFICES ASSUME i > 1
                       PROVE  FALSE
          BY <3>4
        <5>2. i - 1 \in 1 .. n /\ seg[i].pred = seg[i - 1].last
          BY <1>4, <3>4, <5>1
        <5>3. i - 1 \in Covers
          BY <3>6, <5>2
        <5> QED
          BY <3>3, <3>4, <5>3
      <4>2. Len(seg[1].pred) = lo - 1
        BY <1>1, <3>4, <4>1 DEF ValidSegment
      <4>3. Len(seg[i].pred) = Len(c)
        BY <1>1, <3>4, <3>6, <4>1, <4>2
      <4>4. seg[i].pred = c
        BY <1>1, <3>4, <4>3 DEF ValidSegment
      <4> QED
        BY <1>7, <3>4, <4>4
    <3> QED
      BY <1>1, <3>4, <3>5, <3>6
  <2> QED
    BY <1>1, <2>1, <2>2
<1> QED
  BY <1>6, <1>7, <1>8

(* Manifests of one log: they may differ in the checkpoint, the generation *)
(* and the namespace.                                                      *)
SameLog(m, o) ==
  m.durable = o.durable /\ m.floor = o.floor /\ m.next = o.next /\ m.segments = o.segments

(* Any checkpoint of a valid log, at or above its floor, is valid.         *)
LEMMA AnyCheckpointIsValid ==
  ASSUME NEW f \in Seq(LogFile), NEW m \in Manifests, LogsIn(f, m), NEW o \in Manifests,
         SameLog(m, o), Begins(o.checkpoint, m.durable), m.floor <= Len(o.checkpoint) + 1,
         m.segments = <<>> => o.checkpoint = m.durable
  PROVE  LogsIn(f, o)
<1> PICK c \in History, d \in History, n \in Nat, lo \in Nat, seg \in Seq(Descriptor) :
      c = o.checkpoint /\ d = m.durable /\ n = Len(m.segments) /\ lo = m.floor /\ seg = m.segments
  BY DEF Manifests
<1>0. ValidateManifest(m)
  BY DEF LogsIn
<1>1. /\ Len(d) \in Nat /\ Len(c) \in Nat /\ lo > 0
      /\ \A i \in 1 .. n :
           /\ seg[i].pred \in History /\ seg[i].last \in History
           /\ Len(seg[i].pred) \in Nat /\ Len(seg[i].last) \in Nat
           /\ Len(seg[i].pred) < Len(seg[i].last)
           /\ ValidSegment(m, i)
  BY <1>0, ManifestLengths DEF History
<1>2. \A i \in 1 .. n : Begins(seg[i].pred, d) /\ Begins(seg[i].last, d)
  BY ValidLogIsChain
<1>3. Len(c) <= Len(d) /\ (Len(c) = Len(d) => c = d)
  BY SameBeginning DEF Begins
<1>4. ASSUME NEW i \in 1 .. n
      PROVE  ValidSegment(o, i)
  <2>1. Len(seg[i].pred) = Len(c) => seg[i].pred = c
    BY <1>1, <1>2, BothBegin, SameBeginning
  <2>2. Len(seg[i].last) = Len(c) => seg[i].last = c
    BY <1>1, <1>2, BothBegin, SameBeginning
  <2>3. ValidSegment(m, i)
    BY <1>1
  <2> QED
    BY <2>1, <2>2, <2>3 DEF ValidSegment, SameLog
<1>5. ValidateManifest(o)
  <2>1. n = 0 => m.segments = <<>>
    BY EmptySeq
  <2>2. o.floor \in 1 .. Len(o.checkpoint) + 1
    BY <1>1 DEF SameLog
  <2>3. IF n = 0 THEN m.floor = Len(d) + 1 ELSE seg[n].last = d
    BY <1>0 DEF ValidateManifest
  <2>4. o.durable = d /\ o.floor = m.floor /\ o.segments = seg
    BY DEF SameLog
  <2> QED
    BY <1>3, <1>4, <2>1, <2>2, <2>3, <2>4 DEF ValidateManifest
<1>6. ASSUME NEW i \in 1 .. n
      PROVE  Reading(f, c, seg[i], seg[i].pred)
  <2>1. Reading(f, m.checkpoint, seg[i], seg[i].pred)
    BY LogsMean
  <2>2. seg[i].id \in DOMAIN f
    BY <2>1 DEF Reading
  <2>3. f[seg[i].id] \in LogFile
    BY <2>2
  <2>4. f[seg[i].id].records \in History
    BY <2>3 DEF LogFile
  <2>5. Len(c) <= Len(seg[i].last) => Begins(c, f[seg[i].id].records)
    <3>1. SUFFICES ASSUME Len(c) <= Len(seg[i].last)
                   PROVE  Begins(c, f[seg[i].id].records)
      OBVIOUS
    <3>2. Begins(c, seg[i].last)
      BY <1>1, <1>2, <3>1, BothBegin
    <3>3. Begins(seg[i].last, f[seg[i].id].records)
      BY <2>1 DEF Reading
    <3> QED
      BY <1>1, <2>4, <3>2, <3>3, BeginsTransitive
  <2> QED
    BY <1>1, <2>1, <2>5 DEF Reading
<1>7. \A i \in 1 .. Len(o.segments) : Reading(f, o.checkpoint, o.segments[i], o.segments[i].pred)
  BY <1>6 DEF SameLog
<1> QED
  BY <1>5, <1>7, LogsMean

(* Log files only grow.                                                    *)
Grown(f, g) ==
  \A i \in DOMAIN f :
    i \in DOMAIN g /\ g[i].pred = f[i].pred /\ Begins(f[i].records, g[i].records)

(* What was valid stays valid while the files grow.                        *)
LEMMA GrowthKeepsLogs ==
  ASSUME NEW f \in Seq(LogFile), NEW g \in Seq(LogFile), Grown(f, g),
         NEW m \in Manifests, LogsIn(f, m)
  PROVE  LogsIn(g, m)
<1>0. ValidateManifest(m)
  BY DEF LogsIn
<1>1. ASSUME NEW i \in 1 .. Len(m.segments)
      PROVE  Reading(g, m.checkpoint, m.segments[i], m.segments[i].pred)
  <2> PICK s \in Descriptor, c \in History : s = m.segments[i] /\ c = m.checkpoint
    BY <1>0, ManifestLengths DEF Manifests
  <2>1. Reading(f, c, s, s.pred)
    BY LogsMean
  <2>2. s.id \in DOMAIN f /\ s.id \in DOMAIN g /\ f[s.id].pred = s.pred
    BY <2>1 DEF Reading, Grown
  <2>3. f[s.id] \in LogFile /\ g[s.id] \in LogFile
    BY <2>2
  <2> PICK a \in History, b \in History : a = f[s.id].records /\ b = g[s.id].records
    BY <2>3 DEF LogFile
  <2>4. Begins(a, b) /\ g[s.id].pred = f[s.id].pred
    BY <2>2 DEF Grown
  <2>5. s.pred \in History /\ s.last \in History
    BY DEF Descriptor
  <2>6. /\ Begins(s.pred, a) /\ Begins(s.last, a)
        /\ Len(c) \in Len(s.pred) + 1 .. Len(s.last) => Begins(c, a)
    BY <2>1 DEF Reading
  <2>7. /\ Begins(s.pred, b) /\ Begins(s.last, b)
        /\ Len(c) \in Len(s.pred) + 1 .. Len(s.last) => Begins(c, b)
    BY <2>4, <2>5, <2>6, BeginsTransitive
  <2> QED
    BY <2>2, <2>4, <2>7 DEF Reading
<1> QED
  BY <1>0, <1>1, LogsMean

-----------------------------------------------------------------------------
(* The shortcut.                                                           *)

(* Validation in the present files.                                        *)
LEMMA LogsArePresent ==
  ASSUME NEW m
  PROVE  ValidateLogs(m) <=> LogsIn(files, m)
BY DEF ValidateLogs, ReadsSuffix, LogsIn, ReadsIn

(* The anchors of a proof: the digests after the checkpoint.               *)
AreAnchors(m, pending) ==
  /\ pending \in Seq(History)
  /\ Len(pending) = Len(m.durable) - Len(m.checkpoint)
  /\ \A i \in 1 .. Len(pending) : pending[i] = Digest(m.durable, Len(m.checkpoint) + i)

(* What is claimed of the logs and of the proof, in every state.           *)
LogInv ==
  /\ bounds \in Scenarios
  /\ files \in Seq(LogFile) /\ manifest \in Manifests
  /\ ValidateLogs(manifest)
  /\ proof.some =>
       /\ runtime
       /\ proof.manifest \in Manifests /\ proof.manifest.generation <= manifest.generation
       /\ proof.manifest = manifest => AreAnchors(manifest, proof.pending)

(* An anchor that the proof knows is in the acknowledged log.              *)
LEMMA KnownAnchorBegins ==
  ASSUME LogInv, proof.some, NEW m \in Manifests, Continues(manifest, m),
         m.checkpoint = KnownAnchor(manifest, m), Len(m.checkpoint) <= Len(manifest.durable)
  PROVE  Begins(m.checkpoint, manifest.durable)
<1> PICK c \in History, o \in History, d \in History :
      c = m.checkpoint /\ o = manifest.checkpoint /\ d = manifest.durable
  BY DEF Manifests, LogInv
<1>1. Len(c) \in Nat /\ Len(o) \in Nat /\ Len(d) \in Nat /\ Len(c) >= Len(o) /\ Len(c) <= Len(d)
  BY DEF History, Continues
<1>2. Begins(o, d)
  BY LogsArePresent, ValidLogIsChain DEF LogInv
<1>3. CASE Len(c) = Len(o)
  <2>1. c = o
    BY <1>1, <1>3 DEF KnownAnchor
  <2> QED
    BY <1>2, <2>1
<1>4. CASE Len(c) # Len(o)
  <2>0. Len(c) - Len(o) \in Nat /\ Len(c) > Len(o)
    BY ONLY <1>1, <1>4
  <2> PICK i : i = Len(c) - Len(o)
    OBVIOUS
  <2>1. c = proof.pending[i]
    <3>1. c = IF Len(c) > Len(d) THEN c ELSE IF Len(c) = Len(o) THEN o ELSE proof.pending[i]
      BY DEF KnownAnchor
    <3> QED
      BY ONLY <1>1, <1>4, <3>1
  <2>2. AreAnchors(manifest, proof.pending)
    BY DEF LogInv, Continues
  <2>3. i \in 1 .. Len(proof.pending) /\ Len(o) + i = Len(c)
    BY <1>1, <2>0, <2>2 DEF AreAnchors
  <2>4. c = Digest(d, Len(c))
    BY <2>1, <2>2, <2>3 DEF AreAnchors
  <2>5. Len(c) \in 0 .. Len(d)
    BY <1>1
  <2> QED
    BY <2>4, <2>5, DigestBegins
<1> QED
  BY <1>3, <1>4

(* What an accepted extension has passed.                                  *)
LEMMA AcceptedMeans ==
  ASSUME NEW m, ValidateExtension(manifest, m).verdict = "accepted"
  PROVE  /\ ValidateManifest(m) /\ Continues(manifest, m)
         /\ m.checkpoint = KnownAnchor(manifest, m)
         /\ Len(m.durable) = Len(manifest.durable) => m.durable = manifest.durable
         /\ SegmentsExtend(manifest, m) /\ ReadsExtension(manifest, m)
         /\ ValidateExtension(manifest, m).proof = Proof(m, PendingAfter(manifest, m))
<1>1. Refused.verdict = "refused" /\ Full.verdict = "full"
  BY DEF Refused, Full
<1> QED
  BY <1>1 DEF ValidateExtension

(* Nothing but a failed check refuses an extension.                        *)
LEMMA RefusedMeans ==
  ASSUME NEW m, ValidateManifest(m), ValidateExtension(manifest, m).verdict = "refused"
  PROVE  /\ Continues(manifest, m)
         /\ \/ Len(m.durable) = Len(manifest.durable) /\ m.durable # manifest.durable
            \/ m.checkpoint # KnownAnchor(manifest, m)
            \/ SegmentsExtend(manifest, m) /\ ~ReadsExtension(manifest, m)
<1>1. Refused.verdict = "refused" /\ Full.verdict = "full"
  BY DEF Refused, Full
<1> QED
  BY <1>1 DEF ValidateExtension

(* Reading only what the proof does not cover reads enough.                *)
LEMMA ExtensionReadsEnough ==
  ASSUME LogInv, proof.some, NEW m \in Manifests, ValidateManifest(m), Continues(manifest, m),
         m.checkpoint = KnownAnchor(manifest, m), SegmentsExtend(manifest, m),
         ReadsExtension(manifest, m)
  PROVE  LogsIn(files, m)
<1> PICK c \in History, d \in History, n \in Nat, k \in Nat,
        olds \in Seq(Descriptor), news \in Seq(Descriptor) :
      /\ c = m.checkpoint /\ d = manifest.durable
      /\ olds = manifest.segments /\ n = Len(olds) /\ news = m.segments /\ k = Len(news)
  BY DEF Manifests, LogInv
<1>0. /\ LogsIn(files, manifest) /\ ValidateManifest(manifest)
      /\ files \in Seq(LogFile) /\ manifest \in Manifests
  BY LogsArePresent DEF LogInv, LogsIn
<1>1. \A i \in 1 .. n :
        /\ olds[i].pred \in History /\ olds[i].last \in History
        /\ Len(olds[i].pred) \in Nat /\ Len(olds[i].last) \in Nat
        /\ Reading(files, manifest.checkpoint, olds[i], olds[i].pred)
        /\ Begins(olds[i].pred, d) /\ Begins(olds[i].last, d)
  BY <1>0, ManifestLengths, LogsMean, ValidLogIsChain
<1>2. /\ \A i \in 1 .. k :
           /\ news[i] \in Descriptor /\ news[i].pred \in History /\ news[i].last \in History
           /\ Len(news[i].pred) \in Nat /\ Len(news[i].last) \in Nat
           /\ Len(news[i].pred) < Len(news[i].last)
      /\ DOMAIN news = 1 .. k
  BY ManifestLengths
<1>3. Len(c) \in Nat /\ Len(d) \in Nat /\ (n > 0 => olds[n].last = d)
  BY <1>0 DEF History, ValidateManifest
<1>4. Len(c) <= Len(d) => Begins(c, d)
  BY KnownAnchorBegins
<1>5. \A g : g \in Descriptor /\ g.id \in DOMAIN files => files[g.id].records \in History
  <2>1. \A i \in DOMAIN files : files[i] \in LogFile
    BY <1>0
  <2> QED
    BY <2>1 DEF LogFile
<1>6. /\ k \in n .. n + 1
      /\ \A i \in 1 .. n - 1 : news[i] = olds[i]
      /\ n > 0 /\ news[n] # olds[n] =>
           /\ news[n].id = olds[n].id /\ news[n].pred = olds[n].pred
           /\ Len(news[n].last) > Len(olds[n].last)
  BY DEF SegmentsExtend
<1>7. \A i \in 1 .. k :
        \/ i <= n /\ news[i] = olds[i]
        \/ /\ i > n => news[i].pred = Reached(manifest, m, i)
           /\ ReadsIn(files, m, news[i], Reached(manifest, m, i))
  BY <1>2 DEF ReadsExtension, ReadsSuffix, ReadsIn
<1>8. ASSUME NEW i \in 1 .. k
      PROVE  Reading(files, c, news[i], news[i].pred)
  <2>1. CASE i <= n /\ news[i] = olds[i]
    <3> PICK g \in Descriptor : g = news[i]
      BY <1>2
    <3> PICK R : R = files[g.id].records
      OBVIOUS
    <3>1. g.pred \in History /\ g.last \in History /\ Len(g.pred) \in Nat /\ Len(g.last) \in Nat
      BY <1>2
    <3>2. Reading(files, manifest.checkpoint, g, g.pred) /\ Begins(g.last, d)
      BY <1>1, <2>1
    <3>3. R \in History
      BY <1>5, <3>2 DEF Reading
    <3>4. Len(c) <= Len(g.last) => Begins(c, R)
      <4>1. SUFFICES ASSUME Len(c) <= Len(g.last)
                     PROVE  Begins(c, R)
        OBVIOUS
      <4>2. Begins(c, d)
        BY <1>3, <1>4, <3>1, <3>2, <4>1 DEF Begins
      <4>3. Begins(c, g.last)
        BY <3>1, <3>2, <4>1, <4>2, BothBegin
      <4>4. Begins(g.last, R)
        BY <3>2 DEF Reading
      <4> QED
        BY <3>1, <3>3, <4>3, <4>4, BeginsTransitive
    <3> QED
      BY <1>3, <3>1, <3>2, <3>4 DEF Reading
  <2>2. CASE i <= n /\ news[i] # olds[i]
    <3> PICK g \in Descriptor : g = news[i]
      BY <1>2
    <3> PICK R : R = files[g.id].records
      OBVIOUS
    <3>1. g.pred \in History /\ g.last \in History /\ Len(g.pred) \in Nat /\ Len(g.last) \in Nat
      BY <1>2
    <3>2. i = n /\ n > 0
      BY <1>6, <2>2
    <3>3. g.pred = olds[n].pred /\ Len(g.last) > Len(d)
      BY <1>3, <1>6, <2>2, <3>2
    <3>4. Begins(g.pred, d)
      BY <1>1, <3>2, <3>3
    <3>5. Reached(manifest, m, i) = d
      BY <3>2 DEF Reached
    <3>6. ReadsIn(files, m, g, d)
      BY <1>7, <2>2, <3>5
    <3>7. Reading(files, c, g, d)
      BY <1>0, <1>3, <3>1, <3>3, <3>6, ReadsMean
    <3>8. R \in History
      BY <1>5, <3>7 DEF Reading
    <3>9. Begins(g.pred, R)
      BY <3>1, <3>4, <3>7, <3>8, BeginsTransitive DEF Reading
    <3>10. Len(c) <= Len(g.last) => Begins(c, R)
      <4>1. CASE Len(c) <= Len(d)
        BY <1>4, <3>7, <3>8, <4>1, BeginsTransitive DEF Reading
      <4>2. CASE Len(c) > Len(d)
        BY <1>3, <3>1, <3>7, <4>2 DEF Reading
      <4> QED
        BY <1>3, <4>1, <4>2
    <3> QED
      BY <1>3, <3>1, <3>7, <3>9, <3>10 DEF Reading
  <2>3. CASE i > n
    <3> PICK g \in Descriptor, p \in History : g = news[i] /\ p = news[i].pred
      BY <1>2
    <3>1. ReadsIn(files, m, g, p)
      <4>1. g.pred = Reached(manifest, m, i) /\ ReadsIn(files, m, g, Reached(manifest, m, i))
        BY <1>7, <2>3
      <4> QED
        BY <4>1
    <3>2. Len(p) <= Len(g.last)
      BY <1>2
    <3>3. Reading(files, c, g, p)
      BY <1>0, <3>1, <3>2, ReadsMean
    <3> QED
      BY <3>3
  <2> QED
    BY <2>1, <2>2, <2>3
<1> QED
  BY <1>0, <1>8, LogsMean

(* What is accepted continues the acknowledged log.                        *)
LEMMA ExtensionContinues ==
  ASSUME LogInv, proof.some, NEW m \in Manifests, LogsIn(files, m),
         SegmentsExtend(manifest, m), ReadsExtension(manifest, m)
  PROVE  Begins(manifest.durable, m.durable)
<1> PICK d \in History, e \in History, n \in Nat, k \in Nat,
        olds \in Seq(Descriptor), news \in Seq(Descriptor) :
      /\ d = manifest.durable /\ e = m.durable
      /\ olds = manifest.segments /\ n = Len(olds) /\ news = m.segments /\ k = Len(news)
  BY DEF Manifests, LogInv
<1>0. /\ ValidateManifest(manifest) /\ ValidateManifest(m)
      /\ files \in Seq(LogFile) /\ manifest \in Manifests
  BY LogsArePresent DEF LogInv, LogsIn
<1>1. /\ \A i \in 1 .. k :
           /\ news[i] \in Descriptor /\ news[i].pred \in History /\ news[i].last \in History
           /\ Len(news[i].pred) \in Nat /\ Len(news[i].last) \in Nat
           /\ Begins(news[i].pred, e) /\ Begins(news[i].last, e)
      /\ DOMAIN news = 1 .. k
  BY <1>0, ManifestLengths, ValidLogIsChain
<1>2. Len(d) \in Nat /\ (n > 0 => olds[n].last = d)
  BY <1>0 DEF History, ValidateManifest
<1>3. /\ k \in n .. n + 1
      /\ \A i \in 1 .. n - 1 : news[i] = olds[i]
      /\ n > 0 /\ news[n] # olds[n] => Len(news[n].last) > Len(olds[n].last)
  BY DEF SegmentsExtend
<1>4. \A i \in 1 .. k :
        \/ i <= n /\ news[i] = olds[i]
        \/ /\ i > n => news[i].pred = Reached(manifest, m, i)
           /\ ReadsIn(files, m, news[i], Reached(manifest, m, i))
  BY <1>1 DEF ReadsExtension, ReadsSuffix, ReadsIn
<1>5. CASE n > 0 /\ news[n] # olds[n]
  <2>1. n \in 1 .. k
    BY <1>3, <1>5
  <2> PICK g \in Descriptor : g = news[n]
    BY <1>1, <2>1
  <2> PICK R : R = files[g.id].records
    OBVIOUS
  <2>2. ReadsIn(files, m, g, d)
    BY <1>4, <1>5, <2>1 DEF Reached
  <2>3. Len(d) < Len(g.last) /\ g.last \in History /\ Begins(g.last, e) /\ Len(g.last) \in Nat
    BY <1>1, <1>2, <1>3, <1>5, <2>1
  <2>4. Reading(files, m.checkpoint, g, d)
    BY <1>0, <1>2, <2>2, <2>3, ReadsMean
  <2>5. g.id \in DOMAIN files
    BY <2>4 DEF Reading
  <2>6. files[g.id] \in LogFile
    BY <1>0, <2>5
  <2>7. R \in History
    BY <2>6 DEF LogFile
  <2>8. Begins(d, g.last)
    BY <1>2, <2>3, <2>4, <2>7, BothBegin DEF Reading
  <2> QED
    BY <2>3, <2>8, BeginsTransitive
<1>6. CASE ~(n > 0 /\ news[n] # olds[n]) /\ k = n + 1
  <2>1. k \in 1 .. k /\ k > n
    BY <1>6
  <2>2. news[k].pred = Reached(manifest, m, k)
    BY <1>4, <2>1
  <2>3. Reached(manifest, m, k) = d
    <3>1. CASE n = 0
      BY <1>6, <3>1 DEF Reached
    <3>2. CASE n > 0
      BY <1>2, <1>6, <3>2 DEF Reached
    <3> QED
      BY <3>1, <3>2
  <2> QED
    BY <1>1, <2>1, <2>2, <2>3
<1>7. CASE ~(n > 0 /\ news[n] # olds[n]) /\ k = n
  <2>1. \A i \in 1 .. n : news[i] = olds[i]
    BY <1>3, <1>7
  <2>2. news = olds
    BY <1>7, <2>1, SeqEqual
  <2>3. e = d
    BY <2>2 DEF ReadsExtension
  <2> QED
    BY <2>3, BeginsItself
<1> QED
  BY <1>3, <1>5, <1>6, <1>7

(* The shortcut accepts nothing that full validation refuses.              *)
LEMMA AcceptedIsFull ==
  ASSUME LogInv, proof.some, NEW m \in Manifests,
         ValidateExtension(manifest, m).verdict = "accepted"
  PROVE  FullyValid(m)
<1>0. /\ ValidateManifest(m) /\ Continues(manifest, m) /\ m.checkpoint = KnownAnchor(manifest, m)
      /\ SegmentsExtend(manifest, m) /\ ReadsExtension(manifest, m)
  BY AcceptedMeans
<1> PICK c \in History, o \in History, d \in History, e \in History :
      /\ c = m.checkpoint /\ o = manifest.checkpoint
      /\ d = manifest.durable /\ e = m.durable
  BY DEF Manifests, LogInv
<1>1. files \in Seq(LogFile) /\ manifest \in Manifests /\ LogsIn(files, manifest)
  BY LogsArePresent DEF LogInv
<1>2. LogsIn(files, m)
  BY <1>0, ExtensionReadsEnough
<1>3. Begins(d, e)
  BY <1>0, <1>2, ExtensionContinues
<1>4. /\ Len(c) \in Nat /\ Len(o) \in Nat /\ Len(d) \in Nat /\ Len(e) \in Nat
      /\ manifest.floor \in Nat /\ manifest.floor <= Len(o) + 1 /\ Len(o) <= Len(d)
      /\ m.floor = manifest.floor
  BY <1>0, <1>1, ManifestLengths DEF History, LogsIn, Continues
<1>5. ASSUME Len(e) > Len(d)
      PROVE  ValidateLogs([m EXCEPT !.checkpoint = d])
  <2> PICK x : x = [m EXCEPT !.checkpoint = d]
    OBVIOUS
  <2>1. x \in Manifests /\ SameLog(m, x) /\ x.checkpoint = d
    BY DEF Manifests, SameLog
  <2>2. m.segments # <<>>
    <3>1. SUFFICES ASSUME Len(m.segments) = 0
                   PROVE  FALSE
      OBVIOUS
    <3>2. m.floor = Len(e) + 1
      BY <1>0, <3>1 DEF ValidateManifest
    <3> QED
      BY <1>4, <1>5, <3>2
  <2>3. m.floor <= Len(d) + 1
    BY <1>4
  <2>4. LogsIn(files, x)
    BY <1>1, <1>2, <1>3, <2>1, <2>2, <2>3, AnyCheckpointIsValid
  <2> QED
    BY <2>4, LogsArePresent
<1>6. ASSUME Len(c) \in Len(o) + 1 .. Len(d)
      PROVE  ValidateLogs([manifest EXCEPT !.checkpoint = c])
  <2> PICK x : x = [manifest EXCEPT !.checkpoint = c]
    OBVIOUS
  <2>1. x \in Manifests /\ SameLog(manifest, x) /\ x.checkpoint = c
    BY <1>1 DEF Manifests, SameLog
  <2>2. manifest.segments # <<>>
    <3>1. SUFFICES ASSUME Len(manifest.segments) = 0
                   PROVE  FALSE
      OBVIOUS
    <3>2. o = d
      BY <1>1, <3>1 DEF ValidateManifest, LogsIn
    <3> QED
      BY <1>4, <1>6, <3>2
  <2>3. manifest.floor <= Len(c) + 1 /\ Len(c) <= Len(d)
    BY <1>4, <1>6
  <2>4. Begins(c, d)
    BY <1>0, <2>3, KnownAnchorBegins
  <2>5. LogsIn(files, x)
    BY <1>1, <2>1, <2>2, <2>3, <2>4, AnyCheckpointIsValid
  <2> QED
    BY <2>5, LogsArePresent
<1>7. ValidateAnchors(manifest, m)
  BY <1>5, <1>6 DEF ValidateAnchors
<1> QED
  BY <1>2, <1>7, LogsArePresent DEF FullyValid

(* What full validation accepts continues the acknowledged log and has its *)
(* checkpoint in it.                                                       *)
LEMMA FullContinues ==
  ASSUME LogInv, NEW m \in Manifests, ValidateTransition(manifest, m), FullyValid(m)
  PROVE  Begins(manifest.durable, m.durable) /\ Begins(m.checkpoint, m.durable)
<1> PICK d \in History, e \in History : d = manifest.durable /\ e = m.durable
  BY DEF Manifests, LogInv
<1>1. files \in Seq(LogFile) /\ manifest \in Manifests /\ LogsIn(files, m)
  BY LogsArePresent DEF LogInv, FullyValid
<1>2. Len(d) \in Nat /\ Len(e) \in Nat /\ Len(d) <= Len(e) /\ (Len(e) = Len(d) => e = d)
  BY DEF History, ValidateTransition
<1>3. Begins(m.checkpoint, e)
  BY <1>1, ValidLogIsChain
<1>4. CASE Len(e) = Len(d)
  BY <1>2, <1>3, <1>4, BeginsItself
<1>5. CASE Len(e) > Len(d)
  <2> PICK x : x = [m EXCEPT !.checkpoint = d]
    OBVIOUS
  <2>1. x \in Manifests /\ x.checkpoint = d /\ x.durable = e
    BY DEF Manifests
  <2>2. LogsIn(files, x)
    BY <1>5, LogsArePresent DEF FullyValid, ValidateAnchors
  <2> QED
    BY <1>1, <1>3, <2>1, <2>2, ValidLogIsChain
<1> QED
  BY <1>2, <1>4, <1>5

(* What full validation accepts is read as the shortcut reads it.          *)
LEMMA FullReadsExtension ==
  ASSUME LogInv, NEW m \in Manifests, ValidateTransition(manifest, m), FullyValid(m),
         Continues(manifest, m), SegmentsExtend(manifest, m)
  PROVE  ReadsExtension(manifest, m)
<1> PICK c \in History, d \in History, e \in History, n \in Nat, k \in Nat,
        olds \in Seq(Descriptor), news \in Seq(Descriptor) :
      /\ c = m.checkpoint /\ d = manifest.durable /\ e = m.durable
      /\ olds = manifest.segments /\ n = Len(olds) /\ news = m.segments /\ k = Len(news)
  BY DEF Manifests, LogInv
<1>0. /\ LogsIn(files, m) /\ ValidateManifest(m) /\ LogsIn(files, manifest)
      /\ ValidateManifest(manifest) /\ files \in Seq(LogFile) /\ manifest \in Manifests
  BY LogsArePresent DEF LogInv, FullyValid, LogsIn
<1>1. /\ \A i \in 1 .. k :
           /\ news[i] \in Descriptor /\ news[i].pred \in History /\ news[i].last \in History
           /\ Len(news[i].pred) \in Nat /\ Len(news[i].last) \in Nat
           /\ Len(news[i].pred) < Len(news[i].last)
           /\ ValidSegment(m, i)
      /\ DOMAIN news = 1 .. k
  BY <1>0, ManifestLengths
<1>2. \A i \in 1 .. k :
        /\ Reading(files, c, news[i], news[i].pred)
        /\ Begins(news[i].pred, e) /\ Begins(news[i].last, e)
  BY <1>0, LogsMean, ValidLogIsChain
<1>3. /\ Len(c) \in Nat /\ Len(d) \in Nat /\ Len(e) \in Nat
      /\ n > 0 => olds[n].last = d /\ Len(olds[n].pred) < Len(d) /\ Len(olds[n].pred) \in Nat
  <2>1. n > 0 => n \in 1 .. n
    OBVIOUS
  <2>2. n > 0 => Len(olds[n].pred) < Len(olds[n].last) /\ Len(olds[n].pred) \in Nat
    BY <1>0, <2>1, ManifestLengths
  <2>3. n > 0 => olds[n].last = d
    BY <1>0 DEF ValidateManifest
  <2> QED
    BY <2>2, <2>3 DEF History
<1>4. Begins(d, e) /\ (Len(e) = Len(d) => e = d)
  BY FullContinues DEF ValidateTransition
<1>5. /\ k \in n .. n + 1
      /\ \A i \in 1 .. n - 1 : news[i] = olds[i]
      /\ n > 0 /\ news[n] # olds[n] =>
           news[n].pred = olds[n].pred /\ Len(news[n].last) > Len(olds[n].last)
  BY DEF SegmentsExtend
<1>6. m.floor = manifest.floor /\ m.floor \in Nat
  BY DEF Continues, Manifests
<1>7. ASSUME NEW i \in 1 .. k
      PROVE  \/ i <= n /\ news[i] = olds[i]
             \/ /\ i > n => news[i].pred = Reached(manifest, m, i)
                /\ ReadsSuffix(m, news[i], Reached(manifest, m, i))
  <2>1. CASE i <= n /\ news[i] # olds[i]
    <3> PICK g \in Descriptor : g = news[i]
      BY <1>1
    <3> PICK R : R = files[g.id].records
      OBVIOUS
    <3>1. i = n /\ n > 0
      BY <1>5, <2>1
    <3>2. /\ g.pred \in History /\ g.last \in History /\ Len(g.pred) \in Nat /\ Len(g.last) \in Nat
          /\ Len(g.pred) < Len(d) /\ Len(d) < Len(g.last)
      BY <1>1, <1>3, <1>5, <2>1, <3>1
    <3>3. Reading(files, c, g, g.pred) /\ Begins(g.last, e)
      BY <1>2
    <3>4. files[g.id] \in LogFile
      BY <1>0, <3>3 DEF Reading
    <3>5. R \in History
      BY <3>4 DEF LogFile
    <3>6. Begins(d, g.last)
      BY <1>3, <1>4, <3>2, <3>3, BothBegin
    <3>7. Begins(d, R)
      BY <3>2, <3>3, <3>5, <3>6, BeginsTransitive DEF Reading
    <3>8. Reading(files, c, g, d)
      BY <1>3, <3>2, <3>3, <3>7 DEF Reading
    <3>9. ReadsIn(files, m, g, d)
      BY <1>0, <1>3, <3>2, <3>8, ReadsMean
    <3>10. Reached(manifest, m, i) = d
      BY <3>1 DEF Reached
    <3> QED
      BY <3>1, <3>9, <3>10 DEF ReadsIn, ReadsSuffix
  <2>2. CASE i > n
    <3>1. i = n + 1 /\ i = k
      BY <1>5, <2>2
    <3>2. news[i].pred = Reached(manifest, m, i)
      <4>1. CASE i > 1
        BY <1>1, <2>2, <4>1 DEF ValidSegment, Reached
      <4>2. CASE i = 1
        <5>1. n = 0
          BY <3>1, <4>2
        <5>2. manifest.floor = Len(d) + 1
          BY <1>0, <5>1 DEF ValidateManifest
        <5>3. Len(news[1].pred) = m.floor - 1
          BY <1>1, <4>2 DEF ValidSegment
        <5>4. Len(news[1].pred) = Len(d)
          BY <1>3, <1>6, <5>2, <5>3
        <5>5. news[1].pred \in History /\ Begins(news[1].pred, e)
          BY <1>1, <1>2, <4>2
        <5>6. Begins(news[1].pred, d)
          BY <1>3, <1>4, <5>4, <5>5, BothBegin
        <5>7. news[1].pred = d
          BY <5>4, <5>5, <5>6, SameBeginning
        <5> QED
          BY <4>2, <5>7 DEF Reached
      <4> QED
        BY <4>1, <4>2
    <3>3. ReadsIn(files, m, news[i], news[i].pred)
      BY <1>0, <1>1 DEF LogsIn
    <3> QED
      BY <3>2, <3>3 DEF ReadsIn, ReadsSuffix
  <2> QED
    BY <2>1, <2>2
<1>8. IF news = olds THEN e = d ELSE news[k].last = e
  <2>1. CASE k = 0
    <3>1. n = 0
      BY <1>5, <2>1
    <3>2. m.floor = Len(e) + 1 /\ manifest.floor = Len(d) + 1
      BY <1>0, <2>1, <3>1 DEF ValidateManifest
    <3>3. news = <<>> /\ olds = <<>>
      BY <2>1, <3>1, EmptySeq
    <3>4. Len(e) = Len(d)
      <4>1. Len(e) + 1 = Len(d) + 1
        BY ONLY <1>6, <3>2
      <4>2. Len(e) \in Nat /\ Len(d) \in Nat
        BY <1>3
      <4> QED
        BY ONLY <4>1, <4>2
    <3> QED
      BY ONLY <1>4, <3>3, <3>4
  <2>2. CASE k > 0
    <3>1. news[k].last = e
      BY <1>0, <2>2 DEF ValidateManifest
    <3> QED
      BY <1>3, <2>2, <3>1
  <2> QED
    BY <2>1, <2>2
<1> QED
  BY <1>1, <1>7, <1>8 DEF ReadsExtension

(* The shortcut refuses nothing that full validation accepts.              *)
LEMMA FullIsNotRefused ==
  ASSUME LogInv, proof.some, NEW m \in Manifests, ValidateTransition(manifest, m), FullyValid(m)
  PROVE  ValidateExtension(manifest, m).verdict # "refused"
<1> PICK c \in History, o \in History, d \in History :
      c = m.checkpoint /\ o = manifest.checkpoint /\ d = manifest.durable
  BY DEF Manifests, LogInv
<1>1. SUFFICES ASSUME ValidateExtension(manifest, m).verdict = "refused"
               PROVE  FALSE
  OBVIOUS
<1>2. ValidateManifest(m) /\ files \in Seq(LogFile) /\ manifest \in Manifests
  BY DEF LogInv, FullyValid, ValidateLogs
<1>3. /\ Continues(manifest, m)
      /\ \/ Len(m.durable) = Len(manifest.durable) /\ m.durable # manifest.durable
         \/ m.checkpoint # KnownAnchor(manifest, m)
         \/ SegmentsExtend(manifest, m) /\ ~ReadsExtension(manifest, m)
  BY <1>1, <1>2, RefusedMeans
<1>4. Len(m.durable) = Len(manifest.durable) => m.durable = manifest.durable
  BY DEF ValidateTransition
<1>5. SegmentsExtend(manifest, m) => ReadsExtension(manifest, m)
  BY <1>3, FullReadsExtension
<1>6. c = KnownAnchor(manifest, m)
  <2>1. Len(c) \in Nat /\ Len(o) \in Nat /\ Len(d) \in Nat /\ Len(c) >= Len(o)
    BY <1>3 DEF History, Continues
  <2>2. CASE Len(c) > Len(d) \/ Len(c) = Len(o)
    BY <2>2 DEF KnownAnchor, ValidateTransition
  <2>3. CASE ~(Len(c) > Len(d)) /\ Len(c) # Len(o)
    <3>0. Len(c) - Len(o) \in Nat /\ Len(c) > Len(o) /\ Len(c) <= Len(d)
      BY ONLY <2>1, <2>3
    <3> PICK i : i = Len(c) - Len(o)
      OBVIOUS
    <3> PICK x : x = [manifest EXCEPT !.checkpoint = c]
      OBVIOUS
    <3>1. x \in Manifests /\ x.checkpoint = c /\ x.durable = d
      BY <1>2 DEF Manifests
    <3>2. LogsIn(files, x)
      BY <2>1, <3>0, LogsArePresent DEF FullyValid, ValidateAnchors
    <3>3. Begins(c, d)
      BY <1>2, <3>1, <3>2, ValidLogIsChain
    <3>4. Digest(d, Len(c)) = c
      BY <3>0, <3>3, DigestMeans
    <3>5. AreAnchors(manifest, proof.pending)
      BY <1>3 DEF LogInv, Continues
    <3>6. i \in 1 .. Len(proof.pending) /\ Len(o) + i = Len(c)
      BY <2>1, <3>0, <3>5 DEF AreAnchors
    <3>7. proof.pending[i] = c
      BY <3>4, <3>5, <3>6 DEF AreAnchors
    <3>8. KnownAnchor(manifest, m) =
            IF Len(c) > Len(d) THEN c ELSE IF Len(c) = Len(o) THEN o ELSE proof.pending[i]
      BY DEF KnownAnchor
    <3> QED
      BY ONLY <2>3, <3>7, <3>8
  <2> QED
    BY <2>2, <2>3
<1> QED
  BY <1>3, <1>4, <1>5, <1>6

-----------------------------------------------------------------------------
(* The manifests that a caller may ask for.                                *)

(* The bounded histories are histories.                                    *)
LEMMA HistoriesAreHistory ==
  ASSUME LogInv, NEW h \in Histories
  PROVE  h \in History
<1>1. MaxSequence \in Nat
  BY LogScenarios DEF LogInv, MaxSequence
<1>2. PICK n \in 0 .. MaxSequence : h \in [1 .. n -> Contents]
  BY DEF Histories
<1>3. n \in Nat
  BY <1>1
<1> QED
  BY <1>2, <1>3 DEF History

(* Dropping, extending and adding descriptors gives descriptors.           *)
LEMMA ExtendedSegments ==
  ASSUME LogInv, NEW dropped \in Dropped, NEW segments \in Extended(dropped)
  PROVE  segments \in Seq(Descriptor)
<1>0. manifest.segments \in Seq(Descriptor) /\ files \in Seq(LogFile)
  BY DEF LogInv, Manifests
<1>1. dropped \in Seq(Descriptor)
  <2> PICK seg \in Seq(Descriptor) : seg = manifest.segments
    BY <1>0
  <2>1. PICK n \in 1 .. Len(seg) + 1 : dropped = SubSeq(seg, n, Len(seg))
    BY DEF Dropped
  <2>2. Len(seg) \in n - 1 .. Len(seg)
    BY <2>1
  <2> QED
    BY <2>1, <2>2, SubSeqProperties
<1>2. \/ segments = dropped
      \/ \E h \in Histories : dropped # <<>> /\ segments = [dropped EXCEPT ![Len(dropped)].last = h]
      \/ \E id \in DOMAIN files, h \in Histories :
           segments = Append(dropped, Segment(id, files[id].pred, h))
  BY DEF Extended
<1>3. ASSUME NEW h \in Histories, dropped # <<>>,
             segments = [dropped EXCEPT ![Len(dropped)].last = h]
      PROVE  segments \in Seq(Descriptor)
  <2>1. h \in History
    BY HistoriesAreHistory
  <2>2. Len(dropped) \in 1 .. Len(dropped)
    BY <1>1, <1>3, EmptySeq
  <2> PICK g \in Descriptor : g = dropped[Len(dropped)]
    BY <1>1, <2>2
  <2>3. [g EXCEPT !.last = h] \in Descriptor
    BY <2>1 DEF Descriptor
  <2>4. segments = [dropped EXCEPT ![Len(dropped)] = [g EXCEPT !.last = h]]
    BY <1>3
  <2> QED
    BY <1>1, <2>2, <2>3, <2>4
<1>4. ASSUME NEW id \in DOMAIN files, NEW h \in Histories,
             segments = Append(dropped, Segment(id, files[id].pred, h))
      PROVE  segments \in Seq(Descriptor)
  <2>1. h \in History
    BY HistoriesAreHistory
  <2>2. files[id] \in LogFile /\ id \in Nat
    BY <1>0
  <2>3. Segment(id, files[id].pred, h) \in Descriptor
    BY <2>1, <2>2 DEF Segment, Descriptor, LogFile
  <2> QED
    BY <1>1, <1>4, <2>3
<1> QED
  BY <1>1, <1>2, <1>3, <1>4

(* The manifests a caller may ask for.                                     *)
Candidates == UNION {WithSegments(segments) : segments \in Proposals}

(* Whatever is made of proposed segments may be asked for.                 *)
LEMMA ProposedIsCandidate ==
  ASSUME NEW segments \in Proposals, NEW candidate \in WithSegments(segments)
  PROVE  candidate \in Candidates
BY DEF Candidates

(* Whatever a caller asks for is a manifest.                               *)
LEMMA CandidatesAreManifests ==
  ASSUME LogInv, NEW candidate \in Candidates
  PROVE  candidate \in Manifests
<1>0. PICK dropped \in Dropped : \E segments \in Extended(dropped) : candidate \in WithSegments(segments)
  BY DEF Candidates, Proposals
<1>1. PICK segments \in Extended(dropped) : candidate \in WithSegments(segments)
  BY <1>0
<1>2. segments \in Seq(Descriptor)
  BY ExtendedSegments
<1>3. manifest \in Manifests /\ files \in Seq(LogFile)
  BY DEF LogInv
<1> DEFINE end == IF segments = <<>> THEN manifest.durable ELSE segments[Len(segments)].last
           floor == IF segments = <<>> THEN Len(end) + 1 ELSE Len(segments[1].pred) + 1
           after == IF Len(files) + 1 > manifest.next THEN Len(files) + 1 ELSE manifest.next
<1>4. end \in History
  <2>1. CASE segments = <<>>
    BY <1>3, <2>1 DEF Manifests
  <2>2. CASE segments # <<>>
    <3>1. Len(segments) \in 1 .. Len(segments)
      BY <1>2, <2>2, EmptySeq
    <3>2. segments[Len(segments)] \in Descriptor
      BY <1>2, <3>1
    <3> QED
      BY <2>2, <3>2 DEF Descriptor
  <2> QED
    BY <2>1, <2>2
<1>5. floor \in Nat
  <2>1. CASE segments = <<>>
    BY <1>4, <2>1 DEF History
  <2>2. CASE segments # <<>>
    <3>1. 1 \in 1 .. Len(segments)
      BY <1>2, <2>2, EmptySeq
    <3>2. segments[1] \in Descriptor
      BY <1>2, <3>1
    <3>3. segments[1].pred \in History
      BY <3>2 DEF Descriptor
    <3> QED
      BY <2>2, <3>3 DEF History
  <2> QED
    BY <2>1, <2>2
<1>6. after \in Nat
  BY <1>3 DEF Manifests
<1>7. PICK checkpoint \in Histories :
        candidate = [manifest EXCEPT !.segments = segments, !.durable = end,
                       !.checkpoint = checkpoint, !.floor = floor, !.next = after]
  BY <1>1 DEF WithSegments
<1>8. checkpoint \in History
  BY HistoriesAreHistory
<1> HIDE DEF end, floor, after
<1> QED
  BY <1>2, <1>3, <1>4, <1>5, <1>6, <1>7, <1>8 DEF Manifests

(* The manifest that publish selects is the caller's, with the generation  *)
(* after the one that is selected.                                         *)
LEMMA NumberedIsManifest ==
  ASSUME LogInv, NEW candidate \in Manifests
  PROVE  /\ Numbered(candidate) \in Manifests
         /\ Numbered(candidate).generation = manifest.generation + 1
         /\ ValidateTransition(manifest, candidate) => ValidateTransition(manifest, Numbered(candidate))
<1> PICK x : x = Numbered(candidate)
  OBVIOUS
<1>1. manifest.generation \in Nat
  BY DEF LogInv, Manifests
<1>2. /\ x \in Manifests /\ x.generation = manifest.generation + 1
      /\ x.namespace = candidate.namespace /\ x.checkpoint = candidate.checkpoint
      /\ x.durable = candidate.durable /\ x.floor = candidate.floor /\ x.next = candidate.next
      /\ x.segments = candidate.segments
  BY <1>1 DEF Numbered, Manifests
<1>3. ValidateTransition(manifest, candidate) => ValidateTransition(manifest, x)
  BY <1>2 DEF ValidateTransition
<1> QED
  BY <1>2, <1>3

(* The invariant gives soundness of the shortcut.                          *)
LEMMA InvIsSound ==
  ASSUME LogInv
  PROVE  ShortcutIsSound
<1>1. PendingIsExact
  <2>1. SUFFICES ASSUME proof.some, proof.manifest = manifest
                 PROVE  /\ Len(proof.pending) = Len(manifest.durable) - Len(manifest.checkpoint)
                        /\ \A i \in DOMAIN proof.pending :
                             proof.pending[i] = Digest(manifest.durable, Len(manifest.checkpoint) + i)
    BY DEF PendingIsExact
  <2>2. AreAnchors(manifest, proof.pending)
    BY <2>1 DEF LogInv
  <2> PICK pending : pending = proof.pending
    OBVIOUS
  <2>3. pending \in Seq(History)
    BY <2>2 DEF AreAnchors
  <2>4. DOMAIN pending = 1 .. Len(pending)
    BY <2>3
  <2> QED
    BY <2>2, <2>4 DEF AreAnchors
<1>2. ASSUME NEW candidate \in Candidates, ValidateTransition(manifest, candidate)
      PROVE  DecidesAsFull(Numbered(candidate))
  <2> PICK m : m = Numbered(candidate)
    OBVIOUS
  <2>1. m \in Manifests /\ ValidateTransition(manifest, m)
    BY <1>2, CandidatesAreManifests, NumberedIsManifest
  <2>2. Shortcut(m).verdict = "accepted" => FullyValid(m)
    <3>1. CASE proof.some
      BY <2>1, <3>1, AcceptedIsFull DEF Shortcut
    <3>2. CASE ~proof.some
      BY <3>2 DEF Shortcut, Full
    <3> QED
      BY <3>1, <3>2
  <2>3. Shortcut(m).verdict = "refused" => ~FullyValid(m)
    <3>1. CASE proof.some
      BY <2>1, <3>1, FullIsNotRefused DEF Shortcut
    <3>2. CASE ~proof.some
      BY <3>2 DEF Shortcut, Full
    <3> QED
      BY <3>1, <3>2
  <2>4. FullyValid(m) => IsPrefix(manifest.durable, m.durable) /\ IsPrefix(m.checkpoint, m.durable)
    <3>1. manifest.durable \in History /\ m.durable \in History /\ m.checkpoint \in History
      BY <2>1 DEF LogInv, Manifests
    <3> QED
      BY <2>1, <3>1, FullContinues, BeginsIsPrefix
  <2> QED
    BY <2>2, <2>3, <2>4 DEF DecidesAsFull
<1>3. \A segments \in Proposals : \A candidate \in WithSegments(segments) :
        ValidateTransition(manifest, candidate) => DecidesAsFull(Numbered(candidate))
  BY <1>2, ProposedIsCandidate
<1> QED
  BY <1>1, <1>3 DEF ShortcutIsSound, LogInv

-----------------------------------------------------------------------------
(* Logs that grow, and their anchors.                                      *)

(* The last segment may reach further, as far as its file does.            *)
LEMMA LongerLastSegment ==
  ASSUME NEW f \in Seq(LogFile), NEW m \in Manifests, LogsIn(f, m), NEW x \in Manifests,
         Len(m.segments) > 0,
         x.checkpoint = m.checkpoint, x.floor = m.floor, x.next = m.next,
         Len(x.segments) = Len(m.segments),
         \A i \in 1 .. Len(m.segments) - 1 : x.segments[i] = m.segments[i],
         x.segments[Len(m.segments)].id = m.segments[Len(m.segments)].id,
         x.segments[Len(m.segments)].pred = m.segments[Len(m.segments)].pred,
         x.segments[Len(m.segments)].last = x.durable,
         Begins(m.durable, x.durable),
         Begins(x.durable, f[m.segments[Len(m.segments)].id].records)
  PROVE  LogsIn(f, x)
<1> PICK c \in History, d \in History, e \in History, n \in Nat, lo \in Nat,
        seg \in Seq(Descriptor), new \in Seq(Descriptor) :
      /\ c = m.checkpoint /\ d = m.durable /\ e = x.durable /\ n = Len(m.segments)
      /\ lo = m.floor /\ seg = m.segments /\ new = x.segments
  BY DEF Manifests
<1>0. ValidateManifest(m) /\ Begins(c, d)
  BY ValidLogIsChain DEF LogsIn
<1>1. /\ Len(c) \in Nat /\ Len(d) \in Nat /\ Len(e) \in Nat /\ Len(c) <= Len(d) /\ lo > 0
      /\ lo <= Len(c) + 1 /\ Len(d) <= Len(e)
      /\ \A i \in 1 .. n :
           /\ seg[i] \in Descriptor /\ seg[i].pred \in History /\ seg[i].last \in History
           /\ Len(seg[i].pred) \in Nat /\ Len(seg[i].last) \in Nat
           /\ Len(seg[i].pred) < Len(seg[i].last)
           /\ ValidSegment(m, i)
  BY <1>0, ManifestLengths DEF History, Begins
<1>2. Begins(c, e) /\ (Len(c) = Len(e) => c = e)
  BY <1>0, BeginsTransitive, SameBeginning
<1>3. seg[n].last = d
  BY <1>0 DEF ValidateManifest
<1>4. ASSUME NEW i \in 1 .. n
      PROVE  ValidSegment(x, i)
  <2>1. CASE i < n
    <3>1. new[i] = seg[i] /\ (i > 1 => new[i - 1] = seg[i - 1])
      BY <2>1
    <3> QED
      BY <1>1, <3>1 DEF ValidSegment
  <2>2. CASE i = n
    <3>1. i > 1 => new[i - 1] = seg[i - 1]
      BY <2>2
    <3>2. Len(new[i].last) > Len(new[i].pred) /\ new[i].last = e
      <4>1. Len(seg[i].pred) \in Nat /\ Len(seg[i].pred) < Len(d)
        BY <1>1, <1>3, <2>2
      <4>2. new[i].pred = seg[i].pred /\ new[i].last = e
        BY <2>2
      <4>3. Len(seg[i].pred) < Len(e)
        BY ONLY <1>1, <4>1
      <4> QED
        BY ONLY <4>1, <4>2, <4>3, <1>1
    <3>3. new[i].id = seg[i].id /\ new[i].pred = seg[i].pred
      BY <2>2
    <3>4. ValidSegment(m, i)
      BY <1>1
    <3> QED
      BY <1>2, <3>1, <3>2, <3>3, <3>4 DEF ValidSegment
  <2> QED
    BY <2>1, <2>2
<1>5. ValidateManifest(x)
  <2>1. x.floor \in 1 .. Len(x.checkpoint) + 1 /\ Len(x.checkpoint) <= Len(x.durable)
    BY <1>1
  <2> QED
    BY <1>2, <1>4, <2>1 DEF ValidateManifest
<1>6. ASSUME NEW i \in 1 .. n
      PROVE  Reading(f, c, new[i], new[i].pred)
  <2>1. Reading(f, c, seg[i], seg[i].pred)
    BY LogsMean
  <2>2. CASE i < n
    BY <2>1, <2>2
  <2>3. CASE i = n
    <3>1. new[i].id = seg[i].id /\ new[i].pred = seg[i].pred /\ new[i].last = e
      BY <2>3
    <3> PICK R : R = f[seg[i].id].records
      OBVIOUS
    <3>2. f[seg[i].id] \in LogFile
      BY <2>1 DEF Reading
    <3>3. R \in History /\ Begins(e, R)
      BY <2>3, <3>2 DEF LogFile
    <3>4. Begins(c, R)
      BY <1>2, <3>3, BeginsTransitive
    <3> QED
      BY <2>1, <3>1, <3>3, <3>4 DEF Reading
  <2> QED
    BY <2>2, <2>3
<1> QED
  BY <1>5, <1>6, LogsMean

(* A new segment may follow, in a new file.                                *)
LEMMA NewLastSegment ==
  ASSUME NEW f \in Seq(LogFile), NEW m \in Manifests, LogsIn(f, m), NEW x \in Manifests,
         NEW id \in DOMAIN f,
         x.checkpoint = m.checkpoint, x.floor = m.floor, x.next = id + 1,
         Len(x.segments) = Len(m.segments) + 1,
         \A i \in 1 .. Len(m.segments) : x.segments[i] = m.segments[i] /\ m.segments[i].id < id,
         x.segments[Len(m.segments) + 1] = Segment(id, m.durable, x.durable),
         Begins(m.durable, x.durable), Len(m.durable) < Len(x.durable),
         f[id].pred = m.durable, Begins(x.durable, f[id].records)
  PROVE  LogsIn(f, x)
<1> PICK c \in History, d \in History, e \in History, n \in Nat, lo \in Nat,
        seg \in Seq(Descriptor), new \in Seq(Descriptor) :
      /\ c = m.checkpoint /\ d = m.durable /\ e = x.durable /\ n = Len(m.segments)
      /\ lo = m.floor /\ seg = m.segments /\ new = x.segments
  BY DEF Manifests
<1>0. ValidateManifest(m)
  BY DEF LogsIn
<1>1. /\ Len(c) \in Nat /\ Len(d) \in Nat /\ Len(e) \in Nat /\ Len(c) <= Len(d) /\ lo > 0
      /\ lo <= Len(c) + 1 /\ Len(d) < Len(e)
      /\ \A i \in 1 .. n :
           /\ seg[i] \in Descriptor /\ seg[i].id \in Nat
           /\ Len(seg[i].pred) \in Nat /\ Len(seg[i].last) \in Nat
           /\ ValidSegment(m, i)
  <2>1. \A i \in 1 .. n :
          /\ seg[i] \in Descriptor /\ Len(seg[i].pred) \in Nat /\ Len(seg[i].last) \in Nat
          /\ ValidSegment(m, i)
    BY <1>0, ManifestLengths
  <2>2. \A i \in 1 .. n : seg[i].id \in Nat
    BY <2>1 DEF Descriptor
  <2>3. /\ Len(c) \in Nat /\ Len(d) \in Nat /\ Len(c) <= Len(d) /\ lo > 0 /\ lo <= Len(c) + 1
    BY <1>0, ManifestLengths
  <2>4. Len(e) \in Nat /\ Len(d) < Len(e)
    BY DEF History
  <2> QED
    BY ONLY <2>1, <2>2, <2>3, <2>4
<1>2. IF n = 0 THEN c = d /\ lo = Len(d) + 1 ELSE seg[n].last = d
  BY <1>0 DEF ValidateManifest
<1>3. new[n + 1].id = id /\ new[n + 1].pred = d /\ new[n + 1].last = e /\ id \in Nat
  BY DEF Segment
<1>4. Len(c) = Len(d) => c = d
  BY <1>0 DEF ValidateManifest
<1>5. ASSUME NEW i \in 1 .. n
      PROVE  ValidSegment(x, i)
  <2>1. new[i] = seg[i] /\ (i > 1 => new[i - 1] = seg[i - 1]) /\ seg[i].id < x.next
    BY <1>1, <1>3
  <2>2. ValidSegment(m, i)
    BY <1>1
  <2>3. /\ x.segments[i] = m.segments[i] /\ (i > 1 => x.segments[i - 1] = m.segments[i - 1])
        /\ m.segments[i].id < x.next /\ x.floor = m.floor /\ x.checkpoint = m.checkpoint
    BY <2>1
  <2> QED
    BY ONLY <2>2, <2>3 DEF ValidSegment
<1>6. ValidSegment(x, n + 1)
  <2>1. CASE n = 0
    <3> PICK g : g = new[1]
      OBVIOUS
    <3>1. g.id = id /\ g.pred = d /\ g.last = e /\ lo = Len(d) + 1 /\ c = d
      BY <1>2, <1>3, <2>1
    <3>2. /\ x.segments[1] = g /\ x.next = id + 1 /\ x.floor = lo /\ x.checkpoint = c
          /\ id \in Nat
      BY <1>3
    <3>3. Len(c) \in Nat /\ Len(d) \in Nat /\ Len(e) \in Nat /\ Len(d) < Len(e)
      BY <1>1
    <3>4. ValidSegment(x, 1)
      BY ONLY <3>1, <3>2, <3>3, lo \in Nat DEF ValidSegment
    <3> QED
      BY <2>1, <3>4
  <2>2. CASE n > 0
    <3>1. n + 1 > 1 /\ n + 1 - 1 = n /\ new[n] = seg[n] /\ seg[n].id < id /\ seg[n].last = d
      BY <1>2, <2>2
    <3> PICK g : g = new[n + 1]
      OBVIOUS
    <3> PICK h : h = seg[n]
      OBVIOUS
    <3> PICK j \in Nat : j = n + 1
      OBVIOUS
    <3>2. /\ x.segments[j] = g /\ x.segments[j - 1] = h /\ x.next = id + 1 /\ x.checkpoint = c
          /\ j > 1 /\ h.id < id /\ h.last = d /\ h.id \in Nat
      BY <1>1, <2>2, <3>1
    <3>3. g.id = id /\ g.pred = d /\ g.last = e /\ id \in Nat
      BY <1>3
    <3>4. ValidSegment(x, j)
      BY ONLY <1>1, <1>4, <3>2, <3>3 DEF ValidSegment
    <3> QED
      BY <3>4
  <2> QED
    BY <2>1, <2>2
<1>7. ValidateManifest(x)
  <2>1. x.floor \in 1 .. Len(x.checkpoint) + 1 /\ Len(x.checkpoint) < Len(x.durable)
    BY <1>1
  <2>2. \A i \in 1 .. n + 1 : ValidSegment(x, i)
    BY <1>5, <1>6
  <2>3. Len(x.segments) # 0 /\ x.segments[Len(x.segments)].last = x.durable
    BY <1>3
  <2> QED
    BY <1>1, <2>1, <2>2, <2>3 DEF ValidateManifest
<1>8. ASSUME NEW i \in 1 .. n + 1
      PROVE  Reading(f, c, new[i], new[i].pred)
  <2>1. CASE i <= n
    <3>1. Reading(f, c, seg[i], seg[i].pred)
      BY <2>1, LogsMean
    <3> QED
      BY <2>1, <3>1
  <2>2. CASE i = n + 1
    <3>1. f[id] \in LogFile
      OBVIOUS
    <3>2. f[id].records \in History
      BY <3>1 DEF LogFile
    <3>3. Begins(d, f[id].records)
      BY <3>2, BeginsTransitive
    <3> PICK g : g = new[n + 1]
      OBVIOUS
    <3>4. /\ g.id = id /\ g.pred = d /\ g.last = e /\ id \in DOMAIN f /\ f[id].pred = d
          /\ Begins(e, f[id].records)
      BY <1>3
    <3>5. Len(c) \notin Len(d) + 1 .. Len(e)
      BY ONLY <1>1
    <3>6. Reading(f, c, g, d)
      BY ONLY <3>3, <3>4, <3>5 DEF Reading
    <3> QED
      BY <2>2, <3>4, <3>6
  <2> QED
    BY <2>1, <2>2
<1> QED
  BY <1>7, <1>8, LogsMean

(* The digests of d after its first lo records.                            *)
AnchorsFrom(d, lo, pending) ==
  /\ pending \in Seq(History)
  /\ Len(pending) = Len(d) - lo
  /\ \A i \in 1 .. Len(pending) : pending[i] = Digest(d, lo + i)

(* A history that begins another has its digests.                          *)
LEMMA SameDigest ==
  ASSUME NEW d \in History, NEW e \in History, Begins(d, e), NEW n \in 0 .. Len(d)
  PROVE  Digest(d, n) = Digest(e, n)
<1> PICK s : s = Digest(d, n)
  OBVIOUS
<1>1. s \in History /\ Len(s) = n /\ Begins(s, d)
  BY DigestBegins
<1>2. Begins(s, e) /\ Len(s) <= Len(e)
  BY <1>1, BeginsTransitive DEF Begins
<1> QED
  BY <1>1, <1>2, DigestMeans

(* Anchors that a later checkpoint covers are dropped.                     *)
LEMMA AnchorsPruned ==
  ASSUME NEW d \in History, NEW lo \in Nat, NEW hi \in Nat, lo <= hi, hi <= Len(d),
         NEW pending, AnchorsFrom(d, lo, pending)
  PROVE  AnchorsFrom(d, hi, SubSeq(pending, hi - lo + 1, Len(pending)))
<1>1. Len(d) \in Nat /\ hi - lo \in Nat /\ Len(d) - lo \in Nat
  BY DEF History
<1>2. pending \in Seq(History) /\ Len(pending) = Len(d) - lo
  BY DEF AnchorsFrom
<1> PICK n \in Nat, k \in Nat : n = Len(pending) /\ k = hi - lo
  BY <1>1, <1>2
<1>3. k + 1 \in 1 .. n + 1 /\ n \in (k + 1) - 1 .. n /\ k <= n /\ n - k = Len(d) - hi
  BY <1>1, <1>2
<1>x. PICK kept : kept = SubSeq(pending, k + 1, n)
  OBVIOUS
<1>4. /\ kept \in Seq(History)
      /\ Len(kept) = IF k + 1 <= n THEN n - (k + 1) + 1 ELSE 0
      /\ \A i \in 1 .. n - (k + 1) + 1 : kept[i] = pending[(k + 1) + i - 1]
  <2>1. pending \in Seq(History) /\ k + 1 \in 1 .. Len(pending) + 1 /\ n \in (k + 1) - 1 .. Len(pending)
    BY <1>2, <1>3
  <2> QED
    BY ONLY <1>x, <2>1, SubSeqProperties
<1>5. Len(kept) = n - k /\ n - (k + 1) + 1 = n - k
  BY <1>3, <1>4
<1>6. ASSUME NEW i \in 1 .. n - k
      PROVE  kept[i] = Digest(d, hi + i)
  <2>0. i \in 1 .. n - (k + 1) + 1 /\ (k + 1) + i - 1 = k + i
    BY <1>5
  <2>1. kept[i] = pending[(k + 1) + i - 1] /\ (k + 1) + i - 1 = k + i
    BY ONLY <1>4, <2>0
  <2>2. k + i \in 1 .. n /\ lo + (k + i) = hi + i
    BY <1>3
  <2>3. pending[k + i] = Digest(d, lo + (k + i))
    BY <2>2 DEF AnchorsFrom
  <2> QED
    BY <2>1, <2>2, <2>3
<1> QED
  BY <1>3, <1>4, <1>5, <1>6 DEF AnchorsFrom

(* Anchors of the records that follow are added.                           *)
LEMMA AnchorsGrow ==
  ASSUME NEW d \in History, NEW e \in History, Begins(d, e), NEW lo \in Nat, lo <= Len(d),
         NEW pending, AnchorsFrom(d, lo, pending)
  PROVE  AnchorsFrom(e, lo, pending \o [i \in 1 .. Len(e) - Len(d) |-> Digest(e, Len(d) + i)])
<1>1. Len(d) \in Nat /\ Len(e) \in Nat /\ Len(d) <= Len(e)
  BY DEF History, Begins
<1>2. pending \in Seq(History) /\ Len(pending) = Len(d) - lo /\ Len(d) - lo \in Nat
  BY <1>1 DEF AnchorsFrom
<1>a. Len(e) - Len(d) \in Nat
  BY ONLY <1>1
<1>b. PICK n \in Nat : n = Len(pending)
  BY <1>2
<1>c. PICK k \in Nat : k = Len(e) - Len(d)
  BY <1>a
<1>d. PICK a \in Nat : a = Len(d)
  BY <1>1
<1>e. PICK more : more = [i \in 1 .. k |-> Digest(e, a + i)]
  OBVIOUS
<1>3. \A i \in 1 .. k : a + i \in 0 .. Len(e)
  BY ONLY <1>1, <1>a, <1>c, <1>d
<1>4. \A i \in 1 .. k : Digest(e, a + i) \in History
  BY <1>3, DigestBegins
<1>5. more \in Seq(History) /\ Len(more) = k
  <2>1. more \in [1 .. k -> History]
    BY <1>4, <1>e
  <2>2. more \in Seq(History) /\ DOMAIN more = 1 .. k
    BY ONLY <2>1
  <2> QED
    BY ONLY <2>2, LenProperties
<1>f. PICK all : all = pending \o more
  OBVIOUS
<1>6. /\ all \in Seq(History) /\ Len(all) = n + k
      /\ \A i \in 1 .. n + k : all[i] = IF i <= n THEN pending[i] ELSE more[i - n]
  BY ONLY <1>2, <1>5, <1>b, <1>f, ConcatProperties
<1>7. n + k = Len(e) - lo /\ lo + n = a
  BY ONLY <1>1, <1>2, <1>a, <1>b, <1>c, <1>d
<1>8. ASSUME NEW i \in 1 .. n + k
      PROVE  all[i] = Digest(e, lo + i)
  <2>1. CASE i <= n
    <3>1. lo + i \in 0 .. Len(d)
      BY ONLY <1>7, <1>d, <1>8, <2>1
    <3>2. pending[i] = Digest(d, lo + i)
      BY <1>b, <2>1 DEF AnchorsFrom
    <3> QED
      BY <1>6, <2>1, <3>1, <3>2, SameDigest
  <2>2. CASE i > n
    <3>1. i - n \in 1 .. k /\ a + (i - n) = lo + i /\ ~(i <= n)
      BY ONLY <1>7, <1>8, <2>2
    <3>2. more[i - n] = Digest(e, a + (i - n))
      BY ONLY <1>e, <3>1
    <3>3. all[i] = more[i - n]
      BY ONLY <1>6, <1>8, <3>1
    <3> QED
      BY ONLY <3>1, <3>2, <3>3
  <2> QED
    BY <2>1, <2>2
<1>9. AnchorsFrom(e, lo, all)
  BY ONLY <1>6, <1>7, <1>8 DEF AnchorsFrom
<1>10. [i \in 1 .. Len(e) - Len(d) |-> Digest(e, Len(d) + i)] = more
  BY ONLY <1>c, <1>d, <1>e
<1> QED
  BY ONLY <1>9, <1>10, <1>f

(* The anchors that an accepted extension keeps and reads are those of the *)
(* manifest it accepts.                                                    *)
LEMMA PendingAfterIsExact ==
  ASSUME LogInv, proof.some, proof.manifest = manifest, NEW m \in Manifests,
         Begins(manifest.durable, m.durable), Len(m.checkpoint) >= Len(manifest.checkpoint),
         Len(m.checkpoint) <= Len(m.durable)
  PROVE  AreAnchors(m, PendingAfter(manifest, m))
<1> PICK c \in History, o \in History, d \in History, e \in History :
      c = m.checkpoint /\ o = manifest.checkpoint /\ d = manifest.durable /\ e = m.durable
  BY DEF LogInv, Manifests
<1> PICK pending : pending = proof.pending
  OBVIOUS
<1>0. d \in History /\ e \in History
  OBVIOUS
<1>1. AnchorsFrom(d, Len(o), pending)
  BY DEF LogInv, AreAnchors, AnchorsFrom
<1>2. /\ Len(c) \in Nat /\ Len(o) \in Nat /\ Len(d) \in Nat /\ Len(e) \in Nat
      /\ Len(o) <= Len(c) /\ Len(c) <= Len(e) /\ Len(o) <= Len(d)
  <2>1. ValidateManifest(manifest)
    BY DEF LogInv, ValidateLogs
  <2> QED
    BY <2>1 DEF History, ValidateManifest
<1>3. PendingAfter(manifest, m) =
        IF Len(c) > Len(d)
        THEN SubSeq(pending, Len(d) - Len(o) + 1, Len(pending))
               \o [i \in 1 .. Len(e) - Len(c) |-> Digest(e, Len(c) + i)]
        ELSE SubSeq(pending, Len(c) - Len(o) + 1, Len(pending))
               \o [i \in 1 .. Len(e) - Len(d) |-> Digest(e, Len(d) + i)]
  <2>1. CASE Len(c) > Len(d)
    <3>1. ~(Len(c) < Len(d))
      BY <1>2, <2>1
    <3> QED
      BY <2>1, <3>1 DEF PendingAfter
  <2>2. CASE Len(c) = Len(d)
    <3>1. ~(Len(c) < Len(d)) /\ ~(Len(c) > Len(d))
      BY <1>2, <2>2
    <3> QED
      BY <2>2, <3>1 DEF PendingAfter
  <2>3. CASE Len(c) < Len(d)
    <3>1. ~(Len(c) > Len(d))
      BY <1>2, <2>3
    <3> QED
      BY <2>3, <3>1 DEF PendingAfter
  <2>4. Len(c) > Len(d) \/ Len(c) = Len(d) \/ Len(c) < Len(d)
    BY ONLY <1>2
  <2> QED
    BY ONLY <2>1, <2>2, <2>3, <2>4
<1>4. CASE Len(c) > Len(d)
  <2>0. Len(o) \in Nat /\ Len(d) \in Nat /\ Len(o) <= Len(d) /\ Len(d) <= Len(d)
    BY ONLY <1>2
  <2>1. AnchorsFrom(d, Len(d), SubSeq(pending, Len(d) - Len(o) + 1, Len(pending)))
    BY ONLY <1>0, <1>1, <2>0, AnchorsPruned
  <2> PICK kept : kept = SubSeq(pending, Len(d) - Len(o) + 1, Len(pending))
    OBVIOUS
  <2>2. kept \in Seq(History) /\ Len(kept) = 0
    <3>1. kept \in Seq(History) /\ Len(kept) = Len(d) - Len(d)
      BY <2>1 DEF AnchorsFrom
    <3> QED
      BY ONLY <2>0, <3>1
  <2> PICK b : b = Digest(e, Len(c))
    OBVIOUS
  <2>3. b \in History /\ Len(b) = Len(c) /\ Begins(b, e)
    BY <1>2, DigestBegins
  <2>a. Len(b) - Len(c) = 0 /\ Len(c) <= Len(b) /\ Len(c) \in Nat
    BY ONLY <1>2, <2>3
  <2>4. AnchorsFrom(b, Len(c), kept)
    BY ONLY <2>2, <2>a DEF AnchorsFrom
  <2>5. AnchorsFrom(e, Len(c), kept \o [i \in 1 .. Len(e) - Len(b) |-> Digest(e, Len(b) + i)])
    BY ONLY <1>0, <2>3, <2>4, <2>a, AnchorsGrow
  <2>6. AnchorsFrom(e, Len(c), PendingAfter(manifest, m))
    BY <1>3, <1>4, <2>3, <2>5
  <2> QED
    BY <2>6 DEF AreAnchors, AnchorsFrom
<1>5. CASE Len(c) <= Len(d)
  <2>1. AnchorsFrom(d, Len(c), SubSeq(pending, Len(c) - Len(o) + 1, Len(pending)))
    BY <1>1, <1>2, <1>5, AnchorsPruned
  <2> PICK kept : kept = SubSeq(pending, Len(c) - Len(o) + 1, Len(pending))
    OBVIOUS
  <2>2. AnchorsFrom(e, Len(c), kept \o [i \in 1 .. Len(e) - Len(d) |-> Digest(e, Len(d) + i)])
    BY <1>2, <1>5, <2>1, AnchorsGrow
  <2>3. ~(Len(c) > Len(d))
    BY <1>2, <1>5
  <2>4. AnchorsFrom(e, Len(c), PendingAfter(manifest, m))
    BY <1>3, <2>2, <2>3
  <2> QED
    BY <2>4 DEF AreAnchors, AnchorsFrom
<1> QED
  BY <1>2, <1>4, <1>5

-----------------------------------------------------------------------------
(* The invariant is preserved.                                             *)

(* Validation in the files that a step leaves.                             *)
LEMMA LogsArePresentNext ==
  ValidateLogs(manifest)' <=> LogsIn(files', manifest')
BY DEF ValidateLogs, ReadsSuffix, LogsIn, ReadsIn, ValidateManifest, ValidSegment

(* What a proof that a step leaves may be: of the manifest, with its       *)
(* anchors, or of an older generation.                                     *)
ProofFits(p, m) ==
  /\ p.manifest \in Manifests /\ p.manifest.generation <= m.generation
  /\ p.manifest = m => AreAnchors(m, p.pending)

(* What a step has to leave for the invariant to hold after it.            *)
LEMMA InvNext ==
  ASSUME LogInv, bounds' = bounds, files' \in Seq(LogFile), manifest' \in Manifests,
         LogsIn(files', manifest'), proof'.some => runtime' /\ ProofFits(proof', manifest')
  PROVE  LogInv'
<1>1. ValidateLogs(manifest)'
  BY LogsArePresentNext
<1>2. (proof.some => runtime /\ ProofFits(proof, manifest))'
  BY DEF ProofFits, AreAnchors, Digest
<1> QED
  BY <1>1, <1>2 DEF LogInv, ProofFits

(* A step that leaves the manifest and the proof, and whose files grow.    *)
LEMMA GrowthKeepsInv ==
  ASSUME LogInv, bounds' = bounds, files' \in Seq(LogFile), Grown(files, files'),
         manifest' = manifest, proof' = proof, proof.some => runtime'
  PROVE  LogInv'
<1>1. manifest \in Manifests /\ files \in Seq(LogFile) /\ LogsIn(files, manifest)
  BY LogsArePresent DEF LogInv
<1>2. LogsIn(files', manifest)
  BY <1>1, GrowthKeepsLogs
<1>3. proof.some => ProofFits(proof, manifest)
  BY DEF LogInv, ProofFits
<1> QED
  BY <1>1, <1>2, <1>3, InvNext

(* Files that stay as they are count as grown.                             *)
LEMMA GrownItself ==
  ASSUME NEW f \in Seq(LogFile)
  PROVE  Grown(f, f)
<1>1. \A i \in DOMAIN f : f[i] \in LogFile
  OBVIOUS
<1>2. \A i \in DOMAIN f : f[i].records \in History
  BY <1>1 DEF LogFile
<1> QED
  BY <1>2, BeginsItself DEF Grown

(* A new file leaves the others as they are.                               *)
LEMMA NewFileGrows ==
  ASSUME NEW f \in Seq(LogFile), NEW file \in LogFile
  PROVE  /\ Append(f, file) \in Seq(LogFile) /\ Grown(f, Append(f, file))
         /\ Len(f) + 1 \in DOMAIN Append(f, file) /\ Append(f, file)[Len(f) + 1] = file
<1> PICK g : g = Append(f, file)
  OBVIOUS
<1>1. g \in Seq(LogFile) /\ Len(g) = Len(f) + 1 /\ g[Len(f) + 1] = file
  OBVIOUS
<1>2. \A i \in DOMAIN f : i \in DOMAIN g /\ g[i] = f[i]
  OBVIOUS
<1>3. Grown(f, f)
  BY GrownItself
<1>4. Grown(f, g)
  BY <1>2, <1>3 DEF Grown
<1> QED
  BY <1>1, <1>4

(* Records behind the end of a file leave what was there before.           *)
LEMMA LongerFileGrows ==
  ASSUME NEW f \in Seq(LogFile), NEW id \in DOMAIN f, NEW records \in History,
         Begins(f[id].records, records)
  PROVE  /\ [f EXCEPT ![id].records = records] \in Seq(LogFile)
         /\ Grown(f, [f EXCEPT ![id].records = records])
         /\ [f EXCEPT ![id].records = records][id].records = records
<1>1. f[id] \in LogFile
  OBVIOUS
<1> PICK r : r = [f[id] EXCEPT !.records = records]
  OBVIOUS
<1>2. r \in LogFile /\ r.pred = f[id].pred /\ r.records = records
  BY <1>1 DEF LogFile
<1> PICK g : g = [f EXCEPT ![id].records = records]
  OBVIOUS
<1>3. g = [f EXCEPT ![id] = r]
  OBVIOUS
<1>4. g \in Seq(LogFile) /\ DOMAIN g = DOMAIN f /\ g[id] = r
  BY <1>2, <1>3
<1>5. \A i \in DOMAIN f : i # id => g[i] = f[i]
  BY <1>3
<1>6. Grown(f, f)
  BY GrownItself
<1>7. Grown(f, g)
  BY <1>2, <1>4, <1>5, <1>6 DEF Grown
<1> QED
  BY <1>2, <1>4, <1>7

(* The live database takes the store over: there is no proof yet.          *)
LEMMA EnableKeepsInv ==
  ASSUME LogInv, bounds' = bounds, Enable
  PROVE  LogInv'
<1>1. files' = files /\ manifest' = manifest /\ proof' = proof /\ runtime'
  BY DEF Enable
<1>2. files \in Seq(LogFile)
  BY DEF LogInv
<1> QED
  BY <1>1, <1>2, GrownItself, GrowthKeepsInv

(* A caller writes a file of its own.                                      *)
LEMMA WriteFileKeepsInv ==
  ASSUME LogInv, bounds' = bounds, NEW pred \in Histories, WriteFile(pred, 1)
  PROVE  LogInv'
<1>1. pred \in History
  BY HistoriesAreHistory
<1>2. Append(pred, 1) \in History
  BY <1>1 DEF History, Contents
<1>3. [pred |-> pred, records |-> Append(pred, 1)] \in LogFile
  BY <1>1, <1>2 DEF LogFile
<1>4. /\ files' = Append(files, [pred |-> pred, records |-> Append(pred, 1)])
      /\ manifest' = manifest /\ proof' = proof /\ runtime' = runtime
  BY DEF WriteFile
<1>5. files \in Seq(LogFile) /\ (proof.some => runtime)
  BY DEF LogInv
<1> QED
  BY <1>3, <1>4, <1>5, NewFileGrows, GrowthKeepsInv

(* The file of the last segment is there and holds what is acknowledged.   *)
LEMMA LastFile ==
  ASSUME LogInv, manifest.segments # <<>>
  PROVE  LET count == Len(manifest.segments)
             last == manifest.segments[count].id
         IN  /\ count > 0 /\ count \in 1 .. count /\ last \in DOMAIN files
             /\ manifest.segments[count] \in Descriptor
             /\ files[last].records \in History
             /\ manifest.segments[count].last = manifest.durable
             /\ Begins(manifest.durable, files[last].records)
<1>0. manifest \in Manifests /\ files \in Seq(LogFile) /\ LogsIn(files, manifest)
  BY LogsArePresent DEF LogInv
<1> PICK seg \in Seq(Descriptor) : seg = manifest.segments
  BY <1>0 DEF Manifests
<1> PICK n \in Nat : n = Len(seg)
  OBVIOUS
<1>1. n > 0 /\ n \in 1 .. n
  BY EmptySeq
<1>2. seg[n].last = manifest.durable
  BY <1>0, <1>1 DEF LogsIn, ValidateManifest
<1>3. Reading(files, manifest.checkpoint, seg[n], seg[n].pred)
  BY <1>0, <1>1, LogsMean
<1>4. seg[n].id \in DOMAIN files /\ Begins(seg[n].last, files[seg[n].id].records)
  BY <1>3 DEF Reading
<1>5. files[seg[n].id] \in LogFile /\ seg[n] \in Descriptor
  BY <1>0, <1>1, <1>4
<1>6. files[seg[n].id].records \in History
  BY <1>5 DEF LogFile
<1> QED
  BY <1>1, <1>2, <1>4, <1>5, <1>6

(* A caller writes behind the last segment.                                *)
LEMMA WriteTailKeepsInv ==
  ASSUME LogInv, bounds' = bounds, WriteTail(1)
  PROVE  LogInv'
<1> PICK id : id = manifest.segments[Len(manifest.segments)].id
  OBVIOUS
<1>1. manifest.segments # <<>> /\ files' = [files EXCEPT ![id].records = Append(@, 1)]
  BY DEF WriteTail
<1>2. id \in DOMAIN files /\ files[id].records \in History /\ files \in Seq(LogFile)
  BY <1>1, LastFile DEF LogInv
<1> PICK records : records = Append(files[id].records, 1)
  OBVIOUS
<1>3. records \in History /\ Begins(files[id].records, records)
  <2> PICK found \in History : found = files[id].records
    BY <1>2
  <2>1. Append(found, 1) \in History
    BY DEF History, Contents
  <2>2. /\ Len(Append(found, 1)) = Len(found) + 1 /\ Len(found) \in Nat
        /\ \A k \in 1 .. Len(found) : Append(found, 1)[k] = found[k]
    <3>1. found \in Seq(Contents) /\ 1 \in Contents
      BY DEF History, Contents
    <3> QED
      BY ONLY <3>1, AppendProperties, LenProperties
  <2>3. Begins(found, Append(found, 1))
    BY ONLY <2>2 DEF Begins
  <2> QED
    BY <2>1, <2>3
<1>4. files' = [files EXCEPT ![id].records = records]
  BY <1>1, <1>2
<1>5. files' \in Seq(LogFile) /\ Grown(files, files')
  BY <1>2, <1>3, <1>4, LongerFileGrows
<1>6. manifest' = manifest /\ proof' = proof /\ (proof.some => runtime')
  BY DEF WriteTail, LogInv
<1> QED
  BY <1>5, <1>6, GrowthKeepsInv

(* publish_files: both outcomes leave a valid manifest and a fitting proof.*)
LEMMA PublishFilesKeepsInv ==
  ASSUME LogInv, bounds' = bounds, NEW m \in Manifests, LogsIn(files, m),
         m.generation = manifest.generation + 1,
         NEW kept, kept.some => runtime /\ ProofFits(kept, m),
         PublishFiles(m, kept)
  PROVE  LogInv'
<1>0. manifest \in Manifests /\ files \in Seq(LogFile) /\ LogsIn(files, manifest)
  BY LogsArePresent DEF LogInv
<1>1. files' = files /\ runtime' = runtime
  BY DEF PublishFiles
<1>2. manifest' \in {manifest, m}
  BY DEF PublishFiles
<1>3. manifest' \in Manifests /\ LogsIn(files', manifest') /\ files' \in Seq(LogFile)
  BY <1>0, <1>1, <1>2
<1>4. CASE manifest' = m /\ proof' = kept
  BY <1>1, <1>3, <1>4, InvNext
<1>5. CASE proof' = proof
  <2>1. SUFFICES ASSUME proof.some
                 PROVE  LogInv'
    BY <1>3, <1>5, InvNext
  <2>2. /\ runtime /\ proof.manifest \in Manifests
        /\ proof.manifest.generation <= manifest.generation
        /\ proof.manifest = manifest => AreAnchors(manifest, proof.pending)
    BY <2>1 DEF LogInv
  <2>3. ProofFits(proof, manifest)
    BY <2>2 DEF ProofFits
  <2>4. ProofFits(proof, m)
    <3>1. manifest.generation \in Nat /\ proof.manifest.generation \in Nat
      BY <1>0, <2>2 DEF Manifests
    <3>2. proof.manifest.generation <= m.generation /\ proof.manifest.generation # m.generation
      BY <2>2, <3>1
    <3> QED
      BY <2>2, <3>2 DEF ProofFits
  <2> QED
    BY <1>1, <1>2, <1>3, <1>5, <2>2, <2>3, <2>4, InvNext
<1> QED
  BY <1>4, <1>5 DEF PublishFiles

(* publish: accepted by the shortcut, or validated in full.                *)
LEMMA PublishKeepsInv ==
  ASSUME LogInv, bounds' = bounds, NEW candidate \in Candidates, Publish(candidate)
  PROVE  LogInv'
<1> PICK m : m = Numbered(candidate)
  OBVIOUS
<1>1. ValidateTransition(manifest, candidate)
  BY DEF Publish
<1>2. /\ m \in Manifests /\ m.generation = manifest.generation + 1
      /\ ValidateTransition(manifest, m)
  BY <1>1, CandidatesAreManifests, NumberedIsManifest
<1>3. ValidateManifest(m)
  BY DEF Publish
<1>4. CASE Shortcut(m).verdict = "accepted" /\ PublishFiles(m, Kept(Shortcut(m).proof))
  <2>1. proof.some
    BY <1>4 DEF Shortcut, Full
  <2>2. ValidateExtension(manifest, m).verdict = "accepted"
    BY <1>4, <2>1 DEF Shortcut
  <2>3. FullyValid(m)
    BY <1>2, <2>1, <2>2, AcceptedIsFull
  <2>4. LogsIn(files, m)
    BY <2>3, LogsArePresent DEF FullyValid
  <2>5. Kept(Shortcut(m).proof) = Proof(m, PendingAfter(manifest, m)) /\ runtime
    BY <2>1, <2>2, AcceptedMeans DEF Shortcut, Kept, LogInv
  <2>6. AreAnchors(m, PendingAfter(manifest, m))
    <3>1. Begins(manifest.durable, m.durable)
      BY <1>2, <2>3, FullContinues
    <3>2. proof.manifest = manifest /\ Len(m.checkpoint) >= Len(manifest.checkpoint)
      BY <2>2, AcceptedMeans DEF Continues
    <3>3. Len(m.checkpoint) <= Len(m.durable)
      BY <1>3 DEF ValidateManifest
    <3> QED
      BY <1>2, <2>1, <3>1, <3>2, <3>3, PendingAfterIsExact
  <2>7. ProofFits(Proof(m, PendingAfter(manifest, m)), m)
    <3>1. m.generation \in Nat
      BY <1>2 DEF Manifests
    <3> QED
      BY <1>2, <2>6, <3>1 DEF ProofFits, Proof
  <2> QED
    BY <1>2, <1>4, <2>4, <2>5, <2>7, PublishFilesKeepsInv
<1>5. CASE FullyValid(m) /\ PublishFiles(m, Kept(AtCheckpoint(m)))
  <2>1. LogsIn(files, m)
    BY <1>5, LogsArePresent DEF FullyValid
  <2>2. Kept(AtCheckpoint(m)).some => runtime /\ ProofFits(Kept(AtCheckpoint(m)), m)
    <3>1. CASE ~runtime
      BY <3>1 DEF Kept, LogInv
    <3>2. CASE runtime /\ m.checkpoint # m.durable
      BY <3>2 DEF Kept, AtCheckpoint, NoProof
    <3>3. CASE runtime /\ m.checkpoint = m.durable
      <4>1. Kept(AtCheckpoint(m)) = Proof(m, <<>>)
        BY <3>3 DEF Kept, AtCheckpoint
      <4>2. AreAnchors(m, <<>>)
        <5>1. Len(m.durable) \in Nat
          BY <1>2 DEF Manifests, History
        <5>2. Len(<<>>) = 0 /\ <<>> \in Seq(History)
          OBVIOUS
        <5>3. Len(m.durable) - Len(m.checkpoint) = 0
          BY <3>3, <5>1
        <5> QED
          BY <5>2, <5>3 DEF AreAnchors
      <4>3. m.generation \in Nat
        BY <1>2 DEF Manifests
      <4> QED
        BY <1>2, <3>3, <4>1, <4>2, <4>3 DEF ProofFits, Proof
    <3> QED
      BY <3>1, <3>2, <3>3
  <2> QED
    BY <1>2, <1>5, <2>1, <2>2, PublishFilesKeepsInv
<1> QED
  BY <1>4, <1>5 DEF Publish

(* adopt: validated in full, and no proof is left.                         *)
LEMMA AdoptKeepsInv ==
  ASSUME LogInv, bounds' = bounds, NEW candidate \in Candidates, Adopt(candidate)
  PROVE  LogInv'
<1> PICK m : m = Numbered(candidate)
  OBVIOUS
<1>1. m \in Manifests /\ m.generation = manifest.generation + 1
  BY CandidatesAreManifests, NumberedIsManifest
<1>2. FullyValid(m) /\ PublishFiles(m, NoProof)
  BY DEF Adopt
<1>3. LogsIn(files, m)
  BY <1>2, LogsArePresent DEF FullyValid
<1>4. ~NoProof.some
  BY DEF NoProof
<1> QED
  BY <1>1, <1>2, <1>3, <1>4, PublishFilesKeepsInv

(* renew_namespace: the same log; the proof is of an older generation.     *)
LEMMA RenewNamespaceKeepsInv ==
  ASSUME LogInv, bounds' = bounds, RenewNamespace
  PROVE  LogInv'
<1>0. manifest \in Manifests /\ files \in Seq(LogFile) /\ LogsIn(files, manifest)
  BY LogsArePresent DEF LogInv
<1> PICK m : m = [Numbered(manifest) EXCEPT !.namespace = @ + 1]
  OBVIOUS
<1> PICK q : q = Numbered(manifest)
  OBVIOUS
<1>1. /\ q \in Manifests /\ q.generation = manifest.generation + 1
      /\ q.checkpoint = manifest.checkpoint /\ SameLog(manifest, q)
  BY <1>0, NumberedIsManifest DEF Numbered, SameLog, Manifests
<1>2. /\ m \in Manifests /\ m.generation = manifest.generation + 1
      /\ m.checkpoint = manifest.checkpoint /\ SameLog(manifest, m)
  <2>1. m = [q EXCEPT !.namespace = @ + 1]
    OBVIOUS
  <2> QED
    BY <1>1, <2>1 DEF SameLog, Manifests
<1>3. LogsIn(files, m)
  <2>1. Begins(m.checkpoint, manifest.durable)
    BY <1>0, <1>2, ValidLogIsChain
  <2>2. manifest.floor <= Len(m.checkpoint) + 1
    BY <1>0, <1>2, ManifestLengths DEF LogsIn
  <2>3. manifest.segments = <<>> => m.checkpoint = manifest.durable
    <3>1. SUFFICES ASSUME Len(manifest.segments) = 0
                   PROVE  m.checkpoint = manifest.durable
      OBVIOUS
    <3> QED
      BY <1>0, <1>2, <3>1 DEF LogsIn, ValidateManifest
  <2> QED
    BY <1>0, <1>2, <2>1, <2>2, <2>3, AnyCheckpointIsValid
<1>4. proof.some => runtime /\ ProofFits(proof, m)
  <2>1. SUFFICES ASSUME proof.some
                 PROVE  runtime /\ ProofFits(proof, m)
    OBVIOUS
  <2>2. /\ runtime /\ proof.manifest \in Manifests
        /\ proof.manifest.generation <= manifest.generation
    BY <2>1 DEF LogInv
  <2>3. manifest.generation \in Nat /\ proof.manifest.generation \in Nat
    BY <1>0, <2>2 DEF Manifests
  <2>4. proof.manifest.generation <= m.generation /\ proof.manifest.generation # m.generation
    BY <1>2, <2>2, <2>3
  <2> QED
    BY <2>2, <2>4 DEF ProofFits
<1>5. PublishFiles(m, proof)
  BY DEF RenewNamespace
<1> QED
  BY <1>2, <1>3, <1>4, <1>5, PublishFilesKeepsInv

(* Recovery: the last segment reaches to the end of its file.              *)
LEMMA ReopenKeepsInv ==
  ASSUME LogInv, bounds' = bounds, Reopen
  PROVE  LogInv'
<1>0. manifest \in Manifests /\ files \in Seq(LogFile) /\ LogsIn(files, manifest)
  BY LogsArePresent DEF LogInv
<1>1. files' = files /\ proof' = NoProof
  BY DEF Reopen
<1>2. ~proof'.some
  BY <1>1 DEF NoProof
<1> PICK seg \in Seq(Descriptor), d \in History : seg = manifest.segments /\ d = manifest.durable
  BY <1>0 DEF Manifests
<1> PICK n \in Nat : n = Len(seg)
  OBVIOUS
<1>3. CASE n = 0
  <2>1. manifest' = manifest
    BY <1>3 DEF Reopen
  <2> QED
    BY <1>0, <1>1, <1>2, <2>1, InvNext
<1>4. CASE n > 0
  <2> PICK e : e = files[seg[n].id].records
    OBVIOUS
  <2>1. seg # <<>>
    BY <1>4
  <2>2. /\ n \in 1 .. n /\ seg[n].id \in DOMAIN files /\ e \in History /\ Begins(d, e)
        /\ seg[n] \in Descriptor
    BY <2>1, LastFile
  <2> PICK x : x = [manifest EXCEPT !.durable = e, !.segments[n].last = e]
    OBVIOUS
  <2>3. manifest' = x
    BY <1>4 DEF Reopen
  <2> PICK g : g = [seg[n] EXCEPT !.last = e]
    OBVIOUS
  <2>4. g \in Descriptor /\ g.id = seg[n].id /\ g.pred = seg[n].pred /\ g.last = e
    BY <2>2 DEF Descriptor
  <2> PICK new : new = [seg EXCEPT ![n] = g]
    OBVIOUS
  <2>5. /\ new \in Seq(Descriptor) /\ Len(new) = n /\ new[n] = g
        /\ \A i \in 1 .. n - 1 : new[i] = seg[i]
    BY <2>2, <2>4
  <2>6. x = [manifest EXCEPT !.durable = e, !.segments = new]
    BY <1>0 DEF Manifests
  <2>7. /\ x \in Manifests /\ x.durable = e /\ x.segments = new /\ x.checkpoint = manifest.checkpoint
        /\ x.floor = manifest.floor /\ x.next = manifest.next
    BY <1>0, <2>2, <2>5, <2>6 DEF Manifests
  <2>8. LogsIn(files, x)
    <3>1. Begins(e, files[seg[n].id].records)
      BY <2>2, BeginsItself
    <3>2. /\ files \in Seq(LogFile) /\ manifest \in Manifests /\ LogsIn(files, manifest)
          /\ x \in Manifests /\ Len(manifest.segments) > 0
          /\ x.checkpoint = manifest.checkpoint /\ x.floor = manifest.floor /\ x.next = manifest.next
          /\ Len(x.segments) = Len(manifest.segments)
      BY <1>0, <1>4, <2>5, <2>7
    <3>3. /\ \A i \in 1 .. Len(manifest.segments) - 1 : x.segments[i] = manifest.segments[i]
          /\ x.segments[Len(manifest.segments)].id = manifest.segments[Len(manifest.segments)].id
          /\ x.segments[Len(manifest.segments)].pred = manifest.segments[Len(manifest.segments)].pred
          /\ x.segments[Len(manifest.segments)].last = x.durable
      BY <2>4, <2>5, <2>7
    <3>4. /\ Begins(manifest.durable, x.durable)
          /\ Begins(x.durable, files[manifest.segments[Len(manifest.segments)].id].records)
      BY <2>2, <2>7, <3>1
    <3> QED
      BY ONLY <3>2, <3>3, <3>4, LongerLastSegment
  <2> QED
    BY <1>0, <1>1, <1>2, <2>3, <2>7, <2>8, InvNext
<1> QED
  BY <1>3, <1>4

(* append_group: the manifest that it acknowledges is valid in the files   *)
(* that it leaves, and so is the old one when the write fails.             *)
LEMMA AppendGroupKeepsInv ==
  ASSUME LogInv, bounds' = bounds, NEW group \in History, Len(group) > 0, AppendGroup(group)
  PROVE  LogInv'
<1>0. manifest \in Manifests /\ files \in Seq(LogFile) /\ LogsIn(files, manifest)
  BY LogsArePresent DEF LogInv
<1> PICK seg \in Seq(Descriptor), d \in History : seg = manifest.segments /\ d = manifest.durable
  BY <1>0 DEF Manifests
<1>d. PICK e : e = d \o group
  OBVIOUS
<1>1. e \in History /\ Len(e) = Len(d) + Len(group) /\ Begins(d, e)
  BY <1>d, ExtensionBegins
<1>2. Len(d) \in Nat /\ Len(e) \in Nat /\ Len(group) \in Nat /\ Len(d) < Len(e)
  <2>1. Len(d) \in Nat /\ Len(group) \in Nat
    BY DEF History
  <2> QED
    BY <1>1, <2>1
<1> PICK n \in Nat : n = Len(seg)
  OBVIOUS
<1> PICK id \in Nat : id = Len(files) + 1
  BY <1>0
<1> DEFINE digests == [i \in DOMAIN group |-> Digest(e, Len(d) + i)]
<1>3. ASSUME NEW x \in Manifests, x.generation = manifest.generation,
             x.checkpoint = manifest.checkpoint, x.durable = e,
             files' \in Seq(LogFile), Grown(files, files'), LogsIn(files', x),
             \/ /\ manifest' = x
                /\ proof' = IF runtime THEN Committed(x, digests) ELSE proof
             \/ manifest' = manifest /\ proof' = proof,
             runtime' = runtime
      PROVE  LogInv'
  <2>1. CASE manifest' = manifest /\ proof' = proof
    BY <1>3, <2>1, GrowthKeepsInv DEF LogInv
  <2>2. CASE manifest' = x /\ ~proof'.some
    BY <1>3, <2>2, InvNext
  <2>3. CASE manifest' = x /\ proof'.some /\ proof' = IF runtime THEN Committed(x, digests) ELSE proof
    <3>1. runtime /\ proof' = Committed(x, digests)
      BY <2>3 DEF LogInv
    <3>2. /\ proof.some /\ proof.manifest = manifest
          /\ proof' = Proof(x, proof.pending \o digests)
      <4> HIDE DEF digests
      <4> DEFINE gone == \/ ~proof.some \/ proof.manifest # manifest
                         \/ Len(x.durable) - Len(x.checkpoint) > MAX_PENDING
      <4>1. proof' = IF gone THEN NoProof ELSE Proof(x, proof.pending \o digests)
        BY ONLY <3>1 DEF Committed
      <4>2. ~NoProof.some /\ proof'.some
        BY <2>3 DEF NoProof
      <4>3. ~gone
        <5> HIDE DEF gone
        <5> QED
          BY ONLY <4>1, <4>2
      <4>4. proof' = Proof(x, proof.pending \o digests)
        <5> HIDE DEF gone
        <5> QED
          BY ONLY <4>1, <4>3
      <4> QED
        BY ONLY <4>3, <4>4
    <3>3. AreAnchors(manifest, proof.pending)
      BY <3>2 DEF LogInv
    <3> PICK lo, pending : lo = Len(manifest.checkpoint) /\ pending = proof.pending
      OBVIOUS
    <3>4. lo \in Nat /\ lo <= Len(d)
      BY <1>0, ManifestLengths DEF LogsIn
    <3>5. AnchorsFrom(d, lo, pending)
      BY <3>3 DEF AreAnchors, AnchorsFrom
    <3>6. AnchorsFrom(e, lo, pending \o [i \in 1 .. Len(e) - Len(d) |-> Digest(e, Len(d) + i)])
      BY <1>1, <3>4, <3>5, AnchorsGrow
    <3>7. digests = [i \in 1 .. Len(e) - Len(d) |-> Digest(e, Len(d) + i)]
      <4>1. DOMAIN group = 1 .. Len(group)
        BY DEF History
      <4>2. Len(e) - Len(d) = Len(group)
        BY ONLY <1>1, <1>2
      <4> QED
        BY <4>1, <4>2
    <3>8. AreAnchors(x, pending \o digests)
      <4>1. AnchorsFrom(e, lo, pending \o digests)
        BY ONLY <3>6, <3>7
      <4> HIDE DEF digests
      <4> QED
        BY <1>3, <4>1 DEF AreAnchors, AnchorsFrom
    <3>9. ProofFits(proof', x)
      <4>1. x.generation \in Nat
        BY <1>3 DEF Manifests
      <4> HIDE DEF digests
      <4>2. proof'.manifest = x /\ proof'.pending = pending \o digests
        BY <3>2 DEF Proof
      <4> QED
        BY <1>3, <3>8, <4>1, <4>2 DEF ProofFits
    <3> QED
      BY <1>3, <2>3, <3>1, <3>9, InvNext
  <2> HIDE DEF digests
  <2> QED
    BY <1>3, <2>1, <2>2, <2>3
<1>4. CASE rotate \/ seg = <<>>
  <2> PICK x : x = [manifest EXCEPT !.durable = e, !.next = id + 1,
                      !.segments = Append(@, Segment(id, d, e))]
    OBVIOUS
  <2> PICK file : file = [pred |-> d, records |-> e]
    OBVIOUS
  <2>1. /\ files' = Append(files, file) /\ runtime' = runtime
        /\ \/ /\ manifest' = x
              /\ proof' = IF runtime THEN Committed(x, digests) ELSE proof
           \/ manifest' = manifest /\ proof' = proof
    BY <1>4, <1>d DEF AppendGroup
  <2>2. file \in LogFile /\ file.pred = d /\ file.records = e
    BY <1>1 DEF LogFile
  <2>3. /\ files' \in Seq(LogFile) /\ Grown(files, files')
        /\ id \in DOMAIN files' /\ files'[id] = file
    BY <1>0, <2>1, <2>2, NewFileGrows
  <2> PICK g : g = Segment(id, d, e)
    OBVIOUS
  <2>4. g \in Descriptor
    BY <1>1 DEF Segment, Descriptor
  <2> PICK new : new = Append(seg, g)
    OBVIOUS
  <2>5. /\ new \in Seq(Descriptor) /\ Len(new) = n + 1 /\ new[n + 1] = g
        /\ \A i \in 1 .. n : new[i] = seg[i]
    BY <2>4
  <2>6. /\ x \in Manifests /\ x.durable = e /\ x.segments = new /\ x.next = id + 1
        /\ x.checkpoint = manifest.checkpoint /\ x.floor = manifest.floor
        /\ x.generation = manifest.generation
    <3>1. x = [manifest EXCEPT !.durable = e, !.next = id + 1, !.segments = new]
      BY <1>0 DEF Manifests
    <3>2. id + 1 \in Nat
      OBVIOUS
    <3>3. manifest \in Manifests /\ e \in History /\ new \in Seq(Descriptor)
      BY <1>0, <1>1, <2>5
    <3> QED
      BY ONLY <3>1, <3>2, <3>3 DEF Manifests
  <2>7. LogsIn(files', manifest)
    BY <1>0, <2>3, GrowthKeepsLogs
  <2>8. \A i \in 1 .. n : seg[i].id < id
    <3>1. ASSUME NEW i \in 1 .. n
          PROVE  seg[i].id < id
      <4>1. Reading(files, manifest.checkpoint, seg[i], seg[i].pred)
        BY <1>0, LogsMean
      <4>2. seg[i].id \in DOMAIN files
        BY <4>1 DEF Reading
      <4> QED
        BY <1>0, <4>2
    <3> QED
      BY <3>1
  <2>9. LogsIn(files', x)
    <3>1. /\ files' \in Seq(LogFile) /\ manifest \in Manifests /\ LogsIn(files', manifest)
          /\ x \in Manifests /\ id \in DOMAIN files' /\ x.checkpoint = manifest.checkpoint
          /\ x.floor = manifest.floor /\ x.next = id + 1
      BY <1>0, <2>3, <2>6, <2>7
    <3>2. /\ Len(x.segments) = Len(manifest.segments) + 1
          /\ \A i \in 1 .. Len(manifest.segments) :
               x.segments[i] = manifest.segments[i] /\ manifest.segments[i].id < id
          /\ x.segments[Len(manifest.segments) + 1] = Segment(id, manifest.durable, x.durable)
      BY <2>5, <2>6, <2>8
    <3>3. /\ Begins(manifest.durable, x.durable) /\ Len(manifest.durable) < Len(x.durable)
          /\ files'[id].pred = manifest.durable
      BY <1>1, <1>2, <2>2, <2>3, <2>6
    <3>4. Begins(x.durable, files'[id].records)
      BY <1>1, <2>2, <2>3, <2>6, BeginsItself
    <3> QED
      BY ONLY <3>1, <3>2, <3>3, <3>4, NewLastSegment
  <2> HIDE DEF digests
  <2> QED
    BY ONLY <1>3, <2>1, <2>3, <2>6, <2>9
<1>5. CASE ~(rotate \/ seg = <<>>)
  <2> PICK last : last = seg[n].id
    OBVIOUS
  <2>1. /\ n > 0 /\ n \in 1 .. n /\ last \in DOMAIN files /\ seg[n] \in Descriptor
        /\ seg[n].last = d
    BY <1>5, LastFile
  <2> PICK x : x = [manifest EXCEPT !.durable = e, !.segments[n].last = e]
    OBVIOUS
  <2>2. /\ files' = [files EXCEPT ![last].records = e] /\ runtime' = runtime
        /\ files[last].records = d
        /\ \/ /\ manifest' = x
              /\ proof' = IF runtime THEN Committed(x, digests) ELSE proof
           \/ manifest' = manifest /\ proof' = proof
    BY <1>5, <1>d DEF AppendGroup
  <2>3. files' \in Seq(LogFile) /\ Grown(files, files') /\ files'[last].records = e
    <3>1. /\ files \in Seq(LogFile) /\ last \in DOMAIN files /\ e \in History
          /\ Begins(files[last].records, e) /\ files' = [files EXCEPT ![last].records = e]
      BY <1>0, <1>1, <2>1, <2>2
    <3> QED
      BY ONLY <3>1, LongerFileGrows
  <2> PICK g : g = [seg[n] EXCEPT !.last = e]
    OBVIOUS
  <2>4. g \in Descriptor /\ g.id = seg[n].id /\ g.pred = seg[n].pred /\ g.last = e
    BY <1>1, <2>1 DEF Descriptor
  <2> PICK new : new = [seg EXCEPT ![n] = g]
    OBVIOUS
  <2>5. /\ new \in Seq(Descriptor) /\ Len(new) = n /\ new[n] = g
        /\ \A i \in 1 .. n - 1 : new[i] = seg[i]
    BY <2>1, <2>4
  <2>6. x = [manifest EXCEPT !.durable = e, !.segments = new]
    BY <1>0 DEF Manifests
  <2>7. /\ x \in Manifests /\ x.durable = e /\ x.segments = new /\ x.checkpoint = manifest.checkpoint
        /\ x.floor = manifest.floor /\ x.next = manifest.next
        /\ x.generation = manifest.generation
    BY <1>0, <1>1, <2>5, <2>6 DEF Manifests
  <2>8. LogsIn(files', manifest)
    BY <1>0, <2>3, GrowthKeepsLogs
  <2>9. LogsIn(files', x)
    <3>1. /\ files' \in Seq(LogFile) /\ manifest \in Manifests /\ LogsIn(files', manifest)
          /\ x \in Manifests /\ Len(manifest.segments) > 0
          /\ x.checkpoint = manifest.checkpoint /\ x.floor = manifest.floor /\ x.next = manifest.next
          /\ Len(x.segments) = Len(manifest.segments)
      BY <1>0, <2>1, <2>3, <2>5, <2>7, <2>8
    <3>2. /\ \A i \in 1 .. Len(manifest.segments) - 1 : x.segments[i] = manifest.segments[i]
          /\ x.segments[Len(manifest.segments)].id = manifest.segments[Len(manifest.segments)].id
          /\ x.segments[Len(manifest.segments)].pred = manifest.segments[Len(manifest.segments)].pred
          /\ x.segments[Len(manifest.segments)].last = x.durable
      BY <2>4, <2>5, <2>7
    <3>3. /\ Begins(manifest.durable, x.durable)
          /\ Begins(x.durable, files'[manifest.segments[Len(manifest.segments)].id].records)
      BY <1>1, <2>3, <2>7, BeginsItself
    <3> QED
      BY ONLY <3>1, <3>2, <3>3, LongerLastSegment
  <2> HIDE DEF digests
  <2> QED
    BY ONLY <1>3, <2>2, <2>3, <2>7, <2>9
<1> QED
  BY <1>4, <1>5

(* The empty log of a new store.                                           *)
LEMMA LogInitInv ==
  ASSUME LogInit
  PROVE  LogInv
<1>1. bounds \in Scenarios /\ files = <<>> /\ ~proof.some
  BY DEF LogInit, NoProof
<1>2. files \in Seq(LogFile)
  BY <1>1
<1>3. /\ manifest.checkpoint = <<>> /\ manifest.durable = <<>> /\ manifest.floor = 1
      /\ manifest.segments = <<>> /\ manifest \in Manifests
  BY DEF LogInit, Manifests, History
<1>4. ValidateManifest(manifest)
  BY <1>3 DEF ValidateManifest
<1>5. ValidateLogs(manifest)
  BY <1>3, <1>4 DEF ValidateLogs
<1> QED
  BY <1>1, <1>2, <1>3, <1>5 DEF LogInv

(* Every step preserves the invariant.                                     *)
LEMMA LogStepInv ==
  ASSUME LogInv, [LogNext]_logVars
  PROVE  LogInv'
<1>1. CASE UNCHANGED logVars \/ (bounds' = bounds /\ RefuseTail)
  <2>1. /\ bounds' = bounds /\ files' = files /\ manifest' = manifest /\ proof' = proof
        /\ runtime' = runtime
    BY <1>1 DEF logVars, RefuseTail
  <2>2. files \in Seq(LogFile) /\ (proof.some => runtime)
    BY DEF LogInv
  <2> QED
    BY <2>1, <2>2, GrownItself, GrowthKeepsInv
<1>2. CASE LogNext
  <2>0. bounds' = bounds /\ LogSteps
    BY <1>2 DEF LogNext
  <2>1. CASE Enable
    BY <2>0, <2>1, EnableKeepsInv
  <2>2. CASE \E group \in {<<0>>, <<0, 0>>} : AppendGroup(group)
    <3>0. PICK group \in {<<0>>, <<0, 0>>} : AppendGroup(group)
      BY <2>2
    <3>1. group \in History /\ Len(group) > 0
      <4>1. CASE group = <<0>>
        BY <4>1 DEF History, Contents
      <4>2. CASE group = <<0, 0>>
        BY <4>2 DEF History, Contents
      <4> QED
        BY <3>0, <4>1, <4>2
    <3> QED
      BY <2>0, <3>0, <3>1, AppendGroupKeepsInv
  <2>3. ASSUME NEW pred \in Histories, WriteFile(pred, 1)
        PROVE  LogInv'
    BY <2>0, <2>3, WriteFileKeepsInv
  <2>4. CASE WriteTail(1)
    BY <2>0, <2>4, WriteTailKeepsInv
  <2>5. ASSUME NEW segments \in Proposals, NEW candidate \in WithSegments(segments),
               Publish(candidate)
        PROVE  LogInv'
    BY <2>0, <2>5, ProposedIsCandidate, PublishKeepsInv
  <2>6. ASSUME NEW segments \in Proposals, NEW candidate \in WithSegments(segments),
               Adopt(candidate)
        PROVE  LogInv'
    BY <2>0, <2>6, ProposedIsCandidate, AdoptKeepsInv
  <2>7. CASE RenewNamespace
    BY <2>0, <2>7, RenewNamespaceKeepsInv
  <2>8. CASE Reopen
    BY <2>0, <2>8, ReopenKeepsInv
  <2>9. CASE RefuseTail
    BY <2>0, <2>9, <1>1
  <2> QED
    BY <2>0, <2>1, <2>2, <2>3, <2>4, <2>5, <2>6, <2>7, <2>8, <2>9 DEF LogSteps
<1> QED
  BY <1>1, <1>2

(* What the live owner of a store publishes or appends without reading the *)
(* whole log again (storage/log_validation.rs) is what recovery, which     *)
(* reads all of it, accepts; and the shortcut decides on every manifest as *)
(* a full validation would, whatever the caller wrote and asks for.        *)
THEOREM LogShortcuts == LogSpec => []ShortcutIsSound
<1>1. LogInit => LogInv
  BY LogInitInv
<1>2. LogInv /\ [LogNext]_logVars => LogInv'
  BY LogStepInv
<1>3. LogInv => ShortcutIsSound
  BY InvIsSound
<1> QED
  BY <1>1, <1>2, <1>3, PTL DEF LogSpec
=============================================================================
