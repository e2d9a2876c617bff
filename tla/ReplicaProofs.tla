--------------------------- MODULE ReplicaProofs ---------------------------
(***************************************************************************)
(* A replica is a prefix of its source, for every source, batch size and   *)
(* number of failures.                                                     *)
(*                                                                         *)
(* The invariant keeps what an import has accepted but not yet appended:   *)
(* the log followed by these records is a prefix of the source, however    *)
(* much of it is appended when the process is lost.  That holds because    *)
(* of all batches that may arrive, the checks let only one kind through:   *)
(* records of the source that continue the log.                            *)
(***************************************************************************)
EXTENDS Replica, TLAPS, SequenceTheorems

TypeOK ==
  /\ source \in Seq(Bodies)
  /\ log \in Seq(Bodies \cup {Local})
  /\ importing \in Seq(Bodies)
  /\ checkpoint \in Nat /\ told \in Nat /\ acked \in Nat /\ failures \in Nat
  /\ readOnly \in BOOLEAN /\ busy \in BOOLEAN /\ running \in BOOLEAN

(* The first n records of the log are the source's, the rest its own.      *)
Splits(n) ==
  /\ n <= Len(log) /\ n <= Len(source)
  /\ \A i \in 1 .. n : log[i] = source[i]
  /\ \A i \in 1 .. Len(log) : i > n => log[i] = Local

(* The records an import still has to append continue the log.             *)
Continuing ==
  /\ Splits(Len(log))
  /\ Len(log) + Len(importing) <= Len(source)
  /\ \A i \in 1 .. Len(importing) : importing[i] = source[Len(log) + i]

ReplicaInv ==
  /\ TypeOK
  /\ \E n \in Nat : n >= 1 /\ Splits(n)
  /\ busy => readOnly /\ running /\ Continuing
  /\ told <= Len(log) /\ acked <= Len(log)

-----------------------------------------------------------------------------
(* The batches that may arrive.                                            *)

(* The fields of a record.                                                 *)
LEMMA RecordBody == \A h, i : LogicalRecord(h, i).body = h[i]
BY DEF LogicalRecord

(* A record carries its sequence in its outcome.                           *)
LEMMA RecordSequence ==
  \A h, i : LogicalRecord(h, i).outcome.sequence = Len(Prefix(h, i))
BY DEF LogicalRecord, Outcome

(* A batch holds the records of its history between its ends.              *)
Holds(b, h, s, e) ==
  /\ b.start = s /\ b.end = e
  /\ DOMAIN b.records = 1 .. e - s /\ Len(b.records) = e - s
  /\ \E T : b.records \in Seq(T)
  /\ \A i \in 1 .. e - s : b.records[i] = LogicalRecord(h, s + i)

(* A served batch holds the records of its history between its ends.       *)
LEMMA BatchRecords ==
  ASSUME NEW S, NEW h \in Seq(S), NEW s \in Nat, NEW e \in Nat, s <= e, e <= Len(h)
  PROVE  Holds(FeedBatch(h, s, e), h, s, e)
<1> DEFINE R == [i \in 1 .. e - s |-> LogicalRecord(h, s + i)]
           T == {LogicalRecord(h, i) : i \in 1 .. Len(h)}
<1> PICK b : b = FeedBatch(h, s, e)
  OBVIOUS
<1>1. b.start = s /\ b.end = e /\ b.records = R
  BY DEF FeedBatch
<1>2. \A i \in 1 .. e - s : s + i \in 1 .. Len(h)
  BY LenProperties
<1>3. R \in Seq(T) /\ Len(R) = e - s /\ DOMAIN R = 1 .. e - s
  BY <1>2
<1>4. \E U : b.records \in Seq(U)
  BY <1>1, <1>3
<1>5. \A i \in 1 .. e - s : R[i] = LogicalRecord(h, s + i)
  OBVIOUS
<1> HIDE DEF R
<1> QED
  BY <1>1, <1>3, <1>4, <1>5 DEF Holds

(* The predecessor of a record is the prefix of its history before it.     *)
LEMMA PredecessorIsPrefix ==
  ASSUME NEW S, NEW h \in Seq(S), NEW s \in Nat, s < Len(h)
  PROVE  LET r == LogicalRecord(h, s + 1)
         IN /\ r.body = h[s + 1]
            /\ r.predecessor \in Seq(S) /\ Len(r.predecessor) = s
            /\ \A i \in 1 .. s : r.predecessor[i] = h[i]
<1>1. LogicalRecord(h, s + 1).predecessor = SubSeq(h, 1, s)
  BY DEF LogicalRecord, Prefix
<1>2. SubSeq(h, 1, s) \in Seq(S) /\ Len(SubSeq(h, 1, s)) = s
      /\ \A i \in 1 .. s : SubSeq(h, 1, s)[i] = h[i]
  BY LenProperties, SubSeqProperties
<1> QED
  BY <1>1, <1>2 DEF LogicalRecord

(* The log begins with a record of the source.                             *)
LEMMA FirstRecord ==
  ASSUME ReplicaInv
  PROVE  /\ Len(log) \in Nat /\ Len(log) >= 1 /\ Len(source) \in Nat /\ Len(source) >= 1
         /\ log[1] # "foreign"
         /\ Foreign \in Seq(Bodies \cup {"foreign"})
         /\ Len(Foreign) = Len(source) /\ Foreign[1] = "foreign"
<1>1. PICK n \in Nat : n >= 1 /\ Splits(n)
  BY DEF ReplicaInv
<1>2. /\ Len(log) \in Nat /\ Len(log) >= 1 /\ Len(source) \in Nat /\ Len(source) >= 1
      /\ log[1] = source[1] /\ source[1] \in Bodies
  BY <1>1, LenProperties, ElementOfSeq DEF ReplicaInv, TypeOK, Splits
<1>3. source \in Seq(Bodies \cup {"foreign"})
  BY DEF ReplicaInv, TypeOK
<1> QED
  BY <1>2, <1>3, ExceptSeq, ReplicaAssumption DEF Foreign

(* A record that follows the log in another history names another log as   *)
(* its predecessor.                                                        *)
LEMMA ForeignIsNotAnchored ==
  ASSUME ReplicaInv, Len(log) < Len(source)
  PROVE  LogicalRecord(Foreign, Len(log) + 1).predecessor # log
<1>1. Len(log) \in Nat /\ Len(log) >= 1
  BY FirstRecord
<1>2. \A i \in 1 .. Len(log) :
        LogicalRecord(Foreign, Len(log) + 1).predecessor[i] = Foreign[i]
  BY <1>1, FirstRecord, PredecessorIsPrefix
<1> QED
  BY <1>1, <1>2, FirstRecord

(* The records of a batch are those that follow the log in the source.     *)
FollowsLog(b) ==
  /\ b.records # <<>> /\ DOMAIN b.records = 1 .. Len(b.records)
  /\ Len(b.records) \in Nat /\ Len(log) + Len(b.records) <= Len(source)
  /\ \A i \in 1 .. Len(log) : log[i] = source[i]
  /\ \A i \in 1 .. Len(b.records) : b.records[i].body = source[Len(log) + i]

(* A batch of the source whose first record names the log.                 *)
LEMMA SentFollows ==
  ASSUME ReplicaInv, NEW s \in Nat, NEW e \in Nat, s < e, e <= Len(source),
         s = Len(log), LogicalRecord(source, s + 1).predecessor = log
  PROVE  FollowsLog(FeedBatch(source, s, e))
<1> PICK b : b = FeedBatch(source, s, e)
  OBVIOUS
<1>1. source \in Seq(Bodies) /\ Len(source) \in Nat
  BY LenProperties DEF ReplicaInv, TypeOK
<1>2. Holds(b, source, s, e)
  BY <1>1, BatchRecords
<1>3. \A i \in 1 .. s : log[i] = source[i]
  <2>1. s < Len(source)
    BY <1>1
  <2>2. \A i \in 1 .. s : LogicalRecord(source, s + 1).predecessor[i] = source[i]
    BY ONLY <1>1, <2>1, s \in Nat, PredecessorIsPrefix
  <2> QED
    BY ONLY <2>2, LogicalRecord(source, s + 1).predecessor = log
<1>4. \A i \in 1 .. e - s : b.records[i].body = source[s + i]
  <2> TAKE i \in 1 .. e - s
  <2>1. b.records[i] = LogicalRecord(source, s + i)
    BY <1>2 DEF Holds
  <2> QED
    BY <2>1, RecordBody
<1>5. b.records # <<>>
  BY <1>2 DEF Holds
<1> QED
  BY <1>1, <1>2, <1>3, <1>4, <1>5 DEF FollowsLog, Holds

(* Of the batches that may arrive, the checks of an import let through     *)
(* only those that continue the log with records of the source.            *)
LEMMA AcceptedFollows ==
  ASSUME ReplicaInv, NEW b \in Arriving, Decodes(b), b.kind = "logical",
         Continues(b), Anchored(b), 0 < Len(b.records)
  PROVE  FollowsLog(b)
<1>1. /\ source \in Seq(Bodies) /\ Len(source) \in Nat /\ Len(log) \in Nat
      /\ Len(log) >= 1 /\ Foreign \in Seq(Bodies \cup {"foreign"})
      /\ Len(Foreign) = Len(source)
  BY FirstRecord DEF ReplicaInv, TypeOK
<1>2. /\ b.crc /\ b.end - b.start = Len(b.records) /\ b.start = Len(log)
      /\ \A i \in DOMAIN b.records : b.records[i].outcome.sequence = Len(log) + i
  BY DEF Decodes, Continues
<1>3. b.records # <<>> /\ b.records[1].predecessor = log
  BY EmptySeq DEF Anchored
<1>4. PICK s \in 0 .. Len(source), e \in 0 .. Len(source) :
        /\ s <= e
        /\ \/ b = FeedBatch(source, s, e)
           \/ b \in Damaged(FeedBatch(source, s, e))
           \/ b = FeedBatch(Foreign, s, e)
  <2> DEFINE sent == {c \in Served : c.start <= c.end}
  <2>0. b \in sent \cup (UNION {Damaged(c) : c \in sent})
              \cup {FeedBatch(Foreign, c.start, c.end) : c \in sent}
    BY DEF Arriving
  <2>1. PICK c \in sent : \/ b = c \/ b \in Damaged(c)
                          \/ b = FeedBatch(Foreign, c.start, c.end)
    <3> HIDE DEF sent
    <3>1. b \in sent \/ (\E c \in sent : b \in Damaged(c))
          \/ (\E c \in sent : b = FeedBatch(Foreign, c.start, c.end))
      BY <2>0, Zenon
    <3> QED
      BY <3>1, Zenon
  <2>2. PICK s \in 0 .. Len(source), e \in 0 .. Len(source) : c = FeedBatch(source, s, e)
    BY <2>1 DEF Served
  <2>3. c.start = s /\ c.end = e
    BY <2>2 DEF FeedBatch
  <2> QED
    BY <2>1, <2>2, <2>3
<1>10. PICK c : c = FeedBatch(source, s, e)
  OBVIOUS
<1>11. s \in Nat /\ e \in Nat /\ Holds(c, source, s, e)
  BY <1>1, <1>4, <1>10, BatchRecords
<1>5. /\ s \in Nat /\ e \in Nat /\ c.start = s /\ c.end = e
      /\ DOMAIN c.records = 1 .. e - s /\ Len(c.records) = e - s
      /\ \A i \in 1 .. e - s : c.records[i] = LogicalRecord(source, s + i)
  BY <1>11 DEF Holds
<1>12. PICK T : c.records \in Seq(T)
  BY <1>11 DEF Holds
<1>6. \A i \in 1 .. e - s : c.records[i].outcome.sequence = s + i
                            /\ c.records[i].body = source[s + i]
  <2>1. \A i \in 1 .. e - s : Len(Prefix(source, s + i)) = s + i
    BY <1>1, <1>4, <1>5, SubSeqProperties, LenProperties DEF Prefix
  <2> TAKE i \in 1 .. e - s
  <2>2. c.records[i] = LogicalRecord(source, s + i) /\ Len(Prefix(source, s + i)) = s + i
    BY <1>5, <2>1
  <2> QED
    BY <2>2, RecordBody, RecordSequence
<1>7. CASE b = c
  <2>1. s = Len(log) /\ s < e
    BY <1>2, <1>5, <1>7
  <2>2. b.records[1] = LogicalRecord(source, s + 1)
    BY <1>5, <1>7, <2>1
  <2> QED
    BY <1>3, <1>4, <1>5, <1>7, <2>1, <2>2, <1>10, SentFollows
<1>8. CASE b = FeedBatch(Foreign, s, e)
  <2>1. b.start = s /\ Len(b.records) = e - s
        /\ \A i \in 1 .. e - s : b.records[i] = LogicalRecord(Foreign, s + i)
    <3>1. Holds(b, Foreign, s, e)
      BY <1>1, <1>4, <1>5, <1>8, BatchRecords
    <3> QED
      BY <3>1 DEF Holds
  <2>2. s = Len(log) /\ s < e
    BY <1>2, <1>5, <2>1
  <2>3. b.records[1] = LogicalRecord(Foreign, Len(log) + 1)
    BY <1>5, <2>1, <2>2
  <2> QED
    BY <1>1, <1>3, <1>4, <2>2, <2>3, ForeignIsNotAnchored
<1>9. CASE b \in Damaged(c)
  <2> DEFINE k == Len(c.records)
  <2>1. CASE b = [c EXCEPT !.crc = FALSE]
    BY <1>2, <1>10, <2>1 DEF FeedBatch
  <2>2. CASE b = [c EXCEPT !.database = "other"]
    BY <1>10, <2>2 DEF FeedBatch, Continues
  <2>3. CASE b = [c EXCEPT !.kind = "resolved"]
    BY <1>10, <2>3 DEF FeedBatch
  <2>4. CASE b = [c EXCEPT !.start = Len(log), !.end = Len(log) + Len(c.records)]
    <3>1. b.records = c.records
      BY <1>10, <2>4 DEF FeedBatch
    <3>2. s < e /\ DOMAIN b.records = 1 .. e - s
      BY <1>2, <1>5, <3>1
    <3>3. b.records[1].outcome.sequence = Len(log) + 1
      BY <1>2, <1>5, <3>2
    <3>4. s = Len(log)
      BY <1>1, <1>5, <1>6, <3>1, <3>2, <3>3
    <3>5. LogicalRecord(source, s + 1).predecessor = log
      <4>1. c.records[1] = LogicalRecord(source, s + 1)
        BY <1>5, <3>2
      <4> QED
        BY <1>3, <3>1, <4>1
    <3>6. FollowsLog(c)
      BY <1>4, <1>5, <3>2, <3>4, <3>5, <1>10, SentFollows
    <3> QED
      BY <3>1, <3>6 DEF FollowsLog
  <2>5. CASE b = [c EXCEPT !.end = c.end + 1]
    <3>1. b.start = c.start /\ b.end = c.end + 1 /\ b.records = c.records
      BY <1>10, <2>5 DEF FeedBatch
    <3> QED
      BY <1>2, <1>5, <3>1
  <2>6. CASE /\ c.records # <<>>
             /\ b = [c EXCEPT !.records[Len(c.records)].outcome.result = 1 - @]
    <3>1. b.start = s /\ b.records = [c.records EXCEPT ![k].outcome.result = 1 - @]
      BY <1>10, <1>5, <2>6 DEF FeedBatch
    <3>2. Len(b.records) = k /\ DOMAIN b.records = 1 .. k /\ k = e - s
      BY <1>5, <1>12, <3>1, LenProperties
    <3>3. \A i \in 1 .. k : /\ b.records[i].body = c.records[i].body
                            /\ b.records[i].predecessor = c.records[i].predecessor
      BY <1>5, <3>1, <3>2 DEF LogicalRecord
    <3>4. s = Len(log) /\ s < e
      BY <1>2, <1>5, <3>1, <3>2
    <3>5. LogicalRecord(source, s + 1).predecessor = log
      <4>1. 1 \in 1 .. k /\ c.records[1] = LogicalRecord(source, s + 1)
        BY <1>5, <3>2, <3>4
      <4> QED
        BY <1>3, <3>3, <4>1
    <3>6. FollowsLog(c)
      BY <1>4, <1>5, <3>4, <3>5, <1>10, SentFollows
    <3> QED
      BY <1>3, <3>2, <3>3, <3>6 DEF FollowsLog
  <2>7. CASE /\ c.records # <<>>
             /\ b = [c EXCEPT !.records[1] = LogicalRecord(Foreign, c.start + 1)]
    <3>1. /\ b.start = s
          /\ b.records = [c.records EXCEPT ![1] = LogicalRecord(Foreign, s + 1)]
      BY <1>10, <1>5, <2>7 DEF FeedBatch
    <3>2. Len(b.records) = k /\ k = e - s
      BY <1>5, <1>12, <3>1, LenProperties
    <3>3. s = Len(log) /\ s < e
      BY <1>2, <1>5, <3>1, <3>2
    <3>4. b.records[1] = LogicalRecord(Foreign, Len(log) + 1)
      BY <1>5, <3>1, <3>2, <3>3
    <3> QED
      BY <1>1, <1>3, <1>4, <3>3, <3>4, ForeignIsNotAnchored
  <2> QED
    BY <1>9, <2>1, <2>2, <2>3, <2>4, <2>5, <2>6, <2>7 DEF Damaged
<1> QED
  BY <1>4, <1>10, <1>7, <1>8, <1>9

-----------------------------------------------------------------------------
(* The invariant.                                                          *)

(* The image is the source it was taken from.                              *)
LEMMA InitReplica == Init => ReplicaInv
<1> SUFFICES ASSUME Init
             PROVE  ReplicaInv
  OBVIOUS
<1>1. Len(Baseline) \in Nat /\ Len(Baseline) >= 1
  BY ReplicaAssumption, LenProperties
<1>2. Baseline \in Seq(Bodies \cup {Local}) /\ <<>> \in Seq(Bodies)
  BY ReplicaAssumption
<1>4. TypeOK
  BY <1>1, <1>2, ReplicaAssumption DEF Init, TypeOK
<1>3. Splits(Len(Baseline))
  BY <1>1 DEF Init, Splits
<1> QED
  BY <1>1, <1>3, <1>4 DEF Init, ReplicaInv

(* The source grows: what was its prefix still is.                         *)
LEMMA WriteReplica ==
  ASSUME ReplicaInv, NEW body \in Bodies, Write(body)
  PROVE  ReplicaInv'
<1>1. /\ source' = Append(source, body)
      /\ UNCHANGED <<acked, log, checkpoint, readOnly, busy, importing, running, told, failures>>
  BY DEF Write, replica
<1>2. /\ source' \in Seq(Bodies) /\ Len(source) \in Nat /\ Len(source') = Len(source) + 1
      /\ \A i \in 1 .. Len(source) : source'[i] = source[i]
  BY <1>1, AppendProperties, LenProperties DEF ReplicaInv, TypeOK
<1>3. Len(log) \in Nat /\ Len(importing) \in Nat
  BY LenProperties DEF ReplicaInv, TypeOK
<1>4. \A n \in Nat : Splits(n) => Splits(n)'
  BY <1>1, <1>2, <1>3 DEF Splits
<1>5. Continuing => Continuing'
  BY <1>1, <1>2, <1>3, <1>4 DEF Continuing
<1>6. TypeOK'
  BY <1>1, <1>2 DEF ReplicaInv, TypeOK
<1> QED
  BY <1>1, <1>4, <1>5, <1>6 DEF ReplicaInv

(* An accepted batch continues the log.                                    *)
LEMMA ImportReplica ==
  ASSUME ReplicaInv, NEW b \in Arriving, Import(b)
  PROVE  ReplicaInv'
<1>1. /\ running /\ readOnly /\ busy' = TRUE
      /\ importing' = [i \in DOMAIN b.records |-> b.records[i].body]
      /\ UNCHANGED <<source, acked, log, checkpoint, readOnly, running, options, told, failures>>
  BY DEF Import, BodiesOf
<1>2. FollowsLog(b)
  BY AcceptedFollows DEF Import
<1>3. source \in Seq(Bodies) /\ Len(source) \in Nat /\ Len(log) \in Nat
  BY LenProperties DEF ReplicaInv, TypeOK
<1>4. \A i \in 1 .. Len(b.records) : importing'[i] = source[Len(log) + i]
  BY <1>1, <1>2 DEF FollowsLog
<1>5. \A i \in 1 .. Len(b.records) : b.records[i].body \in Bodies
  <2> TAKE i \in 1 .. Len(b.records)
  <2>1. Len(log) + i \in 1 .. Len(source) /\ b.records[i].body = source[Len(log) + i]
    BY <1>2, <1>3 DEF FollowsLog
  <2> QED
    BY <1>3, <2>1, ElementOfSeq
<1>6. importing' \in Seq(Bodies) /\ Len(importing') = Len(b.records)
  BY <1>1, <1>2, <1>5 DEF FollowsLog
<1>7. Continuing'
  <2>1. Splits(Len(log))'
    BY <1>1, <1>2, <1>3 DEF FollowsLog, Splits
  <2>2. /\ Len(log') + Len(importing') <= Len(source')
        /\ \A i \in 1 .. Len(importing') : importing'[i] = source'[Len(log') + i]
    BY <1>1, <1>2, <1>4, <1>6 DEF FollowsLog
  <2> QED
    BY <2>1, <2>2 DEF Continuing
<1>8. TypeOK'
  BY <1>1, <1>6 DEF ReplicaInv, TypeOK
<1>9. \A n \in Nat : Splits(n) => Splits(n)'
  BY <1>1 DEF Splits
<1> QED
  BY <1>1, <1>7, <1>8, <1>9 DEF ReplicaInv

(* The next record of the import is the next record of the source.         *)
LEMMA AppendReplica ==
  ASSUME ReplicaInv, AppendRecord
  PROVE  ReplicaInv'
<1>1. /\ busy /\ importing # <<>>
      /\ log' = Append(log, Head(importing)) /\ importing' = Tail(importing)
      /\ UNCHANGED <<source, acked, checkpoint, readOnly, busy, running, options, told, failures>>
  BY DEF AppendRecord
<1>2. /\ importing \in Seq(Bodies) /\ Len(importing) \in Nat /\ Len(importing) >= 1
      /\ log \in Seq(Bodies \cup {Local}) /\ Len(log) \in Nat /\ Len(source) \in Nat
  BY <1>1, LenProperties, EmptySeq DEF ReplicaInv, TypeOK
<1>3. /\ Head(importing) = importing[1] /\ Head(importing) \in Bodies
      /\ importing' \in Seq(Bodies) /\ Len(importing') = Len(importing) - 1
      /\ \A i \in 1 .. Len(importing) - 1 : importing'[i] = importing[i + 1]
  BY <1>1, <1>2, HeadTailProperties, ElementOfSeq
<1>4. /\ log' \in Seq(Bodies \cup {Local}) /\ Len(log') = Len(log) + 1
      /\ \A i \in 1 .. Len(log) : log'[i] = log[i]
      /\ log'[Len(log) + 1] = importing[1]
  BY <1>1, <1>2, <1>3, AppendProperties
<1>5. Continuing /\ readOnly /\ running
  BY <1>1 DEF ReplicaInv
<1>6. Splits(Len(log))'
  <2>1. Len(log) + 1 <= Len(source) /\ importing[1] = source[Len(log) + 1]
    BY <1>2, <1>5 DEF Continuing
  <2>2. \A i \in 1 .. Len(log) + 1 : log'[i] = source[i]
    <3> TAKE i \in 1 .. Len(log) + 1
    <3>1. CASE i = Len(log) + 1
      BY <1>4, <2>1, <3>1
    <3>2. CASE i \in 1 .. Len(log)
      <4>1. log[i] = source[i]
        BY <1>5, <3>2 DEF Continuing, Splits
      <4> QED
        BY <1>4, <3>2, <4>1
    <3> QED
      BY <1>2, <3>1, <3>2
  <2>3. Len(log') = Len(log) + 1 /\ source' = source
    BY <1>1, <1>4
  <2>4. ~(Len(log) + 1 > Len(log) + 1) /\ \A i \in 1 .. Len(log) + 1 : ~(i > Len(log) + 1)
    BY <1>2
  <2> QED
    BY <1>2, <2>1, <2>2, <2>3, <2>4 DEF Splits
<1>7. \A i \in 1 .. Len(importing') : importing'[i] = source[Len(log') + i]
  <2> TAKE i \in 1 .. Len(importing')
  <2>1. i \in Nat /\ i + 1 \in 1 .. Len(importing) /\ importing'[i] = importing[i + 1]
    BY <1>2, <1>3
  <2>2. importing[i + 1] = source[Len(log) + (i + 1)]
    BY <1>5, <2>1 DEF Continuing
  <2>3. Len(log) + (i + 1) = Len(log') + i
    BY <1>2, <1>4, <2>1
  <2> QED
    BY <2>1, <2>2, <2>3
<1>8. Continuing'
  BY <1>1, <1>2, <1>3, <1>4, <1>5, <1>6, <1>7 DEF Continuing
<1>9. TypeOK'
  BY <1>1, <1>3, <1>4 DEF ReplicaInv, TypeOK
<1>10. told <= Len(log) /\ acked <= Len(log) /\ told \in Nat /\ acked \in Nat
  BY DEF ReplicaInv, TypeOK
<1> QED
  BY <1>1, <1>2, <1>4, <1>5, <1>6, <1>8, <1>9, <1>10 DEF ReplicaInv

(* The promoted replica writes behind what it imported, and nothing is     *)
(* imported behind that.                                                   *)
LEMMA WriteLocalReplica ==
  ASSUME ReplicaInv, WriteLocal
  PROVE  ReplicaInv'
<1>1. /\ ~readOnly /\ log' = Append(log, Local) /\ checkpoint' = Len(log')
      /\ UNCHANGED <<source, acked, readOnly, busy, importing, running, told, failures>>
  BY DEF WriteLocal
<1>2. /\ log' \in Seq(Bodies \cup {Local}) /\ Len(log) \in Nat /\ Len(log') = Len(log) + 1
      /\ \A i \in 1 .. Len(log) : log'[i] = log[i]
      /\ log'[Len(log) + 1] = Local
  BY <1>1, AppendProperties, LenProperties DEF ReplicaInv, TypeOK
<1>3. \A n \in Nat : Splits(n) => Splits(n)'
  BY <1>1, <1>2 DEF Splits
<1>4. ~busy
  BY <1>1 DEF ReplicaInv
<1>5. TypeOK'
  BY <1>1, <1>2 DEF ReplicaInv, TypeOK
<1>6. told <= Len(log) /\ acked <= Len(log) /\ told \in Nat /\ acked \in Nat
  BY DEF ReplicaInv, TypeOK
<1> QED
  BY <1>1, <1>2, <1>3, <1>4, <1>5, <1>6 DEF ReplicaInv

(* Polls, acknowledgements, the end of an import, lost processes and the   *)
(* changes of role move no record.                                         *)
LEMMA QuietReplica ==
  ASSUME ReplicaInv,
         \/ Acknowledge \/ Poll \/ Fail \/ Reopen
         \/ \E heard \in BOOLEAN : Finish(heard)
         \/ \E role \in BOOLEAN : Attach(role)
         \/ UNCHANGED vars
  PROVE  ReplicaInv'
<1>1. Len(log) \in Nat
  BY LenProperties DEF ReplicaInv, TypeOK
<1>2. UNCHANGED <<source, log>>
  BY DEF Acknowledge, Poll, Fail, Reopen, Finish, Attach, vars, replica
<1>3. \A n \in Nat : Splits(n) => Splits(n)'
  BY <1>2 DEF Splits
<1>4. importing' \in {importing, <<>>} /\ checkpoint' \in {checkpoint, Len(log)}
      /\ readOnly' \in BOOLEAN /\ running' \in BOOLEAN /\ busy' \in BOOLEAN
      /\ failures' \in {failures, failures + 1}
      /\ told' \in {told, Len(log)} /\ acked' \in {acked, told}
  BY DEF Acknowledge, Poll, Fail, Reopen, Finish, Attach, Recover, vars, replica,
         ReplicaInv, TypeOK
<1>5. TypeOK'
  <2>1. importing' \in Seq(Bodies)
    <3>1. <<>> \in Seq(Bodies) /\ importing \in Seq(Bodies)
      BY EmptySeq DEF ReplicaInv, TypeOK
    <3> QED
      BY <1>4, <3>1
  <2> QED
    <3>1. /\ source' \in Seq(Bodies) /\ log' \in Seq(Bodies \cup {Local})
          /\ checkpoint' \in Nat /\ failures' \in Nat /\ told' \in Nat /\ acked' \in Nat
      BY <1>1, <1>2, <1>4 DEF ReplicaInv, TypeOK
    <3> QED
      BY <1>4, <2>1, <3>1 DEF TypeOK
<1>6. told' <= Len(log') /\ acked' <= Len(log')
  BY <1>1, <1>2, <1>4 DEF ReplicaInv
<1>7. busy' => busy /\ UNCHANGED <<readOnly, running, importing>>
  BY DEF Acknowledge, Poll, Fail, Reopen, Finish, Attach, vars, replica, ReplicaInv
<1>8. busy' => readOnly' /\ running' /\ Continuing'
  BY <1>2, <1>7 DEF ReplicaInv, Continuing, Splits
<1> QED
  BY <1>3, <1>5, <1>6, <1>8 DEF ReplicaInv

(* Every step keeps the invariant.                                         *)
LEMMA StepReplica == ReplicaInv /\ [Next]_vars => ReplicaInv'
BY WriteReplica, ImportReplica, AppendReplica, WriteLocalReplica, QuietReplica DEF Next

(* Whatever arrives, in whatever order and however often, and wherever an  *)
(* import is cut off, a replica's log is a prefix of its source's, followed *)
(* at most by records it wrote itself while promoted, and its cursor gives *)
(* up only what is on its disk (import_logical, install).                  *)
THEOREM ReplicaConvergence == Spec => []ReplicaIsPrefix
<1>1. ReplicaInv => ReplicaIsPrefix
  <2> SUFFICES ASSUME ReplicaInv
               PROVE  ReplicaIsPrefix
    OBVIOUS
  <2>1. PICK n \in Nat : Splits(n)
    BY DEF ReplicaInv
  <2>2. /\ Len(log) \in Nat /\ Len(source) \in Nat /\ n <= Len(log) /\ n <= Len(source)
        /\ log \in Seq(Bodies \cup {Local}) /\ source \in Seq(Bodies)
    BY <2>1, LenProperties DEF ReplicaInv, TypeOK, Splits
  <2>3. /\ \A i \in 1 .. n : log[i] \in Bodies \cup {Local}
        /\ \A i \in 1 .. n : source[i] \in Bodies \cup {Local}
    BY <2>2, ElementOfSeq
  <2> DEFINE p == SubSeq(log, 1, n)
             q == SubSeq(source, 1, n)
  <2>4. /\ p \in Seq(Bodies \cup {Local}) /\ Len(p) = n
        /\ q \in Seq(Bodies \cup {Local}) /\ Len(q) = n
        /\ \A i \in 1 .. n : p[i] = log[i] /\ q[i] = source[i]
    BY <2>2, <2>3, SubSeqProperties
  <2> HIDE DEF p, q
  <2>5. p = q
    BY <2>1, <2>4, SeqEqual DEF Splits
  <2>6. SubSeq(p, 1, n) = p
    BY <2>4, SubSeqFull
  <2>7. IsPrefix(p, source)
    BY <2>2, <2>4, <2>5, <2>6 DEF IsPrefix, q
  <2>8. n \in 0 .. Len(log) /\ \A i \in n + 1 .. Len(log) : log[i] = Local
    BY <2>1, <2>2 DEF Splits
  <2> QED
    BY <2>7, <2>8 DEF ReplicaIsPrefix, ReplicaInv, Prefix, p
<1> QED
  BY InitReplica, StepReplica, <1>1, PTL DEF Spec
=============================================================================
