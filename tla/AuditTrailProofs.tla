--------------------------- MODULE AuditTrailProofs ----------------------------
(***************************************************************************)
(* The way of a record from its resolution to the file, proved for any     *)
(* number of approvals and close sequences and any capacity of the audit   *)
(* channel.                                                                *)
(***************************************************************************)
EXTENDS AuditTrail, SequenceTheorems, FiniteSetTheorems, TLAPS

Messages ==
  [kind : {"write"}, from : Records] \cup [kind : {"flush", "shutdown"}, from : Closers]

(* What a message in the channel says of its sender. *)
Holds(m) ==
  /\ m.kind = "write" => record[m.from] = "queued"
  /\ m.kind = "flush" => closer[m.from] = "flushing"
  /\ m.kind = "shutdown" => closer[m.from] = "stopping_audit"

(* Each message is in the channel once, its sender waits for it, and every queued
   record is in it. *)
ChannelIsRight ==
  /\ \A k \in 1..Len(channel) : Holds(channel[k])
  /\ \A j, k \in 1..Len(channel) : channel[j] = channel[k] => j = k
  /\ \A r \in Records : record[r] = "queued" =>
       \E k \in 1..Len(channel) : channel[k] = Message("write", r)

(* The file holds each written record once, and no other. *)
FileIsRight ==
  /\ \A k \in 1..Len(file) : record[file[k]] = "written"
  /\ \A j, k \in 1..Len(file) : file[j] = file[k] => j = k
  /\ \A r \in Records : record[r] = "written" => \E k \in 1..Len(file) : file[k] = r

(* What a flush covers has left the channel or is before it. *)
FlushIsBehind ==
  \A k \in 1..Len(channel) : channel[k].kind = "flush" =>
    \A r \in covered[channel[k].from] :
      \/ record[r] \in {"written", "failed"}
      \/ \E j \in 1..(k - 1) : channel[j] = Message("write", r)

(* A writer that has stopped has dropped its channel. *)
StoppedIsEmpty == writer = "stopped" => Len(channel) = 0

(* A submission that has not been served has left no record. *)
Begun == \A r \in Records : request[r] \in {"none", "arrived"} => record[r] = "none"

Inv ==
  /\ TypeOK
  /\ Begun
  /\ ChannelIsRight
  /\ FileIsRight
  /\ FlushIsBehind
  /\ StoppedIsEmpty
  /\ LostOnlyAtExit

--------------------------------------------------------------------------------
(* The channel, as a sequence of messages. *)
LEMMA ChannelType ==
  ASSUME Inv
  PROVE  /\ channel \in Seq(Messages) /\ Len(channel) \in Nat
         /\ \A k \in 1..Len(channel) : channel[k] \in Messages
         /\ file \in Seq(Records) /\ Len(file) \in Nat
         /\ \A k \in 1..Len(file) : file[k] \in Records
<1>1. channel \in Seq(Messages) /\ file \in Seq(Records)
  BY DEF Inv, TypeOK, Messages
<1>2. \A k \in 1..Len(channel) : channel[k] \in Messages
  BY <1>1, ElementOfSeq
<1>3. \A k \in 1..Len(file) : file[k] \in Records
  BY <1>1, ElementOfSeq
<1> QED BY <1>1, <1>2, <1>3, LenProperties

(* A step that leaves the channel, the file and the writer, that takes no record from
   the channel or to the file, and moves no closer that waits for the writer. *)
LEMMA Aside ==
  ASSUME Inv, UNCHANGED <<channel, writer, file, covered>>, TypeOK', Begun',
         \A r \in Records :
           \/ record'[r] = record[r]
           \/ /\ record[r] \notin {"queued", "written", "failed"}
              /\ record'[r] \notin {"queued", "written", "failed"}
              /\ record'[r] = "lost" => writer = "stopped",
         \A c \in Closers :
           closer[c] \in {"flushing", "stopping_audit"} => closer'[c] = closer[c]
  PROVE  Inv'
<1>1. /\ \A k \in 1..Len(channel) : channel[k] \in Messages
      /\ \A k \in 1..Len(file) : file[k] \in Records
  BY ChannelType
<1>2. ChannelIsRight'
  BY <1>1 DEF Inv, ChannelIsRight, Holds, Messages
<1>3. FileIsRight'
  BY <1>1 DEF Inv, FileIsRight
<1>4. FlushIsBehind'
  <2> SUFFICES ASSUME NEW k \in 1..Len(channel), channel[k].kind = "flush",
                      NEW r \in covered[channel[k].from]
               PROVE  \/ record'[r] \in {"written", "failed"}
                      \/ \E j \in 1..(k - 1) : channel[j] = Message("write", r)
    BY DEF FlushIsBehind
  <2>1. r \in Records
    BY <1>1 DEF Inv, TypeOK, Messages
  <2> QED BY <2>1 DEF Inv, FlushIsBehind
<1>5. StoppedIsEmpty' /\ LostOnlyAtExit'
  BY DEF Inv, StoppedIsEmpty, LostOnlyAtExit
<1> QED BY <1>2, <1>3, <1>4, <1>5 DEF Inv

(* The channel after a message has joined it. *)
LEMMA Joined ==
  ASSUME Inv, NEW m \in Messages, channel' = Append(channel, m)
  PROVE  /\ channel' \in Seq(Messages)
         /\ Len(channel') = Len(channel) + 1
         /\ \A k \in 1..Len(channel) : channel'[k] = channel[k]
         /\ channel'[Len(channel) + 1] = m
BY ChannelType, AppendProperties

(* A message joins the channel: a record that was on its way, or a question of a close
   sequence that waits for the answer from now on. *)
LEMMA MessageJoins ==
  ASSUME Inv, TypeOK', UNCHANGED <<writer, file, request>>, writer = "running",
         NEW m \in Messages, channel' = Append(channel, m), Holds(m)',
         \A k \in 1..Len(channel) : Holds(channel[k])',
         \A k \in 1..Len(channel) : channel[k] # m,
         \A r \in Records :
           \/ record'[r] = record[r]
           \/ record[r] = "spawned" /\ record'[r] = "queued" /\ m = Message("write", r),
         \A k \in 1..Len(channel) : channel[k].kind = "flush" =>
           covered'[channel[k].from] = covered[channel[k].from],
         m.kind = "flush" => covered'[m.from] = Senders({"write"})
  PROVE  Inv'
<1> DEFINE n == Len(channel)
<1>1. /\ n \in Nat /\ \A k \in 1..n : channel[k] \in Messages
      /\ \A k \in 1..Len(file) : file[k] \in Records
  BY ChannelType
<1>2. /\ Len(channel') = n + 1
      /\ \A k \in 1..n : channel'[k] = channel[k]
      /\ channel'[n + 1] = m
  BY Joined
<1>3. \A k \in 1..(n + 1) : k \in 1..n \/ k = n + 1
  BY <1>1
<1> HIDE DEF n
<1>4. ChannelIsRight'
  <2>1. \A k \in 1..(n + 1) : Holds(channel[k])'
    <3> SUFFICES ASSUME NEW k \in 1..(n + 1) PROVE Holds(channel[k])'
      OBVIOUS
    <3>1. CASE k \in 1..n
      BY <3>1 DEF n
    <3>2. CASE k = n + 1
      BY <1>2, <3>2 DEF Holds
    <3> QED BY <1>3, <3>1, <3>2
  <2>2. \A j, k \in 1..(n + 1) : channel'[j] = channel'[k] => j = k
    <3> SUFFICES ASSUME NEW j \in 1..(n + 1), NEW k \in 1..(n + 1),
                        channel'[j] = channel'[k]
                 PROVE  j = k
      OBVIOUS
    <3>1. \A i \in 1..n : channel[i] # m
      BY DEF n
    <3>2. CASE j \in 1..n /\ k \in 1..n
      BY <1>2, <3>2 DEF Inv, ChannelIsRight, n
    <3>3. CASE j = n + 1 \/ k = n + 1
      BY <1>2, <1>3, <3>1, <3>3
    <3> QED BY <1>3, <3>2, <3>3
  <2>3. \A r \in Records : record'[r] = "queued" =>
          \E k \in 1..(n + 1) : channel'[k] = Message("write", r)
    <3> SUFFICES ASSUME NEW r \in Records, record'[r] = "queued"
                 PROVE  \E k \in 1..(n + 1) : channel'[k] = Message("write", r)
      OBVIOUS
    <3>1. CASE record'[r] = record[r]
      <4>1. PICK k \in 1..n : channel[k] = Message("write", r)
        BY <3>1 DEF Inv, ChannelIsRight, n
      <4>2. k \in 1..(n + 1)
        BY <1>1
      <4> QED BY <1>2, <4>1, <4>2
    <3>2. CASE m = Message("write", r)
      <4>1. n + 1 \in 1..(n + 1)
        BY <1>1
      <4> QED BY <1>2, <3>2, <4>1
    <3> QED BY <3>1, <3>2
  <2> QED BY <1>2, <2>1, <2>2, <2>3 DEF ChannelIsRight
<1>5. FileIsRight'
  <2>1. \A r \in Records : record'[r] = "written" <=> record[r] = "written"
    OBVIOUS
  <2> QED BY <1>1, <2>1 DEF Inv, FileIsRight
<1>6. FlushIsBehind'
  <2> SUFFICES ASSUME NEW k \in 1..(n + 1), channel'[k].kind = "flush",
                      NEW r \in covered'[channel'[k].from]
               PROVE  \/ record'[r] \in {"written", "failed"}
                      \/ \E j \in 1..(k - 1) : channel'[j] = Message("write", r)
    BY <1>2 DEF FlushIsBehind
  <2>1. CASE k \in 1..n
    <3>1. channel'[k] = channel[k] /\ r \in covered[channel[k].from]
      BY <1>2, <2>1 DEF n
    <3>2. channel[k] \in Messages /\ channel[k].kind = "flush"
      BY <1>1, <1>2, <2>1
    <3>3. r \in Records
      BY <3>1, <3>2 DEF Inv, TypeOK, Messages
    <3>4. \/ record[r] \in {"written", "failed"}
          \/ \E j \in 1..(k - 1) : channel[j] = Message("write", r)
      BY <2>1, <3>1, <3>2 DEF Inv, FlushIsBehind, n
    <3>5. CASE record[r] \in {"written", "failed"}
      BY <3>3, <3>5
    <3>6. CASE \E j \in 1..(k - 1) : channel[j] = Message("write", r)
      <4>1. PICK j \in 1..(k - 1) : channel[j] = Message("write", r)
        BY <3>6
      <4>2. j \in 1..n
        BY <1>1, <2>1
      <4> QED BY <1>2, <4>1, <4>2
    <3> QED BY <3>4, <3>5, <3>6
  <2>2. CASE k = n + 1
    <3>1. m.kind = "flush" /\ r \in Senders({"write"})
      BY <1>2, <2>2
    <3>2. PICK j \in 1..n : channel[j].kind = "write" /\ channel[j].from = r
      BY <3>1 DEF Senders, n
    <3>3. channel[j] = Message("write", r)
      BY <1>1, <3>2 DEF Messages, Message
    <3>4. j \in 1..(k - 1)
      BY <1>1, <2>2
    <3> QED BY <1>2, <3>2, <3>3, <3>4
  <2> QED BY <1>3, <2>1, <2>2
<1>7. StoppedIsEmpty' /\ LostOnlyAtExit' /\ Begun'
  <2>1. \A r \in Records : record'[r] = "lost" => record[r] = "lost"
    OBVIOUS
  <2>2. \A r \in Records : record'[r] = record[r] \/ record[r] = "spawned"
    OBVIOUS
  <2> QED BY <2>1, <2>2 DEF Inv, StoppedIsEmpty, LostOnlyAtExit, Begun
<1> QED BY <1>4, <1>5, <1>6, <1>7 DEF Inv

(* The channel after its first message was taken. *)
LEMMA Taken ==
  ASSUME Inv, channel # <<>>, channel' = Tail(channel)
  PROVE  /\ Len(channel) \in Nat \ {0}
         /\ channel' \in Seq(Messages)
         /\ Len(channel') = Len(channel) - 1
         /\ \A k \in 1..(Len(channel) - 1) : channel'[k] = channel[k + 1]
         /\ Head(channel) = channel[1]
         /\ channel[1] \in Messages
<1>1. /\ channel \in Seq(Messages)
      /\ \A k \in 1..Len(channel) : channel[k] \in Messages
  BY ChannelType
<1>2. Len(channel) \in Nat \ {0}
  BY <1>1, EmptySeq
<1>3. /\ Tail(channel) \in Seq(Messages) /\ Len(Tail(channel)) = Len(channel) - 1
      /\ \A k \in 1..Len(Tail(channel)) : Tail(channel)[k] = channel[k + 1]
  BY <1>1, HeadTailProperties
<1>4. Head(channel) = channel[1]
  BY <1>1
<1>5. channel[1] \in Messages
  BY <1>1, <1>2
<1> QED BY <1>2, <1>3, <1>4, <1>5

(* Taking the first message leaves the others right, each one place further on. *)
LEMMA ChannelMovesOn ==
  ASSUME Inv, channel # <<>>, channel' = Tail(channel), covered' = covered,
         \A k \in 2..Len(channel) : Holds(channel[k]) =>
           /\ channel[k].kind = "write" => record'[channel[k].from] = "queued"
           /\ channel[k].kind = "flush" => closer'[channel[k].from] = "flushing"
           /\ channel[k].kind = "shutdown" => closer'[channel[k].from] = "stopping_audit",
         \A r \in Records :
           \/ record'[r] = record[r]
           \/ channel[1] = Message("write", r) /\ record'[r] \in {"written", "failed"},
         \A r \in Records : channel[1] = Message("write", r) =>
           record'[r] \in {"written", "failed"}
  PROVE  ChannelIsRight' /\ FlushIsBehind'
<1> DEFINE n == Len(channel)
<1>1. /\ n \in Nat \ {0} /\ Len(channel') = n - 1
      /\ \A k \in 1..(n - 1) : channel'[k] = channel[k + 1]
      /\ \A k \in 1..n : channel[k] \in Messages
  BY Taken, ChannelType
<1>2. \A k \in 1..(n - 1) : k + 1 \in 1..n /\ k + 1 \in 2..n
  BY <1>1
<1> HIDE DEF n
<1>3. \A k \in 1..(n - 1) : Holds(channel[k])'
  <2> SUFFICES ASSUME NEW k \in 1..(n - 1) PROVE Holds(channel[k])'
    OBVIOUS
  <2>1. Holds(channel[k + 1])
    BY <1>2 DEF Inv, ChannelIsRight, n
  <2>2. channel'[k] = channel[k + 1] /\ k + 1 \in 2..Len(channel)
    BY <1>1, <1>2 DEF n
  <2> QED BY <2>1, <2>2 DEF Holds
<1>4. \A j, k \in 1..(n - 1) : channel'[j] = channel'[k] => j = k
  <2> SUFFICES ASSUME NEW j \in 1..(n - 1), NEW k \in 1..(n - 1), channel'[j] = channel'[k]
               PROVE  j = k
    OBVIOUS
  <2>1. channel[j + 1] = channel[k + 1] /\ j + 1 \in 1..n /\ k + 1 \in 1..n
    BY <1>1, <1>2
  <2>2. j + 1 = k + 1
    BY <2>1 DEF Inv, ChannelIsRight, n
  <2> QED BY <1>1, <2>2
<1>5. \A r \in Records : record'[r] = "queued" =>
        \E k \in 1..(n - 1) : channel'[k] = Message("write", r)
  <2> SUFFICES ASSUME NEW r \in Records, record'[r] = "queued"
               PROVE  \E k \in 1..(n - 1) : channel'[k] = Message("write", r)
    OBVIOUS
  <2>1. record[r] = "queued" /\ channel[1] # Message("write", r)
    OBVIOUS
  <2>2. PICK k \in 1..n : channel[k] = Message("write", r)
    BY <2>1 DEF Inv, ChannelIsRight, n
  <2>3. k - 1 \in 1..(n - 1) /\ (k - 1) + 1 = k
    BY <1>1, <2>1, <2>2
  <2>4. channel'[k - 1] = channel[k]
    BY <1>1, <2>3
  <2> QED BY <2>2, <2>3, <2>4
<1>6. ASSUME NEW k \in 1..(n - 1), channel'[k].kind = "flush",
             NEW r \in covered[channel'[k].from]
      PROVE  \/ record'[r] \in {"written", "failed"}
             \/ \E j \in 1..(k - 1) : channel'[j] = Message("write", r)
  <2>1. /\ channel'[k] = channel[k + 1] /\ k + 1 \in 1..n
        /\ channel[k + 1].kind = "flush" /\ r \in covered[channel[k + 1].from]
    BY <1>1, <1>2, <1>6
  <2>2. r \in Records
    BY <1>1, <2>1 DEF Inv, TypeOK, Messages
  <2>3. \/ record[r] \in {"written", "failed"}
        \/ \E j \in 1..((k + 1) - 1) : channel[j] = Message("write", r)
    BY <2>1 DEF Inv, FlushIsBehind, n
  <2>4. CASE record[r] \in {"written", "failed"}
    BY <2>2, <2>4
  <2>5. CASE \E j \in 1..((k + 1) - 1) : channel[j] = Message("write", r)
    <3>1. PICK j \in 1..((k + 1) - 1) : channel[j] = Message("write", r)
      BY <2>5
    <3>2. CASE j = 1
      BY <2>2, <3>1, <3>2
    <3>3. CASE j # 1
      <4>1. j - 1 \in 1..(k - 1) /\ j - 1 \in 1..(n - 1) /\ (j - 1) + 1 = j
        BY <1>1, <3>3
      <4>2. channel'[j - 1] = channel[j]
        BY <1>1, <4>1
      <4> QED BY <3>1, <4>1, <4>2
    <3> QED BY <3>2, <3>3
  <2> QED BY <2>3, <2>4, <2>5
<1>7. ChannelIsRight'
  BY <1>1, <1>3, <1>4, <1>5 DEF ChannelIsRight
<1> QED BY <1>1, <1>6, <1>7 DEF FlushIsBehind

(* The first message is of its kind, and no other is the same. *)
LEMMA FirstMessage ==
  ASSUME Inv, channel # <<>>, NEW x, channel[1].from = x
  PROVE  /\ Holds(channel[1])
         /\ channel[1].kind = "write" => x \in Records /\ channel[1] = Message("write", x)
         /\ channel[1].kind # "write" => x \in Closers
         /\ \A k \in 2..Len(channel) :
              channel[k] \in Messages /\ (channel[k].kind = channel[1].kind => channel[k].from # x)
<1>1. /\ Len(channel) \in Nat \ {0} /\ channel[1] \in Messages
      /\ \A k \in 1..Len(channel) : channel[k] \in Messages
  <2>1. channel \in Seq(Messages) /\ \A k \in 1..Len(channel) : channel[k] \in Messages
    BY ChannelType
  <2>2. Len(channel) \in Nat \ {0}
    BY <2>1, EmptySeq
  <2> QED BY <2>1, <2>2
<1>2. 1 \in 1..Len(channel)
  BY <1>1
<1>3. Holds(channel[1])
  BY <1>2 DEF Inv, ChannelIsRight
<1>4. ASSUME NEW k \in 2..Len(channel)
      PROVE  channel[k] \in Messages /\ (channel[k].kind = channel[1].kind => channel[k].from # x)
  <2>1. k \in 1..Len(channel) /\ k # 1
    BY <1>1
  <2>2. channel[k] # channel[1]
    BY <1>2, <2>1 DEF Inv, ChannelIsRight
  <2>3. channel[k] \in Messages
    BY <1>1, <2>1
  <2> QED BY <1>1, <2>2, <2>3 DEF Messages
<1>5. channel[1].kind = "write" => x \in Records /\ channel[1] = Message("write", x)
  BY <1>1 DEF Messages, Message
<1>6. channel[1].kind # "write" => x \in Closers
  BY <1>1 DEF Messages
<1> QED BY <1>3, <1>4, <1>5, <1>6

(* The writer takes a record: it is written or it has failed. *)
LEMMA WritesStep ==
  ASSUME Inv, WriterWrites
  PROVE  Inv'
<1> DEFINE r == channel[1].from
<1>1. /\ channel # <<>> /\ channel' = Tail(channel) /\ writer = "running"
      /\ UNCHANGED <<accepting, request, writer, shutting, closer, covered, cancelled,
                     window>>
      /\ Head(channel).kind = "write"
      /\ \/ /\ file' = Append(file, Head(channel).from)
            /\ record' = [record EXCEPT ![Head(channel).from] = "written"]
         \/ /\ record' = [record EXCEPT ![Head(channel).from] = "failed"]
            /\ UNCHANGED file
  BY DEF WriterWrites
<1>2. /\ Head(channel) = channel[1] /\ Len(channel) \in Nat \ {0}
      /\ channel' \in Seq(Messages) /\ Len(channel') = Len(channel) - 1
      /\ channel[1] \in Messages
  BY <1>1, Taken
<1>3. /\ Holds(channel[1]) /\ r \in Records /\ channel[1] = Message("write", r)
      /\ \A k \in 2..Len(channel) :
           channel[k] \in Messages /\ (channel[k].kind = "write" => channel[k].from # r)
  BY <1>1, <1>2, FirstMessage
<1>4. record[r] = "queued"
  BY <1>1, <1>2, <1>3 DEF Holds
<1>5. \/ /\ file' = Append(file, r) /\ record' = [record EXCEPT ![r] = "written"]
      \/ /\ record' = [record EXCEPT ![r] = "failed"] /\ file' = file
  BY <1>1, <1>2
<1>6. /\ file \in Seq(Records) /\ Len(file) \in Nat
      /\ \A k \in 1..Len(file) : file[k] \in Records
  BY ChannelType
<1>7. channel[1] \in [kind : {"write"}, from : Records]
  BY <1>1, <1>2 DEF Messages
<1> HIDE DEF r
<1>8. /\ \A q \in Records \ {r} : record'[q] = record[q]
      /\ record'[r] \in {"written", "failed"}
      /\ record' \in [Records -> {"none", "pending", "spawned", "queued", "written",
                                  "failed", "lost", "expired"}]
  BY <1>3, <1>5 DEF Inv, TypeOK
<1>9. TypeOK'
  <2>1. file' \in Seq(Records)
    BY <1>3, <1>5, <1>6, AppendProperties
  <2>2. channel' \in Seq([kind : {"write"}, from : Records]
                       \cup [kind : {"flush", "shutdown"}, from : Closers])
    BY <1>2 DEF Messages
  <2>3. Len(channel') <= Capacity
    BY <1>2, AuditAssumption DEF Inv, TypeOK
  <2> QED BY <1>1, <1>8, <2>1, <2>2, <2>3 DEF Inv, TypeOK
<1>10. ChannelIsRight' /\ FlushIsBehind'
  <2>1. \A k \in 2..Len(channel) : Holds(channel[k]) =>
          /\ channel[k].kind = "write" => record'[channel[k].from] = "queued"
          /\ channel[k].kind = "flush" => closer'[channel[k].from] = "flushing"
          /\ channel[k].kind = "shutdown" => closer'[channel[k].from] = "stopping_audit"
    BY <1>1, <1>3, <1>8 DEF Holds, Messages
  <2>2. \A q \in Records :
          \/ record'[q] = record[q]
          \/ channel[1] = Message("write", q) /\ record'[q] \in {"written", "failed"}
    BY <1>3, <1>8
  <2>3. \A q \in Records : channel[1] = Message("write", q) =>
          record'[q] \in {"written", "failed"}
    BY <1>3, <1>8 DEF Message
  <2>4. covered' = covered
    BY <1>1
  <2> QED BY <1>1, <2>1, <2>2, <2>3, <2>4, ChannelMovesOn
<1>11. FileIsRight'
  <2>1. \A k \in 1..Len(file) : file[k] # r /\ record'[file[k]] = "written"
    BY <1>4, <1>6, <1>8 DEF Inv, FileIsRight
  <2>2. CASE file' = file /\ record'[r] = "failed"
    BY <1>8, <2>1, <2>2 DEF Inv, FileIsRight
  <2>3. CASE file' = Append(file, r) /\ record'[r] = "written"
    <3>1. /\ Len(file') = Len(file) + 1
          /\ \A k \in 1..Len(file) : file'[k] = file[k]
          /\ file'[Len(file) + 1] = r
      BY <1>3, <1>6, <2>3, AppendProperties
    <3>2. \A k \in 1..(Len(file) + 1) : k \in 1..Len(file) \/ k = Len(file) + 1
      BY <1>6
    <3>3. \A k \in 1..Len(file') : record'[file'[k]] = "written"
      BY <2>1, <2>3, <3>1, <3>2
    <3>4. \A j, k \in 1..Len(file') : file'[j] = file'[k] => j = k
      BY <2>1, <3>1, <3>2 DEF Inv, FileIsRight
    <3>5. \A q \in Records : record'[q] = "written" => \E k \in 1..Len(file') : file'[k] = q
      <4> SUFFICES ASSUME NEW q \in Records, record'[q] = "written"
                   PROVE  \E k \in 1..Len(file') : file'[k] = q
        OBVIOUS
      <4>1. CASE q = r
        <5>1. Len(file) + 1 \in 1..Len(file')
          BY <1>6, <3>1
        <5> QED BY <3>1, <4>1, <5>1
      <4>2. CASE q # r
        <5>1. PICK k \in 1..Len(file) : file[k] = q
          BY <1>8, <4>2 DEF Inv, FileIsRight
        <5>2. k \in 1..Len(file')
          BY <1>6, <3>1
        <5> QED BY <3>1, <5>1, <5>2
      <4> QED BY <4>1, <4>2
    <3> QED BY <3>3, <3>4, <3>5 DEF FileIsRight
  <2> QED BY <1>3, <1>5, <2>2, <2>3 DEF Inv, TypeOK
<1>12. StoppedIsEmpty' /\ LostOnlyAtExit' /\ Begun'
  <2>1. \A q \in Records : record'[q] = "lost" => record[q] = "lost"
    BY <1>8
  <2>2. \A q \in Records : record'[q] = record[q] \/ record[q] = "queued"
    BY <1>4, <1>8
  <2> QED BY <1>1, <2>1, <2>2 DEF Inv, StoppedIsEmpty, LostOnlyAtExit, Begun
<1> QED BY <1>9, <1>10, <1>11, <1>12 DEF Inv

(* The writer answers a flush. *)
LEMMA FlushesStep ==
  ASSUME Inv, WriterFlushes
  PROVE  /\ Inv'
         /\ \A c \in Closers : closer'[c] = closer[c] \/ channel[1] = Message("flush", c)
<1> DEFINE x == channel[1].from
<1>1. /\ channel # <<>> /\ channel' = Tail(channel) /\ writer = "running"
      /\ UNCHANGED <<accepting, request, record, writer, file, shutting, covered,
                     cancelled, window>>
      /\ Head(channel).kind = "flush"
      /\ Goto(Head(channel).from, "stop_audit")
  BY DEF WriterFlushes
<1>2. /\ Head(channel) = channel[1] /\ Len(channel) \in Nat \ {0}
      /\ channel' \in Seq(Messages) /\ Len(channel') = Len(channel) - 1
      /\ channel[1] \in Messages
  BY <1>1, Taken
<1>3. /\ Holds(channel[1]) /\ x \in Closers
      /\ \A k \in 2..Len(channel) :
           channel[k] \in Messages /\ (channel[k].kind = "flush" => channel[k].from # x)
  BY <1>1, <1>2, FirstMessage
<1>4. closer[x] = "flushing" /\ channel[1] = Message("flush", x)
  BY <1>1, <1>2, <1>3 DEF Holds, Messages, Message
<1>5. Goto(x, "stop_audit")
  BY <1>1, <1>2
<1> HIDE DEF x
<1>6. /\ \A c \in Closers \ {x} : closer'[c] = closer[c]
      /\ closer' \in [Closers -> {"idle", "begin", "cancel", "stop_server", "drain",
                           "flush", "flushing", "stop_audit", "stopping_audit", "close",
                           "done"}]
  BY <1>3, <1>5 DEF Inv, TypeOK, Goto
<1>7. TypeOK'
  <2>1. channel' \in Seq([kind : {"write"}, from : Records]
                       \cup [kind : {"flush", "shutdown"}, from : Closers])
    BY <1>2 DEF Messages
  <2>2. Len(channel') <= Capacity
    BY <1>2, AuditAssumption DEF Inv, TypeOK
  <2> QED BY <1>1, <1>6, <2>1, <2>2 DEF Inv, TypeOK
<1>8. ChannelIsRight' /\ FlushIsBehind'
  <2>1. \A k \in 2..Len(channel) : Holds(channel[k]) =>
          /\ channel[k].kind = "write" => record'[channel[k].from] = "queued"
          /\ channel[k].kind = "flush" => closer'[channel[k].from] = "flushing"
          /\ channel[k].kind = "shutdown" => closer'[channel[k].from] = "stopping_audit"
    <3> SUFFICES ASSUME NEW k \in 2..Len(channel), Holds(channel[k])
                 PROVE  /\ channel[k].kind = "write" => record'[channel[k].from] = "queued"
                        /\ channel[k].kind = "flush" => closer'[channel[k].from] = "flushing"
                        /\ channel[k].kind = "shutdown" =>
                             closer'[channel[k].from] = "stopping_audit"
      OBVIOUS
    <3>1. channel[k].kind # "write" => channel[k].from \in Closers
      BY <1>3 DEF Messages
    <3>2. channel[k].kind = "shutdown" => channel[k].from # x
      BY <1>4 DEF Holds
    <3> QED BY <1>1, <1>3, <1>6, <3>1, <3>2 DEF Holds
  <2>2. \A q \in Records : channel[1] # Message("write", q)
    BY <1>4 DEF Message
  <2>3. record' = record /\ covered' = covered
    BY <1>1
  <2> QED BY <1>1, <2>1, <2>2, <2>3, ChannelMovesOn
<1>9. FileIsRight' /\ StoppedIsEmpty' /\ LostOnlyAtExit' /\ Begun'
  BY <1>1 DEF Inv, FileIsRight, StoppedIsEmpty, LostOnlyAtExit, Begun
<1> QED BY <1>4, <1>6, <1>7, <1>8, <1>9 DEF Inv

(* The writer stops: what is queued is lost, and no message is left. *)
LEMMA StopsStep ==
  ASSUME Inv, WriterStops
  PROVE  Inv'
<1>1. /\ writer' = "stopped" /\ channel' = <<>>
      /\ UNCHANGED <<accepting, request, file, shutting, covered, cancelled, window>>
      /\ closer' = [c \in Closers |->
           IF c \in Senders({"flush"}) THEN "stop_audit"
           ELSE IF c \in Senders({"shutdown"}) THEN "close" ELSE closer[c]]
      /\ record' = [r \in Records |->
           IF r \in Senders({"write"}) THEN "lost" ELSE record[r]]
  BY DEF WriterStops
<1>2. channel' \in Seq(Messages) /\ Len(channel') = 0
  BY <1>1, EmptySeq
<1>3. /\ \A k \in 1..Len(channel) : channel[k] \in Messages
      /\ \A k \in 1..Len(file) : file[k] \in Records
  BY ChannelType
<1>4. ASSUME NEW r \in Records
      PROVE  r \in Senders({"write"}) <=> record[r] = "queued"
  <2>1. ASSUME r \in Senders({"write"}) PROVE record[r] = "queued"
    <3>1. PICK k \in 1..Len(channel) : channel[k].kind = "write" /\ channel[k].from = r
      BY <2>1 DEF Senders
    <3> QED BY <3>1 DEF Inv, ChannelIsRight, Holds
  <2>2. ASSUME record[r] = "queued" PROVE r \in Senders({"write"})
    <3>1. PICK k \in 1..Len(channel) : channel[k] = Message("write", r)
      BY <2>2 DEF Inv, ChannelIsRight
    <3> QED BY <3>1 DEF Senders, Message
  <2> QED BY <2>1, <2>2
<1>5. \A r \in Records : record'[r] = IF record[r] = "queued" THEN "lost" ELSE record[r]
  BY <1>1, <1>4
<1>6. TypeOK'
  <2>1. channel' \in Seq([kind : {"write"}, from : Records]
                       \cup [kind : {"flush", "shutdown"}, from : Closers])
    BY <1>2 DEF Messages
  <2>2. Len(channel') <= Capacity
    BY <1>2, AuditAssumption
  <2>3. /\ record' \in [Records -> {"none", "pending", "spawned", "queued", "written",
                                   "failed", "lost", "expired"}]
        /\ closer' \in [Closers -> {"idle", "begin", "cancel", "stop_server", "drain",
                           "flush", "flushing", "stop_audit", "stopping_audit", "close",
                           "done"}]
    BY <1>1 DEF Inv, TypeOK
  <2> QED BY <1>1, <2>1, <2>2, <2>3 DEF Inv, TypeOK
<1>7. ChannelIsRight'
  <2>1. \A r \in Records : record'[r] # "queued"
    BY <1>5
  <2> QED BY <1>2, <2>1 DEF ChannelIsRight
<1>8. FileIsRight'
  <2>1. \A r \in Records : record'[r] = "written" <=> record[r] = "written"
    BY <1>5
  <2> QED BY <1>1, <1>3, <2>1 DEF Inv, FileIsRight
<1>9. Begun'
  BY <1>1, <1>5 DEF Inv, Begun
<1>10. FlushIsBehind' /\ StoppedIsEmpty' /\ LostOnlyAtExit'
  BY <1>1, <1>2 DEF FlushIsBehind, StoppedIsEmpty, LostOnlyAtExit
<1> QED BY <1>6, <1>7, <1>8, <1>9, <1>10 DEF Inv

(* A task sends its record. *)
LEMMA SendsStep ==
  ASSUME Inv, NEW r \in Records, SendRecord(r)
  PROVE  Inv'
<1>1. /\ record[r] = "spawned"
      /\ UNCHANGED <<accepting, request, writer, file, shutting, closer, covered,
                     cancelled, window>>
      /\ \/ /\ writer = "running" /\ HasRoom
            /\ channel' = Append(channel, Message("write", r))
            /\ record' = [record EXCEPT ![r] = "queued"]
         \/ /\ writer = "stopped"
            /\ record' = [record EXCEPT ![r] = "lost"]
            /\ channel' = channel
  BY DEF SendRecord
<1>2. record \in [Records -> {"none", "pending", "spawned", "queued", "written",
                             "failed", "lost", "expired"}]
  BY DEF Inv, TypeOK
<1>3. CASE writer = "stopped" /\ record' = [record EXCEPT ![r] = "lost"] /\ channel' = channel
  <2>1. record'[r] = "lost" /\ \A q \in Records \ {r} : record'[q] = record[q]
    BY <1>2, <1>3
  <2>2. TypeOK'
    BY <1>1, <1>2, <1>3 DEF Inv, TypeOK
  <2>3. Begun'
    BY <1>1, <2>1 DEF Inv, Begun
  <2> QED BY <1>1, <1>3, <2>1, <2>2, <2>3, Aside
<1>4. CASE /\ writer = "running" /\ HasRoom
           /\ channel' = Append(channel, Message("write", r))
           /\ record' = [record EXCEPT ![r] = "queued"]
  <2> DEFINE m == Message("write", r)
  <2>1. m \in Messages /\ m.kind = "write" /\ m.from = r
    BY DEF Message, Messages
  <2>2. record'[r] = "queued" /\ \A q \in Records \ {r} : record'[q] = record[q]
    BY <1>2, <1>4
  <2>3. channel' = Append(channel, m)
    BY <1>4
  <2> HIDE DEF m
  <2>4. channel' \in Seq(Messages) /\ Len(channel') = Len(channel) + 1
    BY <2>1, <2>3, Joined
  <2>5. TypeOK'
    <3>1. Len(channel') <= Capacity
      BY <1>4, <2>4, ChannelType, AuditAssumption DEF HasRoom
    <3>2. channel' \in Seq([kind : {"write"}, from : Records]
                         \cup [kind : {"flush", "shutdown"}, from : Closers])
      BY <2>4 DEF Messages
    <3>3. record' \in [Records -> {"none", "pending", "spawned", "queued", "written",
                                  "failed", "lost", "expired"}]
      BY <1>2, <1>4
    <3> QED BY <1>1, <3>1, <3>2, <3>3 DEF Inv, TypeOK
  <2>6. Holds(m)'
    BY <2>1, <2>2 DEF Holds
  <2>7. \A k \in 1..Len(channel) : channel[k] # m
    <3> SUFFICES ASSUME NEW k \in 1..Len(channel), channel[k] = m PROVE FALSE
      OBVIOUS
    <3>1. Holds(m)
      BY DEF Inv, ChannelIsRight
    <3> QED BY <1>1, <2>1, <3>1 DEF Holds
  <2>8. \A k \in 1..Len(channel) : Holds(channel[k])'
    <3> SUFFICES ASSUME NEW k \in 1..Len(channel) PROVE Holds(channel[k])'
      OBVIOUS
    <3>1. Holds(channel[k]) /\ channel[k] \in Messages
      BY ChannelType DEF Inv, ChannelIsRight
    <3>2. channel'[k] = channel[k]
      BY <2>1, <2>3, Joined
    <3>3. channel[k].kind = "write" => channel[k].from \in Records
      BY <3>1 DEF Messages
    <3> QED BY <1>1, <2>2, <3>1, <3>2, <3>3 DEF Holds
  <2>9. \A q \in Records :
          \/ record'[q] = record[q]
          \/ record[q] = "spawned" /\ record'[q] = "queued" /\ m = Message("write", q)
    BY <1>1, <2>2 DEF m
  <2>10. /\ \A k \in 1..Len(channel) : channel[k].kind = "flush" =>
              covered'[channel[k].from] = covered[channel[k].from]
         /\ m.kind = "flush" => covered'[m.from] = Senders({"write"})
    BY <1>1, <2>1
  <2> QED BY <1>1, <1>4, <2>1, <2>3, <2>5, <2>6, <2>7, <2>8, <2>9, <2>10, MessageJoins
<1> QED BY <1>1, <1>3, <1>4

(* A close sequence asks for a flush or for the end of the writer. *)
LEMMA AsksStep ==
  ASSUME Inv, NEW c \in Closers, AskFlush(c) \/ AskShutdown(c)
  PROVE  Inv' /\ (\A x \in Closers : closer[x] = "flushing" => closer'[x] = closer[x])
<1> DEFINE Places == {"idle", "begin", "cancel", "stop_server", "drain", "flush",
                      "flushing", "stop_audit", "stopping_audit", "close", "done"}
<1>1. /\ UNCHANGED <<accepting, request, record, writer, file, shutting, cancelled, window>>
      /\ covered' \in [Closers -> SUBSET Records]
      /\ \A x \in Closers \ {c} : covered'[x] = covered[x]
  <2>1. CASE AskFlush(c)
    <3>1. Senders({"write"}) \subseteq Records
      <4> SUFFICES ASSUME NEW r \in Senders({"write"}) PROVE r \in Records
        OBVIOUS
      <4>1. PICK k \in 1..Len(channel) : channel[k].kind = "write" /\ channel[k].from = r
        BY DEF Senders
      <4>2. channel[k] \in Messages
        BY ChannelType
      <4> QED BY <4>1, <4>2 DEF Messages
    <3> QED BY <2>1, <3>1 DEF AskFlush, Ask, Inv, TypeOK
  <2>2. CASE AskShutdown(c)
    BY <2>2 DEF AskShutdown, Inv, TypeOK
  <2> QED BY <2>1, <2>2
<1>2. PICK kind \in {"flush", "shutdown"} :
        \E waiting \in Places, from \in Places :
          /\ closer[c] = from /\ from \notin {"flushing", "stopping_audit"}
          /\ kind = "flush" => waiting = "flushing" /\ covered' = [covered EXCEPT ![c] = Senders({"write"})]
          /\ kind = "shutdown" => waiting = "stopping_audit" /\ covered' = covered
          /\ \/ /\ writer = "running" /\ HasRoom
                /\ channel' = Append(channel, Message(kind, c))
                /\ closer' = [closer EXCEPT ![c] = waiting]
             \/ /\ writer = "stopped"
                /\ closer' = [closer EXCEPT ![c] = AfterReply(kind)]
                /\ channel' = channel
  <2>1. CASE AskFlush(c)
    BY <2>1 DEF AskFlush, Ask, At, Goto
  <2>2. CASE AskShutdown(c)
    BY <2>2 DEF AskShutdown, Ask, At, Goto
  <2> QED BY <2>1, <2>2
<1>3. closer[c] \notin {"flushing", "stopping_audit"} /\ closer \in [Closers -> Places]
  BY <1>2 DEF Inv, TypeOK
<1>4. AfterReply(kind) \in Places
  BY DEF AfterReply
<1>5. \A x \in Closers \ {c} : closer'[x] = closer[x]
  BY <1>2, <1>3
<1>6. closer' \in [Closers -> Places]
  BY <1>2, <1>3, <1>4
<1>7. \A k \in 1..Len(channel) :
        channel[k].kind \in {"flush", "shutdown"} => channel[k].from \in Closers \ {c}
  <2> SUFFICES ASSUME NEW k \in 1..Len(channel), channel[k].kind \in {"flush", "shutdown"}
               PROVE  channel[k].from \in Closers \ {c}
    OBVIOUS
  <2>1. Holds(channel[k]) /\ channel[k] \in Messages
    BY ChannelType DEF Inv, ChannelIsRight
  <2> QED BY <1>3, <2>1 DEF Holds, Messages
<1>8. CASE writer = "stopped" /\ channel' = channel
  <2>1. Len(channel) = 0
    BY <1>8 DEF Inv, StoppedIsEmpty
  <2>2. TypeOK'
    BY <1>1, <1>6, <1>8 DEF Inv, TypeOK
  <2>3. ChannelIsRight' /\ FlushIsBehind'
    BY <1>1, <1>8, <2>1 DEF Inv, ChannelIsRight, FlushIsBehind
  <2>4. FileIsRight' /\ StoppedIsEmpty' /\ LostOnlyAtExit' /\ Begun'
    BY <1>1, <1>8 DEF Inv, FileIsRight, StoppedIsEmpty, LostOnlyAtExit, Begun
  <2> QED BY <1>3, <1>5, <2>2, <2>3, <2>4 DEF Inv
<1>9. CASE /\ writer = "running" /\ HasRoom
           /\ channel' = Append(channel, Message(kind, c))
  <2> DEFINE m == Message(kind, c)
  <2>1. m \in Messages /\ m.kind = kind /\ m.from = c
    BY DEF Message, Messages
  <2>2. channel' = Append(channel, m)
    BY <1>9
  <2> HIDE DEF m
  <2>3. channel' \in Seq(Messages) /\ Len(channel') = Len(channel) + 1
        /\ \A k \in 1..Len(channel) : channel'[k] = channel[k]
    BY <2>1, <2>2, Joined
  <2>4. TypeOK'
    <3>1. Len(channel') <= Capacity
      BY <1>9, <2>3, ChannelType, AuditAssumption DEF HasRoom
    <3>2. channel' \in Seq([kind : {"write"}, from : Records]
                         \cup [kind : {"flush", "shutdown"}, from : Closers])
      BY <2>3 DEF Messages
    <3> QED BY <1>1, <1>6, <3>1, <3>2 DEF Inv, TypeOK
  <2>5. closer'[c] = IF kind = "flush" THEN "flushing" ELSE "stopping_audit"
    BY <1>2, <1>3, <1>9
  <2>6. Holds(m)'
    BY <2>1, <2>5 DEF Holds
  <2>7. \A k \in 1..Len(channel) : channel[k] # m
    BY <1>7, <2>1
  <2>8. \A k \in 1..Len(channel) : Holds(channel[k])'
    <3> SUFFICES ASSUME NEW k \in 1..Len(channel) PROVE Holds(channel[k])'
      OBVIOUS
    <3>1. Holds(channel[k]) /\ channel[k] \in Messages /\ channel'[k] = channel[k]
      BY <2>3, ChannelType DEF Inv, ChannelIsRight
    <3> QED BY <1>1, <1>5, <1>7, <3>1 DEF Holds
  <2>9. /\ \A k \in 1..Len(channel) : channel[k].kind = "flush" =>
             covered'[channel[k].from] = covered[channel[k].from]
        /\ m.kind = "flush" => covered'[m.from] = Senders({"write"})
    <3>1. kind = "flush" => covered'[c] = Senders({"write"})
      BY <1>2 DEF Inv, TypeOK
    <3> QED BY <1>1, <1>7, <2>1, <3>1
  <2>10. Inv'
    BY <1>1, <1>9, <2>1, <2>2, <2>4, <2>6, <2>7, <2>8, <2>9, MessageJoins
  <2> QED BY <1>3, <1>5, <2>10
<1> QED BY <1>2, <1>8, <1>9

(* The steps of requests and of decisions touch neither the channel nor the file. *)
LEMMA RequestsAside ==
  ASSUME Inv, NEW r \in Records,
         RequestArrives(r) \/ RequestEnqueued(r) \/ RequestAnswered(r)
           \/ Expires(r) \/ HudDecides(r)
  PROVE  Inv' /\ closer' = closer
<1>1. /\ request \in [Records -> {"none", "arrived", "open", "closed"}]
      /\ record \in [Records -> {"none", "pending", "spawned", "queued", "written",
                                 "failed", "lost", "expired"}]
      /\ request[r] \in {"none", "arrived"} => record[r] = "none"
  BY DEF Inv, TypeOK, Begun
<1>2. /\ UNCHANGED <<accepting, channel, writer, file, shutting, closer, covered,
                     cancelled, window>>
      /\ \/ /\ request[r] = "none" /\ record' = record
            /\ request' = [request EXCEPT ![r] = "arrived"]
         \/ /\ \E p \in {"open", "closed"} : request' = [request EXCEPT ![r] = p]
            /\ \/ record' = record
               \/ record[r] = "none" /\ record' = [record EXCEPT ![r] = "pending"]
         \/ /\ request' = request /\ record[r] = "pending"
            /\ \E p \in {"expired", "spawned"} : record' = [record EXCEPT ![r] = p]
  BY <1>1 DEF RequestArrives, RequestEnqueued, RequestAnswered, Expires, HudDecides,
              Resolved, Pending
<1>3. /\ request' \in [Records -> {"none", "arrived", "open", "closed"}]
      /\ record' \in [Records -> {"none", "pending", "spawned", "queued", "written",
                                  "failed", "lost", "expired"}]
      /\ \A q \in Records \ {r} : record'[q] = record[q] /\ request'[q] = request[q]
      /\ \/ record'[r] = record[r]
         \/ record[r] \in {"none", "pending"} /\ record'[r] \in {"pending", "expired", "spawned"}
      /\ request'[r] \in {"none", "arrived"} => record'[r] = "none"
  BY <1>1, <1>2
<1>4. TypeOK'
  BY <1>2, <1>3 DEF Inv, TypeOK
<1>5. Begun'
  BY <1>3 DEF Inv, Begun
<1>6. \A q \in Records :
        \/ record'[q] = record[q]
        \/ /\ record[q] \notin {"queued", "written", "failed"}
           /\ record'[q] \notin {"queued", "written", "failed"}
           /\ record'[q] = "lost" => writer = "stopped"
  BY <1>3
<1> QED BY <1>2, <1>4, <1>5, <1>6, Aside

(* So do the steps of close sequences, but for the two questions. *)
LEMMA ClosersAside ==
  ASSUME Inv, NEW c \in Closers,
         CloseRequested(c) \/ BeginShutdown(c) \/ CancelPending(c) \/ StopServer(c)
           \/ ServerDrained(c) \/ CloseWindow(c)
  PROVE  Inv' /\ (\A x \in Closers : closer[x] = "flushing" => closer'[x] = closer[x])
<1> DEFINE Places == {"idle", "begin", "cancel", "stop_server", "drain", "flush",
                      "flushing", "stop_audit", "stopping_audit", "close", "done"}
<1>1. /\ closer \in [Closers -> Places]
      /\ record \in [Records -> {"none", "pending", "spawned", "queued", "written",
                                 "failed", "lost", "expired"}]
  BY DEF Inv, TypeOK
<1>2. /\ UNCHANGED <<request, channel, writer, file, covered>>
      /\ accepting' \in BOOLEAN /\ shutting' \in BOOLEAN /\ window' \in {"open", "closed"}
      /\ cancelled' \subseteq Records
  BY DEF Inv, TypeOK, CloseRequested, BeginShutdown, CancelPending, StopServer,
         ServerDrained, CloseWindow, Resolved, Pending
<1>3. /\ closer[c] \in {"idle", "begin", "cancel", "stop_server", "drain", "close"}
      /\ \E pc \in Places : closer' = [closer EXCEPT ![c] = pc]
  BY DEF CloseRequested, BeginShutdown, CancelPending, StopServer, ServerDrained,
         CloseWindow, At, Goto
<1>4. \/ record' = record
      \/ \E r \in Records : record[r] = "pending" /\ record' = [record EXCEPT ![r] = "spawned"]
  BY DEF CloseRequested, BeginShutdown, CancelPending, StopServer, ServerDrained,
         CloseWindow, Resolved, Pending
<1>5. /\ closer' \in [Closers -> Places]
      /\ \A x \in Closers \ {c} : closer'[x] = closer[x]
  BY <1>1, <1>3
<1>6. /\ record' \in [Records -> {"none", "pending", "spawned", "queued", "written",
                                  "failed", "lost", "expired"}]
      /\ \A q \in Records :
           record'[q] = record[q] \/ (record[q] = "pending" /\ record'[q] = "spawned")
  BY <1>1, <1>4
<1>7. TypeOK'
  BY <1>2, <1>5, <1>6 DEF Inv, TypeOK
<1>8. Begun'
  BY <1>2, <1>6 DEF Inv, Begun
<1>9. \A x \in Closers :
        closer[x] \in {"flushing", "stopping_audit"} => closer'[x] = closer[x]
  BY <1>3, <1>5
<1>10. \A q \in Records :
         \/ record'[q] = record[q]
         \/ /\ record[q] \notin {"queued", "written", "failed"}
            /\ record'[q] \notin {"queued", "written", "failed"}
            /\ record'[q] = "lost" => writer = "stopped"
  BY <1>6
<1>11. Inv'
  BY <1>2, <1>7, <1>8, <1>9, <1>10, Aside
<1> QED BY <1>9, <1>11

--------------------------------------------------------------------------------
(* The invariant holds at the start. *)
LEMMA InitInv == Init => Inv
<1> SUFFICES ASSUME Init PROVE Inv
  OBVIOUS
<1>1. /\ channel = <<>> /\ file = <<>>
      /\ channel \in Seq(Messages) /\ Len(channel) = 0
      /\ file \in Seq(Records) /\ Len(file) = 0
  BY EmptySeq DEF Init
<1>2. TypeOK
  <2>1. channel \in Seq([kind : {"write"}, from : Records]
                       \cup [kind : {"flush", "shutdown"}, from : Closers])
    BY <1>1 DEF Messages
  <2>2. Len(channel) <= Capacity
    BY <1>1, AuditAssumption
  <2>3. /\ request \in [Records -> {"none", "arrived", "open", "closed"}]
        /\ record \in [Records -> {"none", "pending", "spawned", "queued", "written",
                                  "failed", "lost", "expired"}]
        /\ closer \in [Closers -> {"idle", "begin", "cancel", "stop_server", "drain",
                           "flush", "flushing", "stop_audit", "stopping_audit", "close",
                           "done"}]
        /\ covered \in [Closers -> SUBSET Records]
    BY DEF Init
  <2> QED BY <1>1, <2>1, <2>2, <2>3 DEF Init, TypeOK
<1>3. ChannelIsRight /\ FileIsRight /\ FlushIsBehind
  BY <1>1 DEF Init, ChannelIsRight, FileIsRight, FlushIsBehind
<1>4. Begun /\ StoppedIsEmpty /\ LostOnlyAtExit
  BY DEF Init, Begun, StoppedIsEmpty, LostOnlyAtExit
<1> QED BY <1>2, <1>3, <1>4 DEF Inv

(* Every step keeps the invariant, and a close sequence that waits for its flush goes
   on only with the writer's answer or with its end. *)
LEMMA StepInv ==
  Inv /\ [Next]_vars =>
    /\ Inv'
    /\ \A c \in Closers : closer[c] = "flushing" =>
         \/ closer'[c] = closer[c]
         \/ Len(channel) > 0 /\ channel[1] = Message("flush", c)
         \/ writer' = "stopped"
<1> SUFFICES ASSUME Inv, [Next]_vars
             PROVE  /\ Inv'
                    /\ \A c \in Closers : closer[c] = "flushing" =>
                         \/ closer'[c] = closer[c]
                         \/ Len(channel) > 0 /\ channel[1] = Message("flush", c)
                         \/ writer' = "stopped"
  OBVIOUS
<1>1. CASE \E r \in Records :
             RequestArrives(r) \/ RequestEnqueued(r) \/ RequestAnswered(r)
               \/ Expires(r) \/ HudDecides(r)
  BY <1>1, RequestsAside
<1>2. CASE \E r \in Records : SendRecord(r)
  <2>1. closer' = closer
    BY <1>2 DEF SendRecord
  <2> QED BY <1>2, <2>1, SendsStep
<1>3. CASE WriterWrites
  <2>1. closer' = closer
    BY <1>3 DEF WriterWrites
  <2> QED BY <1>3, <2>1, WritesStep
<1>4. CASE WriterFlushes
  <2>1. Len(channel) > 0
    <3>1. channel # <<>> /\ channel' = Tail(channel)
      BY <1>4 DEF WriterFlushes
    <3> QED BY <3>1, Taken
  <2> QED BY <1>4, <2>1, FlushesStep
<1>5. CASE WriterStops
  <2>1. writer' = "stopped"
    BY <1>5 DEF WriterStops
  <2> QED BY <1>5, <2>1, StopsStep
<1>6. CASE \E c \in Closers : AskFlush(c) \/ AskShutdown(c)
  BY <1>6, AsksStep
<1>7. CASE \E c \in Closers : CloseRequested(c) \/ BeginShutdown(c) \/ CancelPending(c)
             \/ StopServer(c) \/ ServerDrained(c) \/ CloseWindow(c)
  BY <1>7, ClosersAside
<1>8. CASE UNCHANGED vars
  <2>1. Inv'
    BY <1>8 DEF vars, Inv, TypeOK, Begun, ChannelIsRight, Holds, FileIsRight,
                FlushIsBehind, StoppedIsEmpty, LostOnlyAtExit
  <2> QED BY <1>8, <2>1 DEF vars
<1> QED
  BY <1>1, <1>2, <1>3, <1>4, <1>5, <1>6, <1>7, <1>8 DEF Next, WriterStep, CloserStep

--------------------------------------------------------------------------------
(* The variables always have their types; in particular the channel never holds more
   than its capacity. *)
THEOREM TypeCorrect == Spec => []TypeOK
<1>1. Inv => TypeOK
  BY DEF Inv
<1> QED BY InitInv, StepInv, <1>1, PTL DEF Spec

(* A set with one element, seen through a predicate on positions. *)
LEMMA CountOne ==
  ASSUME NEW n \in Nat, NEW s, NEW v,
         \A j, k \in 1..n : s[j] = s[k] => j = k
  PROVE  Cardinality({k \in 1..n : s[k] = v}) =
           IF \E k \in 1..n : s[k] = v THEN 1 ELSE 0
<1>1. CASE \E k \in 1..n : s[k] = v
  <2>1. PICK k \in 1..n : s[k] = v
    BY <1>1
  <2>2. {i \in 1..n : s[i] = v} = {k}
    BY <2>1
  <2>3. Cardinality({k}) = 1
    BY FS_Singleton
  <2> QED BY <1>1, <2>2, <2>3
<1>2. CASE ~ \E k \in 1..n : s[k] = v
  <2>1. {i \in 1..n : s[i] = v} = {}
    BY <1>2
  <2> QED BY <1>2, <2>1, FS_EmptySet
<1> QED BY <1>1, <1>2

(* Each record is on its way once: in the channel while it is queued, in the file once
   it is written, and never in both (the tasks of lifecycle_sink.rs and the writer of
   audit/sink.rs, whatever the close sequences do). *)
THEOREM RecordsAreWrittenOnce == Spec => []RecordsOnce
<1>1. Inv => RecordsOnce
  <2> SUFFICES ASSUME Inv, NEW r \in Records
               PROVE  /\ Cardinality({k \in 1..Len(channel) : channel[k] = Message("write", r)})
                           = (IF record[r] = "queued" THEN 1 ELSE 0)
                      /\ Cardinality({k \in 1..Len(file) : file[k] = r})
                           = (IF record[r] = "written" THEN 1 ELSE 0)
    BY DEF RecordsOnce
  <2>1. Len(channel) \in Nat /\ Len(file) \in Nat
    BY ChannelType
  <2>2. (\E k \in 1..Len(channel) : channel[k] = Message("write", r)) <=> record[r] = "queued"
    <3>1. ASSUME NEW k \in 1..Len(channel), channel[k] = Message("write", r)
          PROVE  record[r] = "queued"
      BY <3>1 DEF Inv, ChannelIsRight, Holds, Message
    <3> QED BY <3>1 DEF Inv, ChannelIsRight
  <2>3. (\E k \in 1..Len(file) : file[k] = r) <=> record[r] = "written"
    BY DEF Inv, FileIsRight
  <2>4. Cardinality({k \in 1..Len(channel) : channel[k] = Message("write", r)})
          = IF \E k \in 1..Len(channel) : channel[k] = Message("write", r) THEN 1 ELSE 0
    BY <2>1, CountOne DEF Inv, ChannelIsRight
  <2>5. Cardinality({k \in 1..Len(file) : file[k] = r})
          = IF \E k \in 1..Len(file) : file[k] = r THEN 1 ELSE 0
    <3>1. \A j, k \in 1..Len(file) : file[j] = file[k] => j = k
      BY DEF Inv, FileIsRight
    <3> QED BY <2>1, <3>1, CountOne
  <2> QED BY <2>2, <2>3, <2>4, <2>5
<1> QED BY InitInv, StepInv, <1>1, PTL DEF Spec

(* A record is lost only when the writer has been told to stop: back-pressure delays
   records and drops none. *)
THEOREM NothingIsLostBeforeExit == Spec => []LostOnlyAtExit
<1>1. Inv => LostOnlyAtExit
  BY DEF Inv
<1> QED BY InitInv, StepInv, <1>1, PTL DEF Spec

(* When the writer answers a flush, every record that was queued before it has been
   handed to the file system. *)
THEOREM FlushesAreHonest == Spec => FlushCovers
<1>1. Inv /\ [Next]_vars =>
        [\A c \in Closers : At(c, "flushing") /\ closer'[c] # "flushing" /\ writer' = "running" =>
           \A r \in covered[c] : record[r] \in {"written", "failed"}]_vars
  <2> SUFFICES ASSUME Inv, [Next]_vars, NEW c \in Closers, closer[c] = "flushing",
                      closer'[c] # "flushing", writer' = "running", NEW r \in covered[c]
               PROVE  record[r] \in {"written", "failed"}
    BY DEF At
  <2>1. Len(channel) > 0 /\ channel[1] = Message("flush", c) /\ Len(channel) \in Nat
    BY StepInv, ChannelType
  <2>2. 1 \in 1..Len(channel)
    BY <2>1
  <2>3. channel[1].kind = "flush" /\ channel[1].from = c
    BY <2>1 DEF Message
  <2>4. \/ record[r] \in {"written", "failed"}
        \/ \E j \in 1..(1 - 1) : channel[j] = Message("write", r)
    BY <2>2, <2>3 DEF Inv, FlushIsBehind
  <2> QED BY <2>4
<1> QED BY InitInv, StepInv, <1>1, PTL DEF Spec, FlushCovers
================================================================================
