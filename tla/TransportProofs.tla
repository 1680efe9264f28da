---------------------------- MODULE TransportProofs ----------------------------
(***************************************************************************)
(* What the transport of Transport keeps, for every limit of its queues,   *)
(* every number and length of messages and every way the stream cuts them: *)
(* the write queue is accounted for, the stream carries whole messages in  *)
(* order, and messages are handled in the order they were sent.            *)
(***************************************************************************)
EXTENDS Transport, SequenceLemmas

\* A chunk: message and position in it.
Chunk == Nat \X Nat

OutTypeOK ==
  /\ accepted \in Seq(1..MaxLen) /\ refused \in Nat
  /\ writeQueue \in Seq(Chunk) /\ buffered \in Seq(Chunk) /\ sent \in Seq(Chunk)
  /\ queuedBytes \in Nat
  /\ waitingForDrain \in BOOLEAN /\ closed \in BOOLEAN

OutInv == OutTypeOK /\ WriteQueueOK

-----------------------------------------------------------------------------
(* Joining sequences.  FlattenSeq is defined by recursion; its value is      *)
(* determined as a sum's is, from the least length for which it were not.    *)

\* The sequences of ss joined up to each of its first n.
PartialJoins(ss, n, g) ==
  g = [i \in 1..n |-> IF i = 1 THEN ss[i] ELSE g[i - 1] \o ss[i]]

LEMMA PartialJoinsExist ==
  ASSUME NEW ss, NEW n \in Nat
  PROVE  \E g : PartialJoins(ss, n, g)
<1> DEFINE T == {m \in Nat : ~ \E g : PartialJoins(ss, m, g)}
<1> SUFFICES ASSUME T # {} PROVE FALSE
  OBVIOUS
<1>1. PICK m \in T : \A k \in T : m <= k
  BY LeastNumber
<1>2. CASE m = 0
  <2> DEFINE g == [i \in 1..0 |-> ss[i]]
  <2>1. g = [i \in 1..0 |-> IF i = 1 THEN ss[i] ELSE g[i - 1] \o ss[i]]
    BY 1..0 = {}
  <2> HIDE DEF g
  <2> QED BY <1>1, <1>2, <2>1 DEF PartialJoins
<1>3. CASE m # 0
  <2>1. m \in Nat \ {0} /\ m - 1 \in Nat /\ m - 1 \notin T
    BY <1>1, <1>3
  <2>2. PICK g : PartialJoins(ss, m - 1, g)
    BY <2>1
  <2> DEFINE h == [i \in 1..m |-> IF i = m THEN IF m = 1 THEN ss[m] ELSE g[m - 1] \o ss[m]
                                           ELSE g[i]]
  <2>3. ASSUME NEW i \in 1..m
        PROVE  h[i] = IF i = 1 THEN ss[i] ELSE h[i - 1] \o ss[i]
    <3>1. i = m \/ i \in 1..(m - 1)
      BY <2>1
    <3>2. i # 1 => i - 1 \in 1..m /\ i - 1 # m
      BY <2>1
    <3>3. \A j \in 1..(m - 1) : g[j] = IF j = 1 THEN ss[j] ELSE g[j - 1] \o ss[j]
      BY <2>2 DEF PartialJoins
    <3>4. i # 1 => h[i - 1] = g[i - 1]
      BY <3>2
    <3>5. CASE i = m
      BY <3>4, <3>5
    <3>6. CASE i # m
      BY <3>1, <3>3, <3>4, <3>6
    <3> QED BY <3>5, <3>6
  <2>4. h = [i \in 1..m |-> h[i]]
    OBVIOUS
  <2> HIDE DEF h
  <2>5. h = [i \in 1..m |-> IF i = 1 THEN ss[i] ELSE h[i - 1] \o ss[i]]
    BY <2>3, <2>4
  <2> QED BY <1>1, <2>5 DEF PartialJoins
<1> QED BY <1>2, <1>3

\* What is joined to sequences over S is one of them, and determined by them.
LEMMA PartialJoinsTyped ==
  ASSUME NEW S, NEW ss \in Seq(Seq(S)), NEW n \in 0..Len(ss), NEW g, PartialJoins(ss, n, g)
  PROVE  \A i \in 1..n : /\ g[i] \in Seq(S)
                         /\ g[i] = IF i = 1 THEN ss[i] ELSE g[i - 1] \o ss[i]
<1>1. Len(ss) \in Nat /\ \A i \in 1..n : ss[i] \in Seq(S)
  BY LenProperties, ElementOfSeq
<1>2. \A i \in 1..n : g[i] = IF i = 1 THEN ss[i] ELSE g[i - 1] \o ss[i]
  BY DEF PartialJoins
<1> DEFINE T == {i \in 1..n : g[i] \notin Seq(S)}
<1>3. ASSUME T # {} PROVE FALSE
  <2>1. T \subseteq Nat
    BY <1>1
  <2>2. PICK m \in T : \A k \in T : m <= k
    BY <1>3, <2>1, LeastNumber
  <2>3. m # 1
    BY <1>1, <1>2, <2>2
  <2>4. m \in 1..n /\ m - 1 \in 1..n /\ m - 1 \notin T
    BY <1>1, <2>2, <2>3
  <2>5. g[m - 1] \in Seq(S) /\ ss[m] \in Seq(S) /\ g[m] = g[m - 1] \o ss[m]
    BY <1>1, <1>2, <2>3, <2>4
  <2>6. g[m - 1] \o ss[m] \in Seq(S)
    BY ONLY <2>5, ConcatProperties, Zenon
  <2> QED BY <2>2, <2>5, <2>6
<1> QED BY <1>2, <1>3

\* Two joins of sequences that begin alike agree there.
LEMMA PartialJoinsAgree ==
  ASSUME NEW ss, NEW tt, NEW n \in Nat \ {0}, NEW m \in Nat, n <= m, NEW g, NEW h,
         PartialJoins(ss, n, g), PartialJoins(tt, m, h), \A i \in 1..n : ss[i] = tt[i]
  PROVE  g[n] = h[n]
<1>1. \A i \in 1..n : g[i] = IF i = 1 THEN ss[i] ELSE g[i - 1] \o ss[i]
  BY DEF PartialJoins
<1>2. \A i \in 1..n : h[i] = IF i = 1 THEN tt[i] ELSE h[i - 1] \o tt[i]
  <2>1. \A i \in 1..m : h[i] = IF i = 1 THEN tt[i] ELSE h[i - 1] \o tt[i]
    BY DEF PartialJoins
  <2> QED BY <2>1
<1> DEFINE T == {i \in 1..n : g[i] # h[i]}
<1> SUFFICES ASSUME T # {} PROVE FALSE
  OBVIOUS
<1>0. T \subseteq Nat
  OBVIOUS
<1>3. PICK k \in T : \A j \in T : k <= j
  BY <1>0, LeastNumber
<1>4. k # 1
  BY <1>1, <1>2, <1>3
<1>5. k - 1 \in 1..n /\ k - 1 \notin T
  BY <1>3, <1>4
<1> QED BY <1>1, <1>2, <1>3, <1>4, <1>5

LEMMA FlattenIsPartialJoin ==
  ASSUME NEW ss, Len(ss) \in Nat \ {0}
  PROVE  \E g : PartialJoins(ss, Len(ss), g) /\ FlattenSeq(ss) = g[Len(ss)]
<1>1. \E g : g = [i \in 1..Len(ss) |-> IF i = 1 THEN ss[i] ELSE g[i - 1] \o ss[i]]
  BY PartialJoinsExist DEF PartialJoins
<1> DEFINE g == CHOOSE f : f = [i \in 1..Len(ss) |-> IF i = 1 THEN ss[i] ELSE f[i - 1] \o ss[i]]
<1>2. g = [i \in 1..Len(ss) |-> IF i = 1 THEN ss[i] ELSE g[i - 1] \o ss[i]]
  BY <1>1
<1>3. FlattenSeq(ss) = g[Len(ss)]
  BY DEF FlattenSeq
<1> HIDE DEF g
<1> QED BY <1>2, <1>3 DEF PartialJoins

\* Joining nothing, and joining one sequence more.
LEMMA FlattenOfAppend ==
  ASSUME NEW S, NEW ss \in Seq(Seq(S)), NEW s \in Seq(S), NEW tt \in Seq(Seq(S)),
         Len(tt) = Len(ss) + 1, \A i \in 1..Len(ss) : tt[i] = ss[i], tt[Len(tt)] = s
  PROVE  FlattenSeq(ss) \in Seq(S) /\ FlattenSeq(tt) = FlattenSeq(ss) \o s
<1>1. /\ Len(ss) \in Nat /\ Len(tt) \in Nat \ {0} /\ Len(tt) \in 0..Len(tt)
      /\ Len(ss) \in 0..Len(ss)
  BY LenProperties
<1>2. PICK h : PartialJoins(tt, Len(tt), h) /\ FlattenSeq(tt) = h[Len(tt)]
  BY <1>1, FlattenIsPartialJoin
<1>3. h[Len(tt)] = IF Len(tt) = 1 THEN s ELSE h[Len(ss)] \o s
  <2>1. Len(tt) \in 1..Len(tt) /\ Len(tt) - 1 = Len(ss)
    BY <1>1
  <2> QED BY <1>2, <2>1 DEF PartialJoins
<1>4. CASE Len(ss) = 0
  <2>1. ss = <<>> /\ FlattenSeq(ss) = ss
    BY <1>4, EmptySeq DEF FlattenSeq
  <2>2. <<>> \in Seq(S) /\ <<>> \o s = s
    BY EmptySeq, ConcatEmptySeq
  <2>3. FlattenSeq(tt) = s
    BY <1>1, <1>2, <1>3, <1>4
  <2> QED BY <2>1, <2>2, <2>3
<1>5. CASE Len(ss) # 0
  <2>1. PICK g : PartialJoins(ss, Len(ss), g) /\ FlattenSeq(ss) = g[Len(ss)]
    BY <1>1, <1>5, FlattenIsPartialJoin
  <2>2. g[Len(ss)] \in Seq(S)
    <3>1. Len(ss) \in 1..Len(ss)
      BY <1>1, <1>5
    <3> QED BY <1>1, <2>1, <3>1, PartialJoinsTyped
  <2>3. g[Len(ss)] = h[Len(ss)]
    <3>1. Len(ss) \in Nat \ {0} /\ Len(tt) \in Nat /\ Len(ss) <= Len(tt)
      BY <1>1, <1>5
    <3>2. \A i \in 1..Len(ss) : ss[i] = tt[i]
      OBVIOUS
    <3>3. PartialJoins(ss, Len(ss), g) /\ PartialJoins(tt, Len(tt), h)
      BY <1>2, <2>1
    <3> QED BY ONLY <3>1, <3>2, <3>3, PartialJoinsAgree
  <2> QED BY <1>1, <1>2, <1>3, <1>5, <2>1, <2>2, <2>3
<1> QED BY <1>4, <1>5
-----------------------------------------------------------------------------
(* Cutting a queue.                                                        *)

\* The first n elements of a sequence, and the others.
LEMMA CutSequence ==
  ASSUME NEW S, NEW s \in Seq(S), NEW n \in 0..Len(s)
  PROVE  /\ SubSeq(s, 1, n) \in Seq(S) /\ Len(SubSeq(s, 1, n)) = n
         /\ SubSeq(s, n + 1, Len(s)) \in Seq(S) /\ Len(SubSeq(s, n + 1, Len(s))) = Len(s) - n
         /\ SubSeq(s, 1, n) \o SubSeq(s, n + 1, Len(s)) = s
<1>1. Len(s) \in Nat /\ n \in Int /\ Len(s) \in Int /\ \A i \in 1..Len(s) : s[i] \in S
  BY LenProperties, ElementOfSeq
<1>2. SubSeq(s, 1, n) \in Seq(S) /\ Len(SubSeq(s, 1, n)) = n
  <2>1. \A i \in 1..n : s[i] \in S
    BY <1>1
  <2>2. Len(SubSeq(s, 1, n)) = IF 1 <= n THEN n - 1 + 1 ELSE 0
    BY <1>1, <2>1, SubSeqProperties
  <2>3. SubSeq(s, 1, n) \in Seq(S)
    BY <1>1, <2>1, SubSeqProperties
  <2> QED BY <1>1, <2>2, <2>3
<1>3. SubSeq(s, n + 1, Len(s)) \in Seq(S) /\ Len(SubSeq(s, n + 1, Len(s))) = Len(s) - n
  <2>1. \A i \in (n + 1)..Len(s) : s[i] \in S
    BY <1>1
  <2>2. n + 1 \in Int
    BY <1>1
  <2>3. /\ SubSeq(s, n + 1, Len(s)) \in Seq(S)
        /\ Len(SubSeq(s, n + 1, Len(s))) = IF n + 1 <= Len(s) THEN Len(s) - (n + 1) + 1 ELSE 0
    BY <1>1, <2>1, <2>2, SubSeqProperties
  <2> QED BY <1>1, <2>3
<1>4. SubSeq(s, 1, n) \o SubSeq(s, n + 1, Len(s)) = s
  <2>1. 1 \in 1..Len(s) + 1 /\ n \in (1 - 1)..Len(s) /\ Len(s) \in n..Len(s)
    BY <1>1
  <2>2. SubSeq(s, 1, n) \o SubSeq(s, n + 1, Len(s)) = SubSeq(s, 1, Len(s))
    BY <2>1, ConcatAdjacentSubSeq
  <2> QED BY <2>2, SubSeqFull
<1> QED BY <1>2, <1>3, <1>4

\* flushWrites and onDrain: n chunks of the queue q are written behind b, all of
\* them unless the stream is full then.
Written(b, q, n) ==
  /\ buffered' = b \o SubSeq(q, 1, n) /\ writeQueue' = SubSeq(q, n + 1, Len(q))
  /\ queuedBytes' = Len(q) - n /\ waitingForDrain' = (Len(buffered') >= HighWater)

LEMMA WrittenInBounds ==
  ASSUME NEW b \in Seq(Chunk), NEW q \in Seq(Chunk), Len(b) <= HighWater, Len(q) <= MaxQueued,
         NEW n, n = Least(Len(q), HighWater - Len(b)), Written(b, q, n), ~closed'
  PROVE  /\ writeQueue' \in Seq(Chunk) /\ buffered' \in Seq(Chunk) /\ queuedBytes' \in Nat
         /\ waitingForDrain' \in BOOLEAN
         /\ WriteQueueOK'
         /\ buffered' \o writeQueue' = b \o q
<1>1. /\ Len(b) \in Nat /\ Len(q) \in Nat /\ HighWater \in Nat /\ MaxQueued \in Nat
  BY LenProperties, TransportAssumption
<1>2. n \in 0..Len(q) /\ Len(b) + n <= HighWater /\ (n # Len(q) => Len(b) + n = HighWater)
  BY <1>1 DEF Least
<1> DEFINE x == SubSeq(q, 1, n)
           y == SubSeq(q, n + 1, Len(q))
<1>3. x \in Seq(Chunk) /\ Len(x) = n /\ y \in Seq(Chunk) /\ Len(y) = Len(q) - n /\ x \o y = q
  BY <1>2, CutSequence
<1>4. /\ buffered' = b \o x /\ writeQueue' = y /\ queuedBytes' = Len(q) - n
      /\ waitingForDrain' = (Len(buffered') >= HighWater)
  BY DEF Written
<1> HIDE DEF x, y
<1>5. buffered' \in Seq(Chunk) /\ Len(buffered') = Len(b) + n
  BY <1>3, <1>4, ConcatProperties
<1>6. buffered' \o writeQueue' = b \o q
  <2>1. b \in Seq(Chunk) /\ x \in Seq(Chunk) /\ y \in Seq(Chunk)
    BY <1>3
  <2>2. (b \o x) \o y = b \o (x \o y)
    BY ONLY <2>1, ConcatAssociative
  <2> QED BY <1>3, <1>4, <2>2
<1>7. writeQueue' # <<>> => waitingForDrain'
  <2> SUFFICES ASSUME n = Len(q) PROVE y = <<>>
    BY <1>1, <1>2, <1>4, <1>5
  <2> QED BY <1>1, <1>3, EmptySeq
<1> QED BY <1>1, <1>2, <1>3, <1>4, <1>5, <1>6, <1>7 DEF WriteQueueOK

\* What is sent is <<m, 1>> to <<m, len>>.
LEMMA ChunksTyped ==
  ASSUME NEW m \in Nat, NEW len \in Nat
  PROVE  Chunks(m, len) \in Seq(Chunk) /\ Len(Chunks(m, len)) = len
<1>1. \A k \in 1..len : <<m, k>> \in Chunk
  BY DEF Chunk
<1>2. Chunks(m, len) \in [1..len -> Chunk]
  BY <1>1 DEF Chunks
<1> QED BY <1>2, SeqOfFunction

-----------------------------------------------------------------------------
(* The write queue.                                                        *)

\* fail and close: nothing waits to be written, no drain is due.
LEMMA ShutKeepsOut ==
  ASSUME OutInv, NEW e, Shut(e), accepted' = accepted, refused' \in Nat, sent' = sent
  PROVE  OutInv'
<1>1. /\ closed' = TRUE /\ writeQueue' = <<>> /\ queuedBytes' = 0 /\ waitingForDrain' = FALSE
      /\ buffered' = <<>>
  BY DEF Shut
<1>2. <<>> \in Seq(Chunk) /\ Len(<<>>) = 0 /\ HighWater \in Nat /\ MaxQueued \in Nat
  BY EmptySeq, TransportAssumption
<1>3. OutTypeOK'
  BY <1>1, <1>2 DEF OutInv, OutTypeOK
<1>4. WriteQueueOK'
  <2>1. Len(buffered') <= HighWater /\ queuedBytes' = Len(writeQueue') /\ queuedBytes' <= MaxQueued
    BY <1>1, <1>2
  <2> QED BY <1>1, <2>1 DEF WriteQueueOK
<1> QED BY <1>3, <1>4 DEF OutInv

\* sendMessage, when it takes the message.
Taken(len) ==
  /\ ~closed /\ queuedBytes + len <= MaxQueued
  /\ accepted' = Append(accepted, len)
  /\ Flush(writeQueue \o Chunks(Len(accepted) + 1, len))
  /\ UNCHANGED <<refused, closed, sent>>

\* Its chunks join the end of what is on its way.
LEMMA TakenKeepsOut ==
  ASSUME OutInv, NEW len \in 1..MaxLen, Taken(len)
  PROVE  /\ OutInv'
         /\ buffered' \o writeQueue' = (buffered \o writeQueue) \o Chunks(Len(accepted) + 1, len)
<1>0. /\ OutTypeOK /\ WriteQueueOK /\ MaxLen \in Nat /\ MaxQueued \in Nat /\ HighWater \in Nat
      /\ len \in Nat /\ ~closed /\ queuedBytes + len <= MaxQueued
      /\ accepted' = Append(accepted, len) /\ UNCHANGED <<refused, closed, sent>>
      /\ writeQueue \in Seq(Chunk) /\ buffered \in Seq(Chunk)
  BY TransportAssumption DEF OutInv, Taken, OutTypeOK
<1> DEFINE c == Chunks(Len(accepted) + 1, len)
           q == writeQueue \o c
<1>1. c \in Seq(Chunk) /\ Len(c) = len
  <2>1. Len(accepted) + 1 \in Nat
    BY <1>0, LenProperties DEF OutTypeOK
  <2> QED BY <1>0, <2>1, ChunksTyped
<1>2. Flush(q) /\ ~closed'
  BY <1>0 DEF Taken
<1> HIDE DEF c
<1>3. q \in Seq(Chunk) /\ Len(q) <= MaxQueued /\ Len(q) \in Nat
  <2>1. q \in Seq(Chunk) /\ Len(q) = Len(writeQueue) + Len(c)
    BY <1>0, <1>1, ConcatProperties
  <2> QED BY <1>0, <1>1, <2>1, LenProperties DEF WriteQueueOK
<1>4. buffered \o q = (buffered \o writeQueue) \o c
  BY <1>0, <1>1, ConcatAssociative
<1>5. accepted' \in Seq(1..MaxLen)
  BY <1>0, AppendProperties DEF OutTypeOK
<1> HIDE DEF q
<1>6. CASE waitingForDrain
  <2>1. writeQueue' = q /\ queuedBytes' = Len(q) /\ UNCHANGED <<buffered, waitingForDrain>>
    BY <1>2, <1>6 DEF Flush
  <2>2. OutInv'
    BY <1>0, <1>3, <1>5, <1>6, <2>1 DEF OutInv, OutTypeOK, WriteQueueOK
  <2> QED BY <1>4, <2>1, <2>2 DEF c
<1>7. CASE ~waitingForDrain
  <2> DEFINE n == Least(Len(q), HighWater - Len(buffered))
  <2>1. Written(buffered, q, n)
    BY <1>2, <1>7 DEF Flush, Written
  <2> HIDE DEF n
  <2>2. /\ writeQueue' \in Seq(Chunk) /\ buffered' \in Seq(Chunk) /\ queuedBytes' \in Nat
        /\ waitingForDrain' \in BOOLEAN /\ WriteQueueOK' /\ buffered' \o writeQueue' = buffered \o q
    <3>1. Len(buffered) <= HighWater
      BY <1>0 DEF WriteQueueOK
    <3> QED BY <1>0, <1>2, <1>3, <2>1, <3>1, WrittenInBounds DEF n
  <2>3. OutInv'
    BY <1>0, <1>5, <2>2 DEF OutInv, OutTypeOK
  <2> QED BY <1>4, <2>2, <2>3 DEF c
<1> QED BY <1>0, <1>6, <1>7 DEF OutTypeOK

\* The stream sends the first chunk it holds.
LEMMA SendingKeepsOut ==
  ASSUME OutInv, StreamSends
  PROVE  /\ OutInv'
         /\ sent' \o (buffered' \o writeQueue') = sent \o (buffered \o writeQueue)
<1>0. /\ OutTypeOK /\ WriteQueueOK /\ buffered # <<>>
      /\ sent' = Append(sent, Head(buffered)) /\ buffered' = Tail(buffered)
      /\ UNCHANGED <<accepted, refused, writeQueue, queuedBytes, waitingForDrain, closed>>
      /\ writeQueue \in Seq(Chunk) /\ buffered \in Seq(Chunk) /\ sent \in Seq(Chunk)
  BY DEF OutInv, StreamSends, OutTypeOK
<1> DEFINE h == Head(buffered)
           t == Tail(buffered)
<1>1. /\ h \in Chunk /\ t \in Seq(Chunk) /\ Len(t) = Len(buffered) - 1
      /\ Len(buffered) \in Nat \ {0} /\ buffered = <<h>> \o t
  <2>1. h \in Chunk /\ t \in Seq(Chunk) /\ Len(t) = Len(buffered) - 1 /\ Len(buffered) \in Nat \ {0}
    BY <1>0, HeadTailProperties, EmptySeq
  <2>2. buffered = <<h>> \o t
    BY <1>0
  <2> QED BY <2>1, <2>2
<1> HIDE DEF h, t
<1>2. sent' = sent \o <<h>> /\ sent' \in Seq(Chunk)
  <2>1. sent' = Append(sent, h)
    BY <1>0 DEF h
  <2> QED BY <1>0, <1>1, <2>1, AppendIsConcat, AppendProperties
<1>3. buffered' = t
  BY <1>0 DEF t
<1>4. <<h>> \in Seq(Chunk) /\ t \o writeQueue \in Seq(Chunk)
  BY <1>0, <1>1, ConcatProperties
<1>5. (sent \o <<h>>) \o (t \o writeQueue) = sent \o (buffered \o writeQueue)
  <2>1. (sent \o <<h>>) \o (t \o writeQueue) = sent \o (<<h>> \o (t \o writeQueue))
    BY ONLY <1>0, <1>1, <1>4, ConcatAssociative
  <2>2. (<<h>> \o t) \o writeQueue = <<h>> \o (t \o writeQueue)
    BY ONLY <1>0, <1>1, <1>4, ConcatAssociative
  <2> QED BY <1>1, <2>1, <2>2
<1>6. OutTypeOK'
  BY <1>0, <1>1, <1>2, <1>3 DEF OutTypeOK
<1>7. WriteQueueOK'
  <2>1. Len(buffered') <= HighWater
    BY <1>0, <1>1, <1>3, TransportAssumption DEF WriteQueueOK
  <2> QED BY <1>0, <2>1 DEF WriteQueueOK
<1> QED BY <1>0, <1>2, <1>3, <1>5, <1>6, <1>7 DEF OutInv

\* The drain event takes the queue up again.
LEMMA DrainKeepsOut ==
  ASSUME OutInv, OnDrain
  PROVE  OutInv' /\ buffered' \o writeQueue' = buffered \o writeQueue
<1>0. /\ OutTypeOK /\ WriteQueueOK /\ HighWater \in Nat \ {0} /\ buffered = <<>> /\ ~closed
      /\ UNCHANGED <<accepted, refused, sent, closed>>
      /\ writeQueue \in Seq(Chunk) /\ queuedBytes = Len(writeQueue) /\ queuedBytes <= MaxQueued
  BY TransportAssumption DEF OutInv, OnDrain, Event, OutTypeOK, WriteQueueOK
<1> DEFINE n == Least(Len(writeQueue), HighWater - Len(buffered))
<1>1. /\ <<>> \in Seq(Chunk) /\ Len(<<>>) = 0 /\ Len(writeQueue) \in Nat
      /\ <<>> \o SubSeq(writeQueue, 1, n) = SubSeq(writeQueue, 1, n)
      /\ n \in 0..Len(writeQueue) /\ n = Least(Len(writeQueue), HighWater)
  <2>1. <<>> \in Seq(Chunk) /\ Len(<<>>) = 0 /\ Len(writeQueue) \in Nat
    BY <1>0, EmptySeq, LenProperties
  <2>2. n \in 0..Len(writeQueue) /\ n = Least(Len(writeQueue), HighWater)
    BY <1>0, <2>1 DEF Least
  <2> HIDE DEF n
  <2>3. SubSeq(writeQueue, 1, n) \in Seq(Chunk)
    BY <1>0, <2>2, CutSequence
  <2> QED BY <2>1, <2>2, <2>3, ConcatEmptySeq
<1> HIDE DEF n
<1>2. /\ buffered' = SubSeq(writeQueue, 1, n) /\ writeQueue' = SubSeq(writeQueue, n + 1, Len(writeQueue))
      /\ queuedBytes' = queuedBytes - n /\ waitingForDrain' = (n = HighWater)
  BY <1>1 DEF OnDrain
<1>3. Len(buffered') = n /\ n <= HighWater
  <2>1. Len(buffered') = n
    BY <1>0, <1>1, <1>2, CutSequence
  <2> QED BY <1>0, <1>1, <2>1 DEF Least
<1>4. Written(buffered, writeQueue, n)
  <2>1. waitingForDrain' = (Len(buffered') >= HighWater)
    BY <1>0, <1>1, <1>2, <1>3
  <2> QED BY <1>0, <1>1, <1>2, <2>1 DEF Written
<1>5. /\ writeQueue' \in Seq(Chunk) /\ buffered' \in Seq(Chunk) /\ queuedBytes' \in Nat
      /\ waitingForDrain' \in BOOLEAN /\ WriteQueueOK'
      /\ buffered' \o writeQueue' = buffered \o writeQueue
  <2>1. Len(buffered) <= HighWater /\ Len(writeQueue) <= MaxQueued /\ ~closed' /\ buffered \in Seq(Chunk)
    BY <1>0, <1>1
  <2>2. n = Least(Len(writeQueue), HighWater - Len(buffered))
    BY DEF n
  <2> QED BY <1>0, <1>4, <2>1, <2>2, WrittenInBounds
<1> QED BY <1>0, <1>5 DEF OutInv, OutTypeOK

-----------------------------------------------------------------------------
(* The stream carries whole messages.                                      *)

LEMMA PrefixOfConcat ==
  ASSUME NEW S, NEW s \in Seq(S), NEW t \in Seq(S)
  PROVE  IsPrefix(s, s \o t)
<1>1. Len(s) \in Nat /\ Len(t) \in Nat /\ Len(s \o t) = Len(s) + Len(t)
  BY LenProperties, ConcatProperties
<1>2. 1 \in 1..(Len(s) + 1) /\ Len(s) \in (1 - 1)..Len(s)
  BY <1>1
<1>3. SubSeq(s \o t, 1, Len(s)) = SubSeq(s, 1, Len(s))
  BY <1>2, SubSeqOfConcat1
<1> QED BY <1>1, <1>3 DEF IsPrefix

\* A message more is accepted: its chunks come last.
LEMMA AcceptedChunksGrow ==
  ASSUME accepted \in Seq(1..MaxLen), NEW len \in 1..MaxLen, accepted' = Append(accepted, len)
  PROVE  /\ AcceptedChunks \in Seq(Chunk)
         /\ AcceptedChunks' = AcceptedChunks \o Chunks(Len(accepted) + 1, len)
<1>1. MaxLen \in Nat /\ Len(accepted) \in Nat /\ \A m \in 1..Len(accepted) : accepted[m] \in 1..MaxLen
  BY TransportAssumption, LenProperties, ElementOfSeq
<1>2. /\ accepted' \in Seq(1..MaxLen) /\ Len(accepted') = Len(accepted) + 1
      /\ \A m \in 1..Len(accepted) : accepted'[m] = accepted[m]
      /\ accepted'[Len(accepted) + 1] = len
  BY AppendProperties
<1> DEFINE cc(w) == [m \in 1..Len(w) |-> Chunks(m, w[m])]
<1>3. ASSUME NEW w \in Seq(1..MaxLen)
      PROVE  cc(w) \in Seq(Seq(Chunk)) /\ Len(cc(w)) = Len(w)
  <2>1. Len(w) \in Nat /\ \A m \in 1..Len(w) : m \in Nat /\ w[m] \in Nat
    BY <1>1, <1>3, LenProperties, ElementOfSeq
  <2>2. \A m \in 1..Len(w) : Chunks(m, w[m]) \in Seq(Chunk)
    BY <2>1, ChunksTyped
  <2>3. cc(w) \in [1..Len(w) -> Seq(Chunk)]
    BY <2>2
  <2> QED BY <2>1, <2>3, SeqOfFunction
<1>4. /\ \A m \in 1..Len(accepted) : cc(accepted')[m] = cc(accepted)[m]
      /\ cc(accepted')[Len(accepted) + 1] = Chunks(Len(accepted) + 1, len)
  BY <1>1, <1>2
<1>5. AcceptedChunks = FlattenSeq(cc(accepted)) /\ AcceptedChunks' = FlattenSeq(cc(accepted'))
  BY DEF AcceptedChunks
<1>6. Chunks(Len(accepted) + 1, len) \in Seq(Chunk)
  BY <1>1, ChunksTyped
<1>7. /\ cc(accepted) \in Seq(Seq(Chunk)) /\ Len(cc(accepted)) = Len(accepted)
      /\ cc(accepted') \in Seq(Seq(Chunk)) /\ Len(cc(accepted')) = Len(accepted) + 1
  BY <1>2, <1>3
<1> DEFINE ss == cc(accepted)
           tt == cc(accepted')
           c == Chunks(Len(accepted) + 1, len)
<1>8. /\ ss \in Seq(Seq(Chunk)) /\ tt \in Seq(Seq(Chunk)) /\ Len(tt) = Len(ss) + 1
      /\ \A m \in 1..Len(ss) : tt[m] = ss[m]
      /\ tt[Len(tt)] = Chunks(Len(accepted) + 1, len)
  <2> HIDE DEF cc
  <2> QED BY <1>4, <1>7
<1>9. ss \in Seq(Seq(Chunk)) /\ tt \in Seq(Seq(Chunk)) /\ c \in Seq(Chunk)
  BY <1>6, <1>8
<1>10. Len(tt) = Len(ss) + 1 /\ (\A m \in 1..Len(ss) : tt[m] = ss[m]) /\ tt[Len(tt)] = c
  BY <1>8
<1> HIDE DEF ss, tt, c
<1>11. FlattenSeq(ss) \in Seq(Chunk) /\ FlattenSeq(tt) = FlattenSeq(ss) \o c
  BY ONLY <1>9, <1>10, FlattenOfAppend
<1> QED BY <1>5, <1>11 DEF ss, tt, c

\* Chunks are sent, taken by the stream or in the queue, in the order of the
\* messages; closing drops the last ones.
JoinedOK ==
  /\ ~closed => sent \o (buffered \o writeQueue) = AcceptedChunks
  /\ closed => buffered = <<>> /\ IsPrefix(sent, AcceptedChunks)

StreamInv == OutInv /\ JoinedOK

\* What a step does to the outbound side.
Closing ==
  /\ ~closed /\ accepted' = accepted /\ refused' \in Nat /\ sent' = sent
  /\ \E e \in BOOLEAN : Shut(e)

Idle ==
  /\ refused' \in Nat
  /\ UNCHANGED <<accepted, writeQueue, queuedBytes, waitingForDrain, buffered, sent, closed>>

LEMMA OutboundStep ==
  ASSUME OutInv, [Next]_vars
  PROVE  Closing \/ Idle \/ (\E len \in 1..MaxLen : Taken(len)) \/ StreamSends \/ OnDrain
<1>0. refused \in Nat /\ refused + 1 \in Nat
  BY DEF OutInv, OutTypeOK
<1>1. CASE LoopStep
  BY <1>0, <1>1 DEF LoopStep, Recv, Handle, HandlerReturns, outVars, Idle
<1>2. CASE StreamStep
  BY <1>2 DEF StreamStep
<1>3. ASSUME NEW k \in 1..(MaxLen * NIn), OnData(k) PROVE Closing \/ Idle
  <2>1. CASE Throws(arrived + k)
    BY <1>0, <1>3, <2>1 DEF OnData, Event, Closing
  <2>2. CASE ~Throws(arrived + k)
    BY <1>0, <1>3, <2>2 DEF OnData, Idle
  <2> QED BY <2>1, <2>2
<1>4. ASSUME NEW len \in 1..MaxLen, SendMessage(len) PROVE Closing \/ Idle \/ Taken(len)
  BY <1>0, <1>4 DEF SendMessage, Closing, Idle, Taken
<1>5. CASE StreamFails
  BY <1>0, <1>5 DEF StreamFails, Event, Closing
<1>6. CASE Shutdown
  BY <1>0, <1>6 DEF Shutdown, Closing, Idle
<1>7. CASE UNCHANGED vars
  BY <1>0, <1>7 DEF vars, outVars, Idle
<1> QED BY <1>1, <1>2, <1>3, <1>4, <1>5, <1>6, <1>7 DEF Next

LEMMA StreamInvHolds ==
  /\ Init => StreamInv
  /\ StreamInv /\ [Next]_vars => StreamInv'
<1>1. ASSUME Init PROVE StreamInv
  <2>1. /\ accepted = <<>> /\ refused = 0 /\ writeQueue = <<>> /\ queuedBytes = 0
        /\ waitingForDrain = FALSE /\ buffered = <<>> /\ sent = <<>> /\ closed = FALSE
    BY <1>1 DEF Init
  <2>2. \A S : <<>> \in Seq(S) /\ Len(<<>>) = 0 /\ <<>> \o <<>> = <<>>
    BY EmptySeq, ConcatEmptySeq
  <2>3. OutTypeOK
    BY <2>1, <2>2 DEF OutTypeOK
  <2>4. WriteQueueOK
    BY <2>1, <2>2, TransportAssumption DEF WriteQueueOK
  <2>5. AcceptedChunks = <<>>
    <3>1. [m \in 1..Len(accepted) |-> Chunks(m, accepted[m])] \in [1..0 -> Seq(Chunk)]
      BY <2>1, <2>2
    <3>2. Len([m \in 1..Len(accepted) |-> Chunks(m, accepted[m])]) = 0
      BY <3>1, SeqOfFunction
    <3>3. [m \in 1..Len(accepted) |-> Chunks(m, accepted[m])] = <<>>
      BY <3>1, <3>2, SeqOfFunction, EmptySeq
    <3> QED BY <3>2, <3>3 DEF AcceptedChunks, FlattenSeq
  <2>6. JoinedOK
    BY <2>1, <2>2, <2>5 DEF JoinedOK
  <2> QED BY <2>3, <2>4, <2>6 DEF StreamInv, OutInv
<1>2. ASSUME StreamInv, [Next]_vars PROVE StreamInv'
  <2>0. /\ OutInv /\ JoinedOK
        /\ accepted \in Seq(1..MaxLen) /\ sent \in Seq(Chunk) /\ buffered \in Seq(Chunk)
        /\ writeQueue \in Seq(Chunk) /\ closed \in BOOLEAN
        /\ buffered \o writeQueue \in Seq(Chunk)
    BY <1>2, ConcatProperties DEF StreamInv, OutInv, OutTypeOK
  <2>1. CASE Closing
    <3>1. PICK e \in BOOLEAN : Shut(e)
      BY <2>1 DEF Closing
    <3>2. OutInv'
      BY <2>0, <2>1, <3>1, ShutKeepsOut DEF Closing
    <3>3. IsPrefix(sent, AcceptedChunks)
      BY <2>0, <2>1, PrefixOfConcat DEF Closing, JoinedOK
    <3>4. JoinedOK'
      BY <2>1, <3>1, <3>3 DEF Closing, Shut, JoinedOK, AcceptedChunks
    <3> QED BY <3>2, <3>4 DEF StreamInv
  <2>2. CASE Idle
    <3>1. OutInv'
      BY <2>0, <2>2 DEF Idle, OutInv, OutTypeOK, WriteQueueOK
    <3>2. JoinedOK'
      BY <2>0, <2>2 DEF Idle, JoinedOK, AcceptedChunks
    <3> QED BY <3>1, <3>2 DEF StreamInv
  <2>3. ASSUME NEW len \in 1..MaxLen, Taken(len) PROVE StreamInv'
    <3> DEFINE c == Chunks(Len(accepted) + 1, len)
    <3>1. OutInv' /\ buffered' \o writeQueue' = (buffered \o writeQueue) \o c
      BY <2>0, <2>3, TakenKeepsOut
    <3>2. AcceptedChunks' = AcceptedChunks \o c
      BY <2>0, <2>3, AcceptedChunksGrow DEF Taken
    <3>3. c \in Seq(Chunk)
      BY <2>0, <2>3, ChunksTyped, LenProperties, TransportAssumption
    <3>4. ~closed /\ ~closed' /\ sent' = sent
      BY <2>3 DEF Taken
    <3> HIDE DEF c
    <3> DEFINE p == buffered \o writeQueue
    <3>5. (sent \o p) \o c = sent \o (p \o c)
      <4>1. sent \in Seq(Chunk) /\ p \in Seq(Chunk)
        BY <2>0
      <4> HIDE DEF p
      <4> QED BY ONLY <3>3, <4>1, ConcatAssociative
    <3>6. JoinedOK'
      BY <2>0, <3>1, <3>2, <3>4, <3>5 DEF JoinedOK
    <3> QED BY <3>1, <3>6 DEF StreamInv
  <2>4. CASE StreamSends
    <3>1. /\ OutInv'
          /\ sent' \o (buffered' \o writeQueue') = sent \o (buffered \o writeQueue)
      BY <2>0, <2>4, SendingKeepsOut
    <3>2. buffered # <<>> /\ UNCHANGED <<accepted, closed>>
      BY <2>4 DEF StreamSends
    <3>3. AcceptedChunks' = AcceptedChunks
      BY <3>2 DEF AcceptedChunks
    <3>4. JoinedOK'
      BY <2>0, <3>1, <3>2, <3>3 DEF JoinedOK
    <3> QED BY <3>1, <3>4 DEF StreamInv
  <2>5. CASE OnDrain
    <3>1. OutInv' /\ buffered' \o writeQueue' = buffered \o writeQueue
      BY <2>0, <2>5, DrainKeepsOut
    <3>2. ~closed /\ UNCHANGED <<accepted, sent, closed>>
      BY <2>5 DEF OnDrain, Event
    <3>3. AcceptedChunks' = AcceptedChunks
      BY <3>2 DEF AcceptedChunks
    <3>4. JoinedOK'
      BY <2>0, <3>1, <3>2, <3>3 DEF JoinedOK
    <3> QED BY <3>1, <3>4 DEF StreamInv
  <2> QED BY <1>2, <2>0, <2>1, <2>2, <2>3, <2>4, <2>5, OutboundStep
<1> QED BY <1>1, <1>2

\* The write queue is accounted for and bounded, empty once the transport is
\* closed, and never left without a drain event to come (enqueueWrite,
\* flushWrites, onDrain, cleanup).
THEOREM WriteQueueAccountedFor == Spec => []WriteQueueOK
<1>1. StreamInv => WriteQueueOK
  BY DEF StreamInv, OutInv
<1> QED BY <1>1, StreamInvHolds, PTL DEF Spec

\* Whatever the backpressure, the peer gets the chunks of accepted messages
\* whole and in order; while the transport is open none is missing
\* (sendMessage, flushWrites, onDrain).
THEOREM StreamCarriesWholeMessages == Spec => []StreamIsWhole
<1>1. ASSUME StreamInv PROVE StreamIsWhole
  <2>0. /\ sent \in Seq(Chunk) /\ buffered \in Seq(Chunk) /\ writeQueue \in Seq(Chunk)
        /\ closed \in BOOLEAN /\ (closed => writeQueue = <<>>) /\ JoinedOK
    BY <1>1 DEF StreamInv, OutInv, OutTypeOK, WriteQueueOK
  <2> DEFINE out == sent \o buffered \o writeQueue
  <2>1. out = sent \o (buffered \o writeQueue) /\ out \in Seq(Chunk)
    <3>1. out = sent \o (buffered \o writeQueue)
      BY ONLY <2>0, ConcatAssociative
    <3>2. sent \o buffered \in Seq(Chunk)
      BY <2>0, ConcatProperties
    <3>3. out \in Seq(Chunk)
      BY <2>0, <3>2, ConcatProperties
    <3> QED BY <3>1, <3>3
  <2>2. CASE closed
    <3>1. out = sent
      BY <2>0, <2>2, ConcatEmptySeq DEF JoinedOK
    <3> QED BY <2>0, <2>2, <3>1 DEF JoinedOK, StreamIsWhole
  <2>3. CASE ~closed
    <3>1. out = AcceptedChunks
      BY <2>0, <2>1, <2>3 DEF JoinedOK
    <3>2. <<>> \in Seq(Chunk) /\ out \o <<>> = out
      BY <2>1, EmptySeq, ConcatEmptySeq
    <3> HIDE DEF out
    <3>3. IsPrefix(out, out)
      BY <2>1, <3>2, PrefixOfConcat
    <3> QED BY <2>3, <3>1, <3>3 DEF StreamIsWhole, out
  <2> QED BY <2>2, <2>3
<1> QED BY <1>1, StreamInvHolds, PTL DEF Spec

-----------------------------------------------------------------------------
(* What has been handled, is in hand and waits in the queue, one line.     *)

Hand(i) == IF i = 0 THEN <<>> ELSE <<i>>

Line(h, i, r) == (h \o Hand(i)) \o r

\* The frames of s are those up to n that can be read, in the order they came.
LineOK(s, n) == s \in Seq(1..NIn) /\ Increasing(s) /\ Range(s) = Good(n)

InTypeOK ==
  /\ frames \in [1..NIn -> Frames] /\ arrived \in Nat /\ decoded \in 0..NIn
  /\ received \in Seq(1..NIn) /\ handled \in Seq(1..NIn) /\ inHand \in 0..NIn
  /\ loop \in Loops /\ closed \in BOOLEAN

\* A frame is in hand only when the loop was given one, none waits in the queue
\* while the loop waits for one, none is left of a closed transport.
LoopOK ==
  /\ loop = "given" <=> inHand # 0
  /\ loop = "waiting" => received = <<>>
  /\ closed => received = <<>>

\* The frames decoded have arrived; none of them is garbage.
DecodedOK ==
  ~closed => End(decoded) <= arrived /\ \A k \in 1..decoded : frames[k].kind # "garbage"

\* No frame is missing from the line; closing cuts it short.
LineIsWhole ==
  \E n \in 0..NIn : LineOK(Line(handled, inHand, received), n) /\ (~closed => n = decoded)

InInv == InTypeOK /\ LoopOK /\ DecodedOK /\ LineIsWhole

\* One frame more: it joins the line if it can be read.
LEMMA LineGrows ==
  ASSUME frames \in [1..NIn -> Frames], NEW f \in 1..NIn, NEW s, LineOK(s, f - 1)
  PROVE  /\ frames[f].kind = "good" => LineOK(Append(s, f), f)
         /\ frames[f].kind # "good" => LineOK(s, f)
<1>0. f \in Nat /\ NIn \in Nat /\ f \in 1..f /\ 1..f = 1..(f - 1) \cup {f}
  BY TransportAssumption
<1>1. s \in Seq(1..NIn) /\ Increasing(s) /\ Range(s) = Good(f - 1)
  BY DEF LineOK
<1>2. /\ frames[f].kind = "good" => Good(f) = Good(f - 1) \cup {f}
      /\ frames[f].kind # "good" => Good(f) = Good(f - 1)
  BY <1>0 DEF Good
<1>3. ASSUME frames[f].kind = "good" PROVE LineOK(Append(s, f), f)
  <2> DEFINE t == Append(s, f)
             S == 1..NIn
  <2>0. s \in Seq(S) /\ f \in S /\ t = Append(s, f)
    BY <1>1
  <2> HIDE DEF t, S
  <2>1. t \in Seq(S) /\ Range(t) = Range(s) \cup {f}
    BY <2>0, RangeOfAppend
  <2>2. /\ DOMAIN t = DOMAIN s \cup {Len(s) + 1} /\ t[Len(s) + 1] = f /\ Len(s) + 1 \in Int
        /\ \A k \in DOMAIN s : k \in Int /\ k < Len(s) + 1 /\ t[k] = s[k] /\ s[k] \in Range(s)
    <3>1. DOMAIN t = DOMAIN s \cup {Len(s) + 1} /\ t[Len(s) + 1] = f /\ Len(s) + 1 \in Int
      BY ONLY <2>0, PositionsOfAppend
    <3>2. \A k \in DOMAIN s : k \in Int /\ k < Len(s) + 1 /\ t[k] = s[k] /\ s[k] \in Range(s)
      <4>1. \A k \in DOMAIN s : k \in Int /\ k < Len(s) + 1
        BY ONLY <2>0, LenProperties
      <4>2. \A k \in DOMAIN s : t[k] = s[k]
        BY ONLY <2>0, AppendProperties, LenProperties
      <4>3. \A k \in DOMAIN s : s[k] \in Range(s)
        BY DEF Range
      <4> QED BY <4>1, <4>2, <4>3
    <3> QED BY <3>1, <3>2
  <2>3. \A x \in Range(s) : x < f
    BY <1>0, <1>1 DEF Good
  <2>4. Increasing(t)
    <3> SUFFICES ASSUME NEW j \in DOMAIN t, NEW k \in DOMAIN t, j < k PROVE t[j] < t[k]
      BY DEF Increasing
    <3>1. j \in DOMAIN s
      BY <2>2
    <3>2. CASE k \in DOMAIN s
      BY <1>1, <2>2, <3>1, <3>2 DEF Increasing
    <3>3. CASE k = Len(s) + 1
      BY <2>2, <2>3, <3>1, <3>3
    <3> QED BY <2>2, <3>2, <3>3
  <2> QED BY <1>1, <1>2, <1>3, <2>1, <2>4 DEF LineOK, S, t
<1> QED BY <1>1, <1>2, <1>3 DEF LineOK

\* The first part of a line is a line.
LEMMA LinePrefix ==
  ASSUME NEW p \in Seq(1..NIn), NEW q \in Seq(1..NIn), NEW n \in 0..NIn, LineOK(p \o q, n)
  PROVE  \E m \in 0..NIn : LineOK(p, m)
<1>0. NIn \in Nat
  BY TransportAssumption
<1> DEFINE u == p \o q
<1>1. /\ Len(p) \in Nat /\ Len(q) \in Nat /\ DOMAIN p = 1..Len(p) /\ DOMAIN u = 1..(Len(p) + Len(q))
      /\ \A i \in 1..Len(p) : u[i] = p[i] /\ p[i] \in 1..NIn
  <2>1. Len(p) \in Nat /\ Len(q) \in Nat /\ DOMAIN p = 1..Len(p)
    BY LenProperties
  <2>2. u \in Seq(1..NIn) /\ Len(u) = Len(p) + Len(q)
    BY ConcatProperties
  <2>3. \A i \in 1..(Len(p) + Len(q)) : u[i] = IF i <= Len(p) THEN p[i] ELSE q[i - Len(p)]
    BY ConcatProperties
  <2>4. DOMAIN u = 1..(Len(p) + Len(q))
    BY <2>2, LenProperties
  <2>5. \A i \in 1..Len(p) : p[i] \in 1..NIn
    BY ElementOfSeq
  <2> QED BY <2>1, <2>3, <2>4, <2>5
<1>2. Range(u) = Good(n) /\ \A j, k \in DOMAIN u : j < k => u[j] < u[k]
  BY DEF LineOK, Increasing
<1> HIDE DEF u
<1>3. Increasing(p)
  BY <1>1, <1>2 DEF Increasing
<1>4. CASE Len(p) = 0
  <2>1. Range(p) = {}
    BY <1>1, <1>4 DEF Range
  <2>2. Good(0) = {}
    BY DEF Good
  <2> QED BY <1>0, <1>3, <2>1, <2>2 DEF LineOK
<1>5. CASE Len(p) # 0
  <2> DEFINE m == p[Len(p)]
  <2>0. Len(p) \in 1..Len(p) /\ Len(p) \in DOMAIN u /\ m \in 1..NIn /\ u[Len(p)] = m
    BY <1>1, <1>5
  <2>1. ASSUME NEW x \in Range(p) PROVE x \in Good(m)
    <3>1. PICK i \in 1..Len(p) : x = p[i]
      BY <1>1 DEF Range
    <3>2. i \in DOMAIN u /\ u[i] = x /\ x \in 1..NIn
      BY <1>1, <3>1
    <3>3. x \in Good(n)
      BY <1>2, <3>2 DEF Range
    <3>4. x <= m
      <4>1. i < Len(p) => x < m
        BY <1>2, <2>0, <3>2
      <4>2. i = Len(p) => x = m
        BY <3>1
      <4> QED BY <1>1, <2>0, <3>1, <3>2, <4>1, <4>2
    <3> HIDE DEF m
    <3> QED BY <2>0, <3>2, <3>3, <3>4 DEF Good
  <2>2. ASSUME NEW x \in Good(m) PROVE x \in Range(p)
    <3>1. m \in Good(n)
      BY <1>2, <2>0 DEF Range
    <3>2. x \in Good(n) /\ x \in 1..NIn /\ x <= m
      <4>1. n \in Nat /\ m \in 1..n /\ m \in Nat
        BY <1>0, <2>0, <3>1 DEF Good
      <4>2. x \in 1..m /\ frames[x].kind = "good"
        BY <2>2 DEF Good
      <4> HIDE DEF m
      <4>3. x \in 1..n /\ x \in 1..NIn /\ x <= m
        BY <1>0, <4>1, <4>2
      <4> QED BY <4>2, <4>3 DEF Good
    <3>3. PICK i \in 1..(Len(p) + Len(q)) : x = u[i]
      BY <1>1, <1>2, <3>2 DEF Range
    <3>4. ~ (Len(p) < i)
      <4> SUFFICES ASSUME Len(p) < i PROVE FALSE
        OBVIOUS
      <4>1. u[Len(p)] < u[i]
        BY <1>1, <1>2, <2>0, <3>3
      <4> QED BY <2>0, <3>2, <3>3, <4>1
    <3>5. i \in 1..Len(p)
      BY <1>1, <3>3, <3>4
    <3> QED BY <1>1, <3>3, <3>5 DEF Range
  <2>3. Range(p) = Good(m)
    BY <2>1, <2>2
  <2> QED BY <1>0, <1>3, <2>0, <2>3 DEF LineOK
<1> QED BY <1>1, <1>4, <1>5

-----------------------------------------------------------------------------
(* What the decoder can return.                                            *)

\* Frames end one after another.
LEMMA EndGrows ==
  ASSUME frames \in [1..NIn -> Frames]
  PROVE  /\ End(0) = 0
         /\ \A n \in 0..NIn : End(n) \in Nat
         /\ \A n \in 0..NIn : n < NIn => End(n) <= End(n + 1)
<1> DEFINE w(n) == [k \in 1..n |-> frames[k].len]
<1>0. NIn \in Nat /\ MaxLen \in Nat /\ \A k \in 1..NIn : frames[k].len \in Nat
  BY TransportAssumption DEF Frames
<1>1. ASSUME NEW n \in 0..NIn
      PROVE  w(n) \in Seq(Nat) /\ Len(w(n)) = n /\ \A k \in 1..n : w(n)[k] = frames[k].len
  <2>1. n \in Nat /\ \A k \in 1..n : frames[k].len \in Nat
    BY <1>0
  <2>2. w(n) \in [1..n -> Nat]
    BY <2>1
  <2> QED BY <2>1, <2>2, SeqOfFunction
<1>2. \A n : End(n) = SumOf(w(n))
  BY DEF End
<1> HIDE DEF w
<1>3. End(0) = 0
  <2>1. w(0) \in Seq(Nat) /\ Len(w(0)) = 0
    BY <1>0, <1>1
  <2>2. w(0) = <<>>
    BY <2>1, EmptySeq
  <2> QED BY <1>2, <2>2, SumOfEmpty
<1>4. ASSUME NEW n \in 0..NIn PROVE End(n) \in Nat
  BY <1>1, <1>2, SumOfBounds
<1>5. ASSUME NEW n \in 0..NIn, n < NIn PROVE End(n) <= End(n + 1)
  <2>1. n \in 0..NIn /\ n + 1 \in 0..NIn /\ n + 1 \in 1..(n + 1)
    BY <1>0, <1>5
  <2>2. w(n) \in Seq(Nat) /\ w(n + 1) \in Seq(Nat) /\ Len(w(n)) = n /\ Len(w(n + 1)) = n + 1
    BY <1>1, <2>1
  <2>3. \A i \in 1..n : w(n + 1)[i] = w(n)[i]
    <3>1. \A i \in 1..n : w(n)[i] = frames[i].len
      BY <1>1, <2>1
    <3>2. \A i \in 1..(n + 1) : w(n + 1)[i] = frames[i].len
      BY <1>1, <2>1
    <3> QED BY <2>1, <3>1, <3>2
  <2> DEFINE a == w(n)
             b == w(n + 1)
  <2>4. a \in Seq(Nat) /\ b \in Seq(Nat) /\ Len(b) = Len(a) + 1 /\ \A i \in 1..Len(a) : b[i] = a[i]
    BY <2>2, <2>3
  <2>5. w(n + 1)[n + 1] \in Nat
    BY <2>1, <2>2, ElementOfSeq
  <2> HIDE DEF a, b
  <2>6. SumOf(b) = SumOf(a) + b[Len(b)]
    BY ONLY <2>4, SumOfExtended
  <2>7. End(n + 1) = End(n) + w(n + 1)[n + 1]
    BY <1>2, <2>2, <2>6 DEF a, b
  <2>8. End(n) \in Nat
    BY <1>4
  <2> QED BY <2>5, <2>7, <2>8
<1> QED BY <1>3, <1>4, <1>5

LEMMA EndMonotone ==
  ASSUME frames \in [1..NIn -> Frames], NEW m \in 0..NIn, NEW n \in m..NIn
  PROVE  End(m) <= End(n)
<1>0. NIn \in Nat
  BY TransportAssumption
<1> DEFINE T == {k \in m..NIn : ~ End(m) <= End(k)}
<1> SUFFICES ASSUME T # {} PROVE FALSE
  BY <1>0
<1>1. T \subseteq Nat
  BY <1>0
<1>2. PICK k \in T : \A j \in T : k <= j
  BY <1>1, LeastNumber
<1>3. k # m
  <2>1. End(m) \in Nat
    BY EndGrows
  <2>2. ~ End(m) <= End(k)
    BY <1>2
  <2> QED BY <2>1, <2>2
<1>4. k \in m..NIn /\ k - 1 \in m..NIn /\ k - 1 \notin T /\ k - 1 \in 0..NIn /\ k - 1 < NIn
      /\ (k - 1) + 1 = k
  BY <1>0, <1>2, <1>3
<1>5. End(m) <= End(k - 1)
  BY <1>4
<1>6. End(k - 1) <= End(k)
  BY <1>4, EndGrows
<1>7. End(m) \in Nat /\ End(k - 1) \in Nat /\ End(k) \in Nat
  BY <1>0, <1>4, EndGrows
<1>8. ~ End(m) <= End(k)
  BY <1>2
<1> QED BY ONLY <1>5, <1>6, <1>7, <1>8

\* Some frame is the last the decoder can return, and none of those before is
\* taken back when more arrives.
LEMMA DecodableProperties ==
  ASSUME frames \in [1..NIn -> Frames], NEW u \in Nat, NEW d \in 0..NIn,
         End(d) <= u, \A k \in 1..d : frames[k].kind # "garbage"
  PROVE  /\ Decodable(u) \in d..NIn
         /\ End(Decodable(u)) <= u
         /\ \A k \in 1..Decodable(u) : frames[k].kind # "garbage"
<1>0. NIn \in Nat
  BY TransportAssumption
<1> DEFINE Can(n) == End(n) <= u /\ \A k \in 1..n : frames[k].kind # "garbage"
           IsLast(n) == /\ End(n) <= u /\ \A k \in 1..n : frames[k].kind # "garbage"
                        /\ n < NIn => End(n + 1) > u \/ frames[n + 1].kind = "garbage"
           T == {j \in 0..NIn : Can(NIn - j)}
<1>1. \E n \in 0..NIn : IsLast(n)
  <2>1. NIn - d \in T
    <3>1. NIn - d \in 0..NIn /\ NIn - (NIn - d) = d
      BY <1>0
    <3> QED BY <3>1
  <2>2. T \subseteq Nat
    BY <1>0
  <2>3. PICK j \in T : \A i \in T : j <= i
    BY <2>1, <2>2, LeastNumber
  <2> DEFINE n == NIn - j
  <2>4. n \in 0..NIn /\ Can(n)
    BY <1>0, <2>3
  <2>5. ASSUME n < NIn PROVE End(n + 1) > u \/ frames[n + 1].kind = "garbage"
    <3>1. j - 1 \in 0..NIn /\ NIn - (j - 1) = n + 1 /\ j - 1 \notin T
      <4>1. j \in 0..NIn /\ NIn - j < NIn
        BY <2>3, <2>5
      <4>2. j - 1 \in 0..NIn /\ NIn - (j - 1) = n + 1 /\ ~ (j <= j - 1)
        BY <1>0, <4>1
      <4> HIDE DEF T
      <4> QED BY <2>3, <4>2
    <3>2. ~ Can(n + 1)
      BY <3>1
    <3>3. n + 1 \in 0..NIn /\ \A k \in 1..(n + 1) : k \in 1..n \/ k = n + 1
      BY <1>0, <2>3, <2>5
    <3>4. End(n + 1) \in Nat
      BY <3>3, EndGrows
    <3> HIDE DEF n
    <3>5. End(n + 1) <= u => \E k \in 1..(n + 1) : frames[k].kind = "garbage"
      BY <3>2
    <3>6. End(n + 1) <= u => frames[n + 1].kind = "garbage"
      BY <2>4, <3>3, <3>5
    <3> QED BY <3>4, <3>6
  <2> QED BY <2>4, <2>5
<1>2. Decodable(u) = CHOOSE n \in 0..NIn : IsLast(n)
  BY DEF Decodable
<1> HIDE DEF IsLast
<1>3. Decodable(u) \in 0..NIn /\ IsLast(Decodable(u))
  BY <1>1, <1>2
<1> DEFINE n == Decodable(u)
<1> HIDE DEF n
<1>4. n \in 0..NIn /\ IsLast(n)
  BY <1>3 DEF n
<1>5. ~ (n < d)
  <2> SUFFICES ASSUME n < d PROVE FALSE
    OBVIOUS
  <2>1. n + 1 \in 0..NIn /\ n + 1 \in 1..d /\ d \in (n + 1)..NIn /\ n < NIn
    BY <1>0, <1>4
  <2>2. End(n + 1) <= End(d) /\ End(n + 1) \in Nat /\ End(d) \in Nat
    BY <2>1, EndMonotone, EndGrows
  <2>3. End(n + 1) > u \/ frames[n + 1].kind = "garbage"
    BY <1>4, <2>1 DEF IsLast
  <2>4. frames[n + 1].kind # "garbage"
    BY <2>1
  <2> QED BY <2>2, <2>3, <2>4
<1>6. n \in d..NIn
  BY <1>0, <1>4, <1>5
<1> QED BY <1>4, <1>6 DEF IsLast, n

-----------------------------------------------------------------------------
(* The frames of one chunk are resolved one after another.                 *)

\* The state resolve leaves when frame n is the last it was called for.
StateOK(st, n) ==
  /\ st \in [loop : Loops, inHand : 0..NIn, received : Seq(1..NIn)]
  /\ st.loop = "given" <=> st.inHand # 0
  /\ st.loop = "waiting" => st.received = <<>>
  /\ LineOK(Line(handled, st.inHand, st.received), n)

LEMMA HandTyped ==
  ASSUME NEW i \in 0..NIn
  PROVE  Hand(i) \in Seq(1..NIn)
<1>1. CASE i = 0
  BY <1>1, EmptySeq DEF Hand
<1>2. CASE i # 0
  <2>1. i \in 1..NIn /\ Hand(i) = <<i>>
    BY <1>2, TransportAssumption DEF Hand
  <2> QED BY <2>1
<1> QED BY <1>1, <1>2

\* Frames join the line behind those of the queue.
LEMMA LineOfAppend ==
  ASSUME handled \in Seq(1..NIn), NEW i \in 0..NIn, NEW r \in Seq(1..NIn), NEW f \in 1..NIn
  PROVE  Line(handled, i, Append(r, f)) = Append(Line(handled, i, r), f)
<1> DEFINE S == 1..NIn
           x == handled \o Hand(i)
<1>1. x \in Seq(S) /\ r \in Seq(S) /\ f \in S
  BY HandTyped, ConcatProperties
<1>2. Line(handled, i, Append(r, f)) = x \o Append(r, f) /\ Line(handled, i, r) = x \o r
  BY DEF Line
<1> HIDE DEF S, x
<1>3. <<f>> \in Seq(S) /\ x \o r \in Seq(S)
  BY <1>1, ConcatProperties
<1>4. Append(r, f) = r \o <<f>> /\ Append(x \o r, f) = (x \o r) \o <<f>>
  BY <1>1, <1>3, AppendIsConcat
<1>5. (x \o r) \o <<f>> = x \o (r \o <<f>>)
  BY ONLY <1>1, <1>3, ConcatAssociative
<1> QED BY <1>2, <1>4, <1>5

\* An empty hand and an empty queue.
LEMMA ShortLines ==
  ASSUME handled \in Seq(1..NIn)
  PROVE  /\ Line(handled, 0, <<>>) = handled
         /\ \A i \in 0..NIn : Line(handled, i, <<>>) = handled \o Hand(i)
         /\ \A i \in 1..NIn : Line(handled, i, <<>>) = Append(handled, i)
<1>1. ASSUME NEW i \in 0..NIn PROVE Line(handled, i, <<>>) = handled \o Hand(i)
  <2>1. handled \o Hand(i) \in Seq(1..NIn)
    BY HandTyped, ConcatProperties
  <2> QED BY <2>1, ConcatEmptySeq DEF Line
<1>2. Line(handled, 0, <<>>) = handled
  <2>1. 0 \in 0..NIn /\ Hand(0) = <<>>
    BY TransportAssumption DEF Hand
  <2> QED BY <1>1, <2>1, ConcatEmptySeq
<1>3. ASSUME NEW i \in 1..NIn PROVE Line(handled, i, <<>>) = Append(handled, i)
  <2>1. i \in 0..NIn /\ Hand(i) = <<i>>
    BY TransportAssumption DEF Hand
  <2>2. Append(handled, i) = handled \o <<i>>
    BY AppendIsConcat
  <2> QED BY <1>1, <2>1, <2>2
<1> QED BY <1>1, <1>2, <1>3

LEMMA ResolveKeeps ==
  ASSUME frames \in [1..NIn -> Frames], handled \in Seq(1..NIn),
         NEW f \in 1..NIn, NEW st, StateOK(st, f - 1)
  PROVE  StateOK(Resolve(st, f), f)
<1>0. /\ st \in [loop : Loops, inHand : 0..NIn, received : Seq(1..NIn)]
      /\ st.loop = "given" <=> st.inHand # 0
      /\ st.loop = "waiting" => st.received = <<>>
      /\ LineOK(Line(handled, st.inHand, st.received), f - 1)
      /\ st.inHand \in 0..NIn /\ st.received \in Seq(1..NIn)
      /\ NIn \in Nat /\ f # 0 /\ f \in 0..NIn
  BY TransportAssumption DEF StateOK
<1>1. CASE st.loop = "waiting" /\ frames[f].kind = "good"
  <2> DEFINE t == Resolve(st, f)
  <2>1. t = [st EXCEPT !.loop = "given", !.inHand = f]
    BY <1>1 DEF Resolve
  <2>2. /\ t \in [loop : Loops, inHand : 0..NIn, received : Seq(1..NIn)]
        /\ t.loop = "given" /\ t.inHand = f /\ t.received = <<>>
    BY <1>0, <1>1, <2>1 DEF Loops
  <2>3. st.inHand = 0 /\ LineOK(handled, f - 1)
    <3>1. st.inHand = 0
      BY <1>0, <1>1
    <3> QED BY <1>0, <1>1, <3>1, ShortLines
  <2>4. LineOK(Line(handled, f, <<>>), f)
    BY <1>1, <2>3, LineGrows, ShortLines
  <2> HIDE DEF t
  <2> QED BY <1>0, <2>2, <2>4 DEF StateOK, t
<1>2. CASE st.loop = "waiting" /\ frames[f].kind # "good"
  <2> DEFINE t == Resolve(st, f)
  <2>1. t = [st EXCEPT !.loop = "ended"]
    BY <1>2 DEF Resolve
  <2>2. /\ t \in [loop : Loops, inHand : 0..NIn, received : Seq(1..NIn)]
        /\ t.loop = "ended" /\ t.inHand = st.inHand /\ t.received = st.received /\ st.inHand = 0
    BY <1>0, <1>2, <2>1 DEF Loops
  <2>3. LineOK(Line(handled, st.inHand, st.received), f)
    BY <1>0, <1>2, LineGrows
  <2> HIDE DEF t
  <2> QED BY <1>0, <2>2, <2>3 DEF StateOK, t
<1>3. CASE st.loop # "waiting" /\ frames[f].kind = "good"
  <2> DEFINE t == Resolve(st, f)
  <2>1. t = [st EXCEPT !.received = Append(st.received, f)]
    BY <1>3 DEF Resolve
  <2>2. Append(st.received, f) \in Seq(1..NIn)
    BY <1>0, AppendProperties
  <2>3. /\ t \in [loop : Loops, inHand : 0..NIn, received : Seq(1..NIn)]
        /\ t.loop = st.loop /\ t.inHand = st.inHand /\ t.received = Append(st.received, f)
    BY <1>0, <2>1, <2>2
  <2>4. LineOK(Append(Line(handled, st.inHand, st.received), f), f)
    BY <1>0, <1>3, LineGrows
  <2>5. LineOK(Line(handled, st.inHand, Append(st.received, f)), f)
    BY <1>0, <2>4, LineOfAppend
  <2> HIDE DEF t
  <2> QED BY <1>0, <1>3, <2>3, <2>5 DEF StateOK, t
<1>4. CASE st.loop # "waiting" /\ frames[f].kind # "good"
  <2>1. Resolve(st, f) = st
    BY <1>4 DEF Resolve
  <2>2. LineOK(Line(handled, st.inHand, st.received), f)
    BY <1>0, <1>4, LineGrows
  <2> QED BY <1>0, <2>1, <2>2 DEF StateOK
<1> QED BY <1>1, <1>2, <1>3, <1>4

Now == [loop |-> loop, inHand |-> inHand, received |-> received]

\* The states after each of the frames decoded + 1 to n.
Resolving(n, g) ==
  g = [k \in decoded..n |-> IF k = decoded THEN Now ELSE Resolve(g[k - 1], k)]

LEMMA ResolvingExists ==
  ASSUME decoded \in Nat, NEW n \in Nat, n >= decoded
  PROVE  \E g : Resolving(n, g)
<1> DEFINE T == {m \in Nat : m >= decoded /\ ~ \E g : Resolving(m, g)}
<1> SUFFICES ASSUME T # {} PROVE FALSE
  OBVIOUS
<1>1. PICK m \in T : \A k \in T : m <= k
  <2>1. T \subseteq Nat
    OBVIOUS
  <2> QED BY <2>1, LeastNumber
<1>2. CASE m = decoded
  <2> DEFINE g == [k \in decoded..m |-> Now]
  <2>1. g = [k \in decoded..m |-> IF k = decoded THEN Now ELSE Resolve(g[k - 1], k)]
    <3>1. \A k \in decoded..m : k = decoded
      BY <1>2
    <3> QED BY <3>1
  <2> HIDE DEF g
  <2> QED BY <1>1, <2>1 DEF Resolving
<1>3. CASE m # decoded
  <2>1. m \in Nat /\ m > decoded /\ m - 1 \in Nat /\ m - 1 >= decoded /\ ~ (m <= m - 1)
    BY <1>1, <1>3
  <2>2. PICK g : Resolving(m - 1, g)
    BY <1>1, <2>1
  <2> DEFINE h == [k \in decoded..m |-> IF k = m THEN Resolve(g[m - 1], m) ELSE g[k]]
  <2>3. ASSUME NEW k \in decoded..m
        PROVE  h[k] = IF k = decoded THEN Now ELSE Resolve(h[k - 1], k)
    <3>1. k = m \/ k \in decoded..(m - 1)
      BY <2>1
    <3>2. k # decoded => k - 1 \in decoded..m /\ k - 1 # m
      BY <2>1
    <3>3. \A j \in decoded..(m - 1) : g[j] = IF j = decoded THEN Now ELSE Resolve(g[j - 1], j)
      BY <2>2 DEF Resolving
    <3>4. k # decoded => h[k - 1] = g[k - 1]
      BY <3>2
    <3>5. CASE k = m
      BY <1>3, <3>4, <3>5
    <3>6. CASE k # m
      BY <3>1, <3>3, <3>4, <3>6
    <3> QED BY <3>5, <3>6
  <2>4. h = [k \in decoded..m |-> h[k]]
    OBVIOUS
  <2> HIDE DEF h
  <2>5. h = [k \in decoded..m |-> IF k = decoded THEN Now ELSE Resolve(h[k - 1], k)]
    BY <2>3, <2>4
  <2> QED BY <1>1, <2>5 DEF Resolving
<1> QED BY <1>2, <1>3

LEMMA ResolvedOK ==
  ASSUME frames \in [1..NIn -> Frames], handled \in Seq(1..NIn), decoded \in 0..NIn,
         NEW n \in decoded..NIn, StateOK(Now, decoded)
  PROVE  StateOK(Resolved(n), n)
<1>0. NIn \in Nat /\ n \in Nat /\ n >= decoded /\ decoded \in Nat /\ n \in decoded..n
  BY TransportAssumption
<1>1. \E g : Resolving(n, g)
  BY <1>0, ResolvingExists
<1> DEFINE g == CHOOSE f : f = [k \in decoded..n |->
                                  IF k = decoded
                                  THEN [loop |-> loop, inHand |-> inHand, received |-> received]
                                  ELSE Resolve(f[k - 1], k)]
<1>2. Resolved(n) = g[n]
  BY DEF Resolved
<1>3. g = [k \in decoded..n |-> IF k = decoded THEN Now ELSE Resolve(g[k - 1], k)]
  BY <1>1 DEF Resolving, Now
<1> HIDE DEF g
<1> DEFINE T == {k \in decoded..n : ~ StateOK(g[k], k)}
<1>4. ASSUME T # {} PROVE FALSE
  <2>1. T \subseteq Nat
    BY <1>0
  <2>2. PICK m \in T : \A k \in T : m <= k
    BY <1>4, <2>1, LeastNumber
  <2>3. m # decoded
    BY <1>3, <2>2
  <2>4. m \in decoded..n /\ m - 1 \in decoded..n /\ ~ (m <= m - 1) /\ m \in 1..NIn
    BY <1>0, <2>2, <2>3
  <2>5. StateOK(g[m - 1], m - 1)
    BY <2>2, <2>4
  <2>6. g[m] = Resolve(g[m - 1], m)
    BY <1>3, <2>3, <2>4
  <2>7. StateOK(g[m], m)
    BY <2>4, <2>5, <2>6, ResolveKeeps
  <2> QED BY <2>2, <2>7
<1> QED BY <1>0, <1>2, <1>4

-----------------------------------------------------------------------------
(* Each step keeps the line whole.                                         *)

\* What is to be shown of the next state, when the frames are the same.
LEMMA LineNext ==
  ASSUME frames' = frames
  PROVE  /\ \A n \in 0..NIn :
              /\ LineOK(Line(handled', inHand', received'), n)
              /\ ~closed' => n = decoded'
              => LineIsWhole'
         /\ (~closed' => End(decoded') <= arrived' /\ \A k \in 1..decoded' : frames[k].kind # "garbage")
              => DecodedOK'
<1>1. ASSUME NEW n \in 0..NIn, LineOK(Line(handled', inHand', received'), n), ~closed' => n = decoded'
      PROVE  LineIsWhole'
  <2>1. LineOK(Line(handled, inHand, received), n)'
    BY <1>1 DEF LineOK, Good
  <2> QED BY <1>1, <2>1 DEF LineIsWhole
<1>2. ASSUME ~closed' => End(decoded') <= arrived' /\ \A k \in 1..decoded' : frames[k].kind # "garbage"
      PROVE  DecodedOK'
  <2>1. End(decoded)' = End(decoded')
    BY DEF End
  <2> QED BY <1>2, <2>1 DEF DecodedOK
<1> QED BY <1>1, <1>2

\* fail and close: the queue is dropped, the hand and the history are not.
LEMMA ShutKeepsIn ==
  ASSUME InInv, NEW e, Shut(e), arrived' \in Nat, UNCHANGED <<frames, decoded, inHand, handled>>
  PROVE  InInv'
<1>0. /\ InTypeOK /\ LoopOK /\ closed' = TRUE /\ received' = <<>>
      /\ loop' = IF loop = "waiting" THEN "ended" ELSE loop
      /\ handled \in Seq(1..NIn) /\ received \in Seq(1..NIn) /\ inHand \in 0..NIn
  BY DEF InInv, InTypeOK, Shut
<1>1. InTypeOK'
  <2>1. <<>> \in Seq(1..NIn)
    BY EmptySeq
  <2> QED BY <1>0, <2>1 DEF InTypeOK, Loops
<1>2. LoopOK'
  BY <1>0 DEF LoopOK
<1>3. PICK n \in 0..NIn : LineOK(Line(handled, inHand, received), n)
  BY DEF InInv, LineIsWhole
<1>4. PICK m \in 0..NIn : LineOK(Line(handled, inHand, <<>>), m)
  <2> DEFINE p == handled \o Hand(inHand)
  <2>1. p \in Seq(1..NIn)
    BY <1>0, HandTyped, ConcatProperties
  <2>2. LineOK(p \o received, n)
    BY <1>3 DEF Line
  <2> HIDE DEF p
  <2>3. \E m \in 0..NIn : LineOK(p, m)
    BY <1>0, <2>1, <2>2, LinePrefix
  <2>4. Line(handled, inHand, <<>>) = p
    BY <1>0, ShortLines DEF p
  <2> QED BY <2>3, <2>4
<1>5. LineOK(Line(handled', inHand', received'), m)
  BY <1>0, <1>4
<1>6. LineIsWhole' /\ DecodedOK'
  BY <1>0, <1>5, LineNext
<1> QED BY <1>1, <1>2, <1>6 DEF InInv

LEMMA OnDataKeepsIn ==
  ASSUME InInv, NEW k \in Nat, OnData(k)
  PROVE  InInv'
<1>0. /\ InTypeOK /\ LoopOK /\ DecodedOK /\ ~closed /\ arrived + k \in Nat /\ arrived' = arrived + k
      /\ frames \in [1..NIn -> Frames] /\ handled \in Seq(1..NIn) /\ received \in Seq(1..NIn)
      /\ inHand \in 0..NIn /\ decoded \in 0..NIn /\ arrived \in Nat /\ loop \in Loops
      /\ UNCHANGED <<frames, handled>>
  BY DEF InInv, InTypeOK, OnData, Event
<1>1. CASE Throws(arrived + k)
  <2>1. Shut(TRUE) /\ UNCHANGED <<decoded, inHand>>
    BY <1>1 DEF OnData
  <2> QED BY <1>0, <2>1, ShutKeepsIn
<1>2. CASE ~Throws(arrived + k)
  <2> DEFINE n == Decodable(arrived + k)
             after == Resolved(n)
  <2>1. /\ decoded' = n /\ loop' = after.loop /\ inHand' = after.inHand
        /\ received' = after.received /\ UNCHANGED closed
    BY <1>2 DEF OnData
  <2>2. n \in decoded..NIn /\ End(n) <= arrived + k /\ \A i \in 1..n : frames[i].kind # "garbage"
    <3>1. End(decoded) <= arrived /\ \A i \in 1..decoded : frames[i].kind # "garbage"
      BY <1>0 DEF DecodedOK
    <3>2. End(decoded) \in Nat
      BY <1>0, EndGrows
    <3>3. End(decoded) <= arrived + k
      BY <1>0, <3>1, <3>2
    <3> QED BY <1>0, <3>1, <3>3, DecodableProperties
  <2>3. StateOK(Now, decoded)
    <3>1. LineOK(Line(handled, inHand, received), decoded)
      BY <1>0 DEF InInv, LineIsWhole
    <3>2. Now \in [loop : Loops, inHand : 0..NIn, received : Seq(1..NIn)]
      BY <1>0 DEF Now
    <3>3. Now.loop = loop /\ Now.inHand = inHand /\ Now.received = received
      BY DEF Now
    <3> QED BY <1>0, <3>1, <3>2, <3>3 DEF StateOK, LoopOK
  <2> HIDE DEF n
  <2>4. StateOK(after, n)
    BY <1>0, <2>2, <2>3, ResolvedOK
  <2> HIDE DEF after
  <2>5. /\ loop' \in Loops /\ inHand' \in 0..NIn /\ received' \in Seq(1..NIn)
        /\ loop' = "given" <=> inHand' # 0
        /\ loop' = "waiting" => received' = <<>>
        /\ LineOK(Line(handled, inHand', received'), n)
    BY <2>1, <2>4 DEF StateOK
  <2>6. n \in 0..NIn
    BY <1>0, <2>2, TransportAssumption
  <2>7. InTypeOK'
    BY <1>0, <2>1, <2>5, <2>6 DEF InTypeOK
  <2>8. LoopOK'
    BY <1>0, <2>1, <2>5 DEF LoopOK
  <2>9. LineIsWhole'
    <3>1. LineOK(Line(handled', inHand', received'), n)
      BY <1>0, <2>5
    <3> QED BY <1>0, <2>1, <2>6, <3>1, LineNext
  <2>10. DecodedOK'
    BY <1>0, <2>1, <2>2, LineNext
  <2> QED BY <2>7, <2>8, <2>9, <2>10 DEF InInv
<1> QED BY <1>1, <1>2

LEMMA RecvKeepsIn ==
  ASSUME InInv, Recv
  PROVE  InInv'
<1>0. /\ InTypeOK /\ LoopOK /\ DecodedOK /\ loop = "ready" /\ inHand = 0
      /\ handled \in Seq(1..NIn) /\ received \in Seq(1..NIn) /\ inHand \in 0..NIn
      /\ UNCHANGED <<frames, arrived, decoded, handled, closed>>
  BY DEF InInv, InTypeOK, LoopOK, Recv
<1>1. PICK n \in 0..NIn : LineOK(Line(handled, inHand, received), n) /\ (~closed => n = decoded)
  BY DEF InInv, LineIsWhole
<1>2. DecodedOK'
  BY <1>0, LineNext DEF DecodedOK
<1>3. CASE /\ loop' \in {"ended", "waiting"} /\ UNCHANGED <<received, inHand>>
           /\ loop' = "waiting" => received = <<>>
  <2>1. InTypeOK'
    BY <1>0, <1>3 DEF InTypeOK, Loops
  <2>2. LoopOK'
    BY <1>0, <1>3 DEF LoopOK
  <2>3. LineIsWhole'
    <3>1. LineOK(Line(handled', inHand', received'), n) /\ (~closed' => n = decoded')
      BY <1>0, <1>1, <1>3
    <3> QED BY <1>0, <3>1, LineNext
  <2> QED BY <1>2, <2>1, <2>2, <2>3 DEF InInv
<1>4. CASE /\ ~closed /\ received # <<>>
           /\ loop' = "given" /\ inHand' = Head(received) /\ received' = Tail(received)
  <2> DEFINE f == Head(received)
             r == Tail(received)
  <2>1. f \in 1..NIn /\ r \in Seq(1..NIn) /\ received = <<f>> \o r
    <3>1. f \in 1..NIn /\ r \in Seq(1..NIn)
      BY <1>0, <1>4, HeadTailProperties
    <3>2. received = <<f>> \o r
      BY <1>0, <1>4
    <3> QED BY <3>1, <3>2
  <2>2. inHand' = f /\ received' = r /\ f # 0 /\ f \in 0..NIn
    BY <1>4, <2>1, TransportAssumption
  <2> HIDE DEF f, r
  <2>3. Line(handled, f, r) = Line(handled, inHand, received)
    <3>1. Hand(f) = <<f>> /\ Hand(inHand) = <<>>
      BY <1>0, <2>2 DEF Hand
    <3> DEFINE S == 1..NIn
    <3>2. handled \in Seq(S) /\ <<f>> \in Seq(S) /\ r \in Seq(S)
      BY <1>0, <2>1
    <3> HIDE DEF S
    <3>3. (handled \o <<f>>) \o r = handled \o (<<f>> \o r)
      BY ONLY <3>2, ConcatAssociative
    <3>4. handled \o <<>> = handled
      BY <3>2, ConcatEmptySeq
    <3> QED BY <2>1, <3>1, <3>3, <3>4 DEF Line
  <2>4. InTypeOK'
    BY <1>0, <1>4, <2>1, <2>2 DEF InTypeOK, Loops
  <2>5. LoopOK'
    BY <1>0, <1>4, <2>2 DEF LoopOK
  <2>6. LineIsWhole'
    <3>1. LineOK(Line(handled', inHand', received'), n) /\ (~closed' => n = decoded')
      BY <1>0, <1>1, <2>2, <2>3
    <3> QED BY <1>0, <3>1, LineNext
  <2> QED BY <1>2, <2>4, <2>5, <2>6 DEF InInv
<1>5. \/ closed /\ loop' = "ended" /\ UNCHANGED <<received, inHand>>
      \/ ~closed /\ received # <<>> /\ loop' = "given" /\ inHand' = Head(received)
           /\ received' = Tail(received)
      \/ ~closed /\ received = <<>> /\ loop' = "waiting" /\ UNCHANGED <<received, inHand>>
  BY DEF Recv
<1> QED BY <1>3, <1>4, <1>5

LEMMA HandleKeepsIn ==
  ASSUME InInv, Handle
  PROVE  InInv'
<1>0. /\ InTypeOK /\ LoopOK /\ DecodedOK /\ loop = "given" /\ inHand \in 1..NIn
      /\ handled \in Seq(1..NIn) /\ received \in Seq(1..NIn)
      /\ loop' = "handling" /\ handled' = Append(handled, inHand) /\ inHand' = 0
      /\ UNCHANGED <<frames, arrived, decoded, received, closed>>
  BY TransportAssumption DEF InInv, InTypeOK, LoopOK, Handle
<1>1. PICK n \in 0..NIn : LineOK(Line(handled, inHand, received), n) /\ (~closed => n = decoded)
  BY DEF InInv, LineIsWhole
<1>2. handled' \in Seq(1..NIn) /\ handled' = handled \o Hand(inHand)
  <2>1. Hand(inHand) = <<inHand>>
    BY <1>0 DEF Hand
  <2> QED BY <1>0, <2>1, AppendProperties, AppendIsConcat
<1>3. Line(handled', inHand', received') = Line(handled, inHand, received)
  <2>1. Hand(inHand') = <<>>
    BY <1>0 DEF Hand
  <2>2. handled' \o <<>> = handled'
    BY <1>2, ConcatEmptySeq
  <2> QED BY <1>0, <1>2, <2>1, <2>2 DEF Line
<1>4. InTypeOK'
  BY <1>0, <1>2, TransportAssumption DEF InTypeOK, Loops
<1>5. LoopOK'
  BY <1>0 DEF LoopOK
<1>6. LineIsWhole'
  <2>1. LineOK(Line(handled', inHand', received'), n) /\ (~closed' => n = decoded')
    BY <1>0, <1>1, <1>3
  <2> QED BY <1>0, <2>1, LineNext
<1>7. DecodedOK'
  BY <1>0, LineNext DEF DecodedOK
<1> QED BY <1>4, <1>5, <1>6, <1>7 DEF InInv

\* Steps that leave the inbound side alone, but for the loop going on.
LEMMA OtherKeepsIn ==
  ASSUME InInv, loop' = loop \/ (loop = "handling" /\ loop' \in {"ready", "ended"}),
         UNCHANGED <<frames, arrived, decoded, received, inHand, handled, closed>>
  PROVE  InInv'
<1>1. InTypeOK /\ LoopOK /\ DecodedOK
  BY DEF InInv
<1>2. PICK n \in 0..NIn : LineOK(Line(handled, inHand, received), n) /\ (~closed => n = decoded)
  BY DEF InInv, LineIsWhole
<1>3. InTypeOK'
  BY <1>1 DEF InTypeOK, Loops
<1>4. LoopOK'
  BY <1>1 DEF LoopOK
<1>5. LineIsWhole'
  <2>1. LineOK(Line(handled', inHand', received'), n) /\ (~closed' => n = decoded')
    BY <1>2
  <2> QED BY <1>2, <2>1, LineNext
<1>6. DecodedOK'
  BY <1>1, LineNext DEF DecodedOK
<1> QED BY <1>3, <1>4, <1>5, <1>6 DEF InInv

LEMMA InInvHolds ==
  /\ Init => InInv
  /\ InInv /\ [Next]_vars => InInv'
<1>1. ASSUME Init PROVE InInv
  <2>0. /\ frames \in [1..NIn -> Frames] /\ arrived = 0 /\ decoded = 0 /\ received = <<>>
        /\ loop = "ready" /\ inHand = 0 /\ handled = <<>> /\ closed = FALSE /\ NIn \in Nat
    BY <1>1, TransportAssumption DEF Init
  <2>1. <<>> \in Seq(1..NIn)
    BY EmptySeq
  <2>2. InTypeOK
    <3>1. arrived \in Nat /\ decoded \in 0..NIn /\ inHand \in 0..NIn /\ loop \in Loops
      BY <2>0 DEF Loops
    <3>2. closed \in BOOLEAN /\ received \in Seq(1..NIn) /\ handled \in Seq(1..NIn)
      BY <2>0, <2>1
    <3> QED BY <2>0, <3>1, <3>2 DEF InTypeOK
  <2>3. LoopOK
    BY <2>0 DEF LoopOK
  <2>4. DecodedOK
    BY <2>0, EndGrows DEF DecodedOK
  <2>5. LineOK(Line(handled, inHand, received), 0)
    <3>1. Line(handled, inHand, received) = <<>>
      BY <2>0, <2>1, ShortLines
    <3>2. LineOK(<<>>, 0)
      BY <2>1, RangeOfEmpty DEF LineOK, Increasing, Good
    <3> QED BY <3>1, <3>2
  <2>6. LineIsWhole
    BY <2>0, <2>5 DEF LineIsWhole
  <2> QED BY <2>2, <2>3, <2>4, <2>6 DEF InInv
<1>2. ASSUME InInv, [Next]_vars PROVE InInv'
  <2>0. arrived \in Nat
    BY <1>2 DEF InInv, InTypeOK
  <2>1. CASE Recv
    BY <1>2, <2>1, RecvKeepsIn
  <2>2. CASE Handle
    BY <1>2, <2>2, HandleKeepsIn
  <2>3. CASE HandlerReturns
    BY <1>2, <2>3, OtherKeepsIn DEF HandlerReturns
  <2>4. CASE StreamStep
    BY <1>2, <2>4, OtherKeepsIn DEF StreamStep, StreamSends, OnDrain, inVars
  <2>5. ASSUME NEW k \in 1..(MaxLen * NIn), OnData(k) PROVE InInv'
    <3>1. MaxLen * NIn \in Nat
      BY TransportAssumption
    <3>2. k \in Nat
      BY <3>1
    <3> QED BY <1>2, <2>5, <3>2, OnDataKeepsIn
  <2>6. ASSUME NEW len \in 1..MaxLen, SendMessage(len) PROVE InInv'
    <3>1. UNCHANGED <<frames, arrived, decoded, inHand, handled>>
      BY <2>6 DEF SendMessage
    <3>2. Shut(TRUE) \/ UNCHANGED <<closed, received, loop>>
      BY <2>6 DEF SendMessage
    <3>3. CASE Shut(TRUE)
      BY <1>2, <2>0, <3>1, <3>3, ShutKeepsIn
    <3>4. CASE UNCHANGED <<closed, received, loop>>
      BY <1>2, <3>1, <3>4, OtherKeepsIn
    <3> QED BY <3>2, <3>3, <3>4
  <2>7. CASE StreamFails
    BY <1>2, <2>0, <2>7, ShutKeepsIn DEF StreamFails
  <2>8. CASE Shutdown
    <3>1. UNCHANGED <<frames, arrived, decoded, inHand, handled>>
      BY <2>8 DEF Shutdown
    <3>2. Shut(FALSE) \/ UNCHANGED <<closed, received, loop>>
      BY <2>8 DEF Shutdown
    <3>3. CASE Shut(FALSE)
      BY <1>2, <2>0, <3>1, <3>3, ShutKeepsIn
    <3>4. CASE UNCHANGED <<closed, received, loop>>
      BY <1>2, <3>1, <3>4, OtherKeepsIn
    <3> QED BY <3>2, <3>3, <3>4
  <2>9. CASE UNCHANGED vars
    BY <1>2, <2>9, OtherKeepsIn DEF vars, inVars
  <2> QED BY <1>2, <2>1, <2>2, <2>3, <2>4, <2>5, <2>6, <2>7, <2>8, <2>9 DEF Next, LoopStep
<1> QED BY <1>1, <1>2

\* Messages are handled in the order the peer sent them, with none left out in
\* between except those that cannot be read, however the stream cuts them and
\* whenever it fails (CapnpFrameDecoder.push, DeferredTransport.resolve and
\* recvMessage, Conn.work).
THEOREM MessagesHandledInOrder == Spec => []HandledInOrder
<1>1. ASSUME InInv PROVE HandledInOrder
  <2>0. handled \in Seq(1..NIn) /\ received \in Seq(1..NIn) /\ inHand \in 0..NIn
    BY <1>1 DEF InInv, InTypeOK
  <2>1. PICK n \in 0..NIn : LineOK(Line(handled, inHand, received), n)
    BY <1>1 DEF InInv, LineIsWhole
  <2> DEFINE q == Hand(inHand) \o received
  <2>2. q \in Seq(1..NIn) /\ Line(handled, inHand, received) = handled \o q
    <3>1. Hand(inHand) \in Seq(1..NIn)
      BY <2>0, HandTyped
    <3>2. q \in Seq(1..NIn)
      BY <2>0, <3>1, ConcatProperties
    <3> DEFINE S == 1..NIn
               hand == Hand(inHand)
    <3>3. handled \in Seq(S) /\ hand \in Seq(S) /\ received \in Seq(S)
      BY <2>0, <3>1
    <3> HIDE DEF S, hand
    <3>4. (handled \o hand) \o received = handled \o (hand \o received)
      BY ONLY <3>3, ConcatAssociative
    <3> QED BY <3>2, <3>4 DEF Line, hand
  <2> HIDE DEF q
  <2>3. \E m \in 0..NIn : LineOK(handled, m)
    BY <2>0, <2>1, <2>2, LinePrefix
  <2> QED BY <2>3 DEF LineOK, HandledInOrder
<1> QED BY <1>1, InInvHolds, PTL DEF Spec
=============================================================================
