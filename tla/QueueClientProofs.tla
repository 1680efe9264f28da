--------------------------- MODULE QueueClientProofs ---------------------------
(***************************************************************************)
(* QueueClient implements OrderedClient, for every set of calls and every  *)
(* capacity of the ring.  The proof has three layers: what each operation  *)
(* of the ring buffer does to the sequence of queued calls (Snapshot), the *)
(* inductive invariant TypeOK /\ RingOK, and the step simulation.          *)
(***************************************************************************)
EXTENDS QueueClient, SequenceLemmas

-----------------------------------------------------------------------------
(* The ring buffer as a sequence.                                          *)

\* Queue.push and Queue.pop count modulo the capacity.
LEMMA CountingWraps ==
  ASSUME NEW x \in 0..(2 * Cap - 1)
  PROVE  /\ x < Cap => x % Cap = x
         /\ x >= Cap => x % Cap = x - Cap
<1>1. CASE x < Cap
  BY <1>1, CallQueueAssumption
<1>2. CASE x >= Cap
  <2>1. x - Cap \in 0..(Cap - 1)
    BY <1>2, CallQueueAssumption
  <2> QED BY <1>2, <2>1, CallQueueAssumption
<1> QED BY <1>1, <1>2, CallQueueAssumption

\* Position k from the slot after s is position k + 1 from s.
LEMMA NextIndex ==
  ASSUME NEW s \in 0..(Cap - 1), NEW k \in 1..Cap
  PROVE  (((s + 1) % Cap) + (k - 1)) % Cap = (s + k) % Cap
<1>1. CASE s + 1 < Cap
  <2>1. (s + 1) % Cap = s + 1
    BY <1>1, CallQueueAssumption
  <2> QED BY <2>1, CallQueueAssumption
<1>2. CASE s + 1 = Cap
  <2>1. (s + 1) % Cap = 0
    BY <1>2, CallQueueAssumption
  <2>2. (k - 1) % Cap = k - 1
    BY CallQueueAssumption
  <2>3. s + k - Cap = k - 1 /\ s + k >= Cap /\ s + k \in 0..(2 * Cap - 1)
    BY <1>2, CallQueueAssumption
  <2>4. (s + k) % Cap = s + k - Cap
    BY <2>3, CountingWraps, CallQueueAssumption
  <2>5. 0 + (k - 1) = k - 1
    BY CallQueueAssumption
  <2> QED BY <2>1, <2>2, <2>3, <2>4, <2>5
<1> QED BY <1>1, <1>2, CallQueueAssumption

\* The slot k places from the start, with the modulo of Queue spelled out.
LEMMA IndexWraps ==
  ASSUME start \in 0..(Cap - 1), NEW k \in 0..Cap
  PROVE  Index(k) = IF start + k < Cap THEN start + k ELSE start + k - Cap
<1>1. start + k \in 0..(2 * Cap - 1)
  BY CallQueueAssumption
<1>2. /\ start + k < Cap => (start + k) % Cap = start + k
      /\ start + k >= Cap => (start + k) % Cap = start + k - Cap
  BY <1>1, CountingWraps, CallQueueAssumption
<1> QED BY <1>2, CallQueueAssumption DEF Index

\* Different positions of the queue are different slots of the ring.
LEMMA IndexInjective ==
  ASSUME start \in 0..(Cap - 1), NEW j \in 0..(Cap - 1), NEW k \in 0..(Cap - 1)
  PROVE  /\ Index(j) \in 0..(Cap - 1)
         /\ Index(j) = Index(k) => j = k
BY IndexWraps, CallQueueAssumption

\* The queued calls are a sequence of n calls, the slot at start its first.
LEMMA SnapshotIsSeq ==
  ASSUME QueueTypeOK, Snapshot \in Seq(Calls)
  PROVE  /\ Len(Snapshot) = n
         /\ Snapshot = <<>> <=> n = 0
         /\ n > 0 => Head(Snapshot) = data[start]
<1>1. DOMAIN Snapshot = 1..n /\ n \in Nat
  BY DEF Snapshot, QueueTypeOK
<1>2. Len(Snapshot) = n
  BY <1>1, LenProperties
<1>3. ASSUME n > 0 PROVE Head(Snapshot) = data[start]
  <2>1. 1 \in 1..n /\ Snapshot[1] = data[Index(0)]
    BY <1>1, <1>3 DEF Snapshot
  <2>2. Index(0) = start
    BY IndexWraps, CallQueueAssumption DEF QueueTypeOK
  <2>3. Snapshot # <<>> /\ Head(Snapshot) = Snapshot[1]
    BY <1>2, <1>3, EmptySeq
  <2> QED BY <2>1, <2>2, <2>3
<1> QED BY <1>1, <1>2, <1>3, EmptySeq

\* CallQueue.push puts the call at the back of the sequence and moves no other.
LEMMA PushAppends ==
  ASSUME QueueTypeOK, Snapshot \in Seq(Calls), NEW c \in Calls, PushHeld(c)
  PROVE  Snapshot' = Append(Snapshot, c)
<1>1. n < Cap /\ n \in 0..(Cap - 1) /\ Len(Snapshot) = n /\ start' = start
  BY SnapshotIsSeq, CallQueueAssumption DEF PushHeld, QueueTypeOK
<1>2. DOMAIN Append(Snapshot, c) = 1..(n + 1) /\ DOMAIN Snapshot' = 1..(n + 1)
  BY <1>1, AppendProperties, LenProperties DEF Snapshot, PushHeld
<1>3. ASSUME NEW k \in 1..(n + 1)
      PROVE  Snapshot'[k] = Append(Snapshot, c)[k]
  <2>1. Snapshot'[k] = data'[Index(k - 1)]
    BY <1>1, <1>3 DEF Snapshot, PushHeld, Index
  <2>2. data' = [data EXCEPT ![Index(n)] = c] /\ Index(n) \in DOMAIN data
    BY <1>1, IndexInjective DEF PushHeld, QueueTypeOK
  <2>3. CASE k = n + 1
    BY <2>1, <2>2, <2>3, <1>1, AppendProperties
  <2>4. CASE k # n + 1
    <3>1. k \in 1..n /\ k - 1 \in 0..(Cap - 1) /\ k - 1 # n
      BY <1>1, <1>3, <2>4, CallQueueAssumption
    <3>2. Index(k - 1) # Index(n) /\ Index(k - 1) \in DOMAIN data
      BY <1>1, <3>1, IndexInjective DEF QueueTypeOK
    <3>3. Append(Snapshot, c)[k] = Snapshot[k] /\ Snapshot[k] = data[Index(k - 1)]
      BY <1>1, <3>1, AppendProperties DEF Snapshot
    <3> QED BY <2>1, <2>2, <3>2, <3>3
  <2> QED BY <2>3, <2>4
<1>4. Append(Snapshot, c) \in Seq(Calls)
  BY AppendProperties
<1>5. Append(Snapshot, c) = [k \in 1..(n + 1) |-> Append(Snapshot, c)[k]]
  BY <1>2, <1>4, LenProperties
<1>6. Snapshot' = [k \in 1..(n + 1) |-> Snapshot'[k]]
  BY <1>2 DEF Snapshot
<1> QED
  BY <1>3, <1>5, <1>6

\* Queue.pop takes the call at the front and moves no other.
LEMMA PopTakesTail ==
  ASSUME QueueTypeOK, Snapshot \in Seq(Calls), n > 0,
         data' = [data EXCEPT ![start] = NoCall],
         start' = Index(1), n' = n - 1
  PROVE  Snapshot' = Tail(Snapshot)
<1>1. n \in 1..Cap /\ Len(Snapshot) = n /\ Snapshot # <<>> /\ start \in 0..(Cap - 1)
  BY SnapshotIsSeq DEF QueueTypeOK
<1>2. Tail(Snapshot) = [k \in 1..(n - 1) |-> Snapshot[k + 1]]
  BY <1>1, HeadTailProperties, LenProperties
<1>3. ASSUME NEW k \in 1..(n - 1)
      PROVE  data'[(start' + (k - 1)) % Cap] = Snapshot[k + 1]
  <2>1. Snapshot[k + 1] = data[Index(k)]
    BY <1>1, <1>3 DEF Snapshot
  <2>2. k \in 1..(Cap - 1) /\ k - 1 \in 0..(Cap - 1) /\ 0 \in 0..(Cap - 1) /\ 1 \in 0..Cap
    BY <1>1, <1>3, CallQueueAssumption
  <2>3. start' \in 0..(Cap - 1)
    BY <1>1, <2>2, IndexInjective, IndexWraps, CallQueueAssumption
  <2>4. (start' + (k - 1)) % Cap = Index(k)
    <3>1. k \in 1..Cap
      BY <2>2, CallQueueAssumption
    <3>2. (((start + 1) % Cap) + (k - 1)) % Cap = (start + k) % Cap
      BY <1>1, <3>1, NextIndex
    <3> QED BY <3>2 DEF Index
  <2>5. Index(k) # start /\ Index(k) \in DOMAIN data
    BY <1>1, <2>2, IndexInjective, IndexWraps, CallQueueAssumption DEF QueueTypeOK
  <2> QED BY <2>1, <2>4, <2>5
<1> QED BY <1>2, <1>3 DEF Snapshot, Index

-----------------------------------------------------------------------------
(* The inductive invariant.                                                *)

Inv == TypeOK /\ RingOK

\* What the invariant says of the first slot, with a call in hand or without.
LEMMA FrontOfQueue ==
  ASSUME Inv
  PROVE  /\ Len(Snapshot) = n /\ n \in Nat
         /\ Snapshot = <<>> <=> n = 0
         /\ n > 0 => Head(Snapshot) = data[start] /\ data[start] \in Calls
         /\ StillWaiting \in Seq(Calls)
         /\ Range(StillWaiting) \subseteq Range(Snapshot)
         /\ n = 0 => StillWaiting = <<>>
         /\ start \in 0..(Cap - 1)
<1>1. /\ Len(Snapshot) = n /\ n \in Nat /\ start \in 0..(Cap - 1)
      /\ Snapshot = <<>> <=> n = 0
      /\ n > 0 => Head(Snapshot) = data[start]
      /\ Snapshot \in Seq(Calls)
  BY SnapshotIsSeq DEF Inv, TypeOK, RingOK, QueueTypeOK
<1>2. CASE n > 0
  <2>1. Snapshot # <<>> /\ n # 0
    BY <1>1, <1>2
  <2>2. /\ Head(Snapshot) \in Calls /\ Tail(Snapshot) \in Seq(Calls)
        /\ Range(Tail(Snapshot)) \subseteq Range(Snapshot)
    BY <1>1, <2>1, RangeOfTail
  <2> QED BY <1>1, <2>1, <2>2 DEF StillWaiting
<1>3. CASE n = 0
  BY <1>1, <1>3 DEF StillWaiting
<1> QED BY <1>1, <1>2, <1>3

\* A call not made yet is in none of the records.
LEMMA UnmadeIsNowhere ==
  ASSUME Inv, NEW c \in Calls, Unmade(c)
  PROVE  /\ c \notin Range(Snapshot)
         /\ c \notin Range(StillWaiting)
         /\ c \notin Range(delivered)
         /\ c \notin DroppedCalls
BY FrontOfQueue DEF Inv, RingOK, Unmade, DroppedCalls

\* A QueueClient built from the queue of an answer starts in the invariant, and
\* all it was handed over still waits.
LEMMA InitInv ==
  ASSUME Init
  PROVE  Inv /\ StillWaiting = Snapshot /\ DroppedCalls = {} /\ delivered = <<>>
<1>1. PICK s \in HandedOver : InitQueue(s)
  BY DEF Init
<1>2. PICK m \in 1..Cap : s \in [1..m -> Calls] /\ IsInjective(s)
  BY DEF HandedOver
<1>3. m \in Nat /\ m <= Cap /\ s \in Seq(Calls) /\ Len(s) = m /\ DOMAIN s = 1..m
  BY <1>2, CallQueueAssumption
<1>4. n = m /\ start = 0 /\ inHand = NoCall /\ delivered = <<>> /\ flushing = FALSE
  BY <1>1, <1>3 DEF InitQueue
<1>5. TypeOK
  <2>1. data \in [0..(Cap - 1) -> Calls \cup {NoCall}]
    <3>1. ASSUME NEW i \in 0..(Cap - 1), i < m PROVE s[i + 1] \in Calls
      BY <1>2, <1>3, <3>1, CallQueueAssumption
    <3> QED BY <1>1, <1>3, <3>1 DEF InitQueue
  <2>2. answer \in [Calls -> AnswerState]
    BY <1>1 DEF InitQueue, AnswerState
  <2>3. start \in 0..(Cap - 1) /\ n \in 0..Cap
    BY <1>3, <1>4, CallQueueAssumption
  <2>4. flushed = FALSE /\ closed = FALSE /\ delivered \in Seq(Calls)
    BY <1>4, EmptySeq DEF Init
  <2> QED BY <1>4, <2>1, <2>2, <2>3, <2>4 DEF TypeOK, QueueTypeOK
<1>6. Snapshot = s
  <2>1. ASSUME NEW k \in 1..m PROVE data[Index(k - 1)] = s[k]
    <3>1. k - 1 \in 0..(Cap - 1) /\ k - 1 < m /\ (k - 1) + 1 = k
      BY <1>3, CallQueueAssumption
    <3>2. Index(k - 1) = k - 1
      BY <1>4, <3>1, CallQueueAssumption DEF Index
    <3> QED BY <1>1, <1>3, <3>1, <3>2 DEF InitQueue
  <2> QED BY <1>2, <1>3, <1>4, <2>1 DEF Snapshot
<1>7. Range(delivered) = {}
  BY <1>4, RangeOfEmpty
<1>8. \A c \in Calls : answer[c] = IF c \in Range(s) THEN "held" ELSE "unmade"
  BY <1>1 DEF InitQueue
<1>9. Range(s) \subseteq Calls
  BY <1>3, RangeIsElements
<1>10. RingOK
  BY <1>2, <1>3, <1>4, <1>6, <1>7, <1>8, <1>9 DEF RingOK, Init
<1>11. DroppedCalls = {}
  BY <1>8 DEF DroppedCalls
<1> QED BY <1>4, <1>5, <1>10, <1>11 DEF Inv, StillWaiting

\* A call that joins a queue which is not empty is held back (Queue.push).
LEMMA HoldStep ==
  ASSUME Inv, NEW c \in Calls, ~closed, Unmade(c), n # 0, PushHeld(c),
         UNCHANGED <<flushed, closed>>
  PROVE  /\ Inv'
         /\ StillWaiting' = Append(StillWaiting, c)
         /\ DroppedCalls' = DroppedCalls
         /\ delivered' = delivered
<1>1. Snapshot' = Append(Snapshot, c) /\ Snapshot \in Seq(Calls) /\ Snapshot # <<>>
  BY PushAppends, FrontOfQueue DEF Inv, TypeOK, RingOK
<1>2. /\ n \in 1..(Cap - 1) /\ n' = n + 1 /\ n > 0 /\ n' > 0
      /\ start \in 0..(Cap - 1) /\ start' = start
      /\ UNCHANGED <<flushing, inHand, delivered>>
  BY CallQueueAssumption DEF PushHeld, Inv, TypeOK, QueueTypeOK
<1>3. Index(n) \in 0..(Cap - 1) /\ Index(n) # start
  <2>1. 0 \in 0..(Cap - 1) /\ n \in 0..(Cap - 1) /\ n # 0 /\ 0 \in 0..Cap
    BY <1>2, CallQueueAssumption
  <2>2. Index(0) = start
    BY <1>2, <2>1, IndexWraps, CallQueueAssumption
  <2> QED BY <1>2, <2>1, <2>2, IndexInjective
<1>4. data' \in [0..(Cap - 1) -> Calls \cup {NoCall}] /\ data'[start] = data[start]
  BY <1>2, <1>3 DEF PushHeld, Inv, TypeOK, QueueTypeOK
<1>5. /\ answer' \in [Calls -> AnswerState] /\ answer'[c] = "held"
      /\ \A d \in Calls \ {c} : answer'[d] = answer[d]
  BY DEF PushHeld, Inv, TypeOK, QueueTypeOK, AnswerState
<1>6. TypeOK'
  <2>1. n' \in 0..Cap
    BY <1>2, CallQueueAssumption
  <2> QED BY <1>2, <1>4, <1>5, <2>1 DEF Inv, TypeOK, QueueTypeOK
<1>7. /\ c \notin Range(Snapshot) /\ c \notin Range(StillWaiting)
      /\ c \notin Range(delivered) /\ c \notin DroppedCalls
  BY UnmadeIsNowhere
<1>8. StillWaiting' = Append(StillWaiting, c)
  <2>1. CASE inHand # NoCall
    BY <1>1, <1>2, <2>1, HeadTailAppend DEF StillWaiting
  <2>2. CASE inHand = NoCall
    BY <1>1, <1>2, <2>2 DEF StillWaiting
  <2> QED BY <2>1, <2>2
<1>9. /\ Range(Snapshot') = Range(Snapshot) \cup {c}
      /\ IsInjective(Snapshot') /\ Snapshot' \in Seq(Calls)
      /\ Range(StillWaiting') = Range(StillWaiting) \cup {c}
  BY <1>1, <1>7, <1>8, FrontOfQueue, RangeOfAppend DEF Inv, RingOK
<1>10. RingOK'
  <2>1. Range(Snapshot) \subseteq Calls /\ Range(delivered) \subseteq Calls
    BY <1>1, RangeIsElements DEF Inv, TypeOK, QueueTypeOK
  <2> QED BY <1>2, <1>4, <1>5, <1>7, <1>9, <2>1 DEF Inv, RingOK
<1>11. DroppedCalls' = DroppedCalls
  BY <1>2, <1>5, <1>7 DEF DroppedCalls, Unmade
<1> QED BY <1>2, <1>6, <1>8, <1>10, <1>11 DEF Inv

\* A call that finds the queue empty is forwarded past nobody.
LEMMA PassThroughStep ==
  ASSUME Inv, NEW c \in Calls, ~closed, Unmade(c), n = 0, Forward(c),
         UNCHANGED <<flushed, closed>>
  PROVE  /\ Inv'
         /\ StillWaiting = <<>> /\ StillWaiting' = <<>>
         /\ DroppedCalls' = DroppedCalls
         /\ delivered' = Append(delivered, c)
<1>1. Snapshot = <<>> /\ StillWaiting = <<>>
  BY FrontOfQueue
<1>2. UNCHANGED <<start, n, data, flushing, inHand>>
  BY DEF Forward
<1>3. Snapshot' = Snapshot /\ StillWaiting' = StillWaiting
  BY <1>2 DEF Snapshot, Index, StillWaiting
<1>4. /\ answer' \in [Calls -> AnswerState] /\ answer'[c] = "bound"
      /\ \A d \in Calls \ {c} : answer'[d] = answer[d]
  BY DEF Forward, Inv, TypeOK, QueueTypeOK, AnswerState
<1>5. /\ delivered' \in Seq(Calls)
      /\ Range(delivered') = Range(delivered) \cup {c}
      /\ Range(delivered) \subseteq Calls
  BY RangeOfAppend, RangeIsElements DEF Forward, Inv, TypeOK, QueueTypeOK
<1>6. TypeOK'
  BY <1>2, <1>4, <1>5 DEF Inv, TypeOK, QueueTypeOK
<1>7. inHand = NoCall
  BY DEF Inv, RingOK
<1>8. RingOK'
  BY <1>1, <1>2, <1>3, <1>4, <1>5, <1>7, RangeOfEmpty DEF Inv, RingOK
<1>9. DroppedCalls' = DroppedCalls
  BY <1>4, <1>5 DEF DroppedCalls, Unmade
<1> QED BY <1>1, <1>3, <1>6, <1>8, <1>9 DEF Forward, Inv

\* A call that finds the queue full gets an ErrorAnswer.
LEMMA RefuseStep ==
  ASSUME Inv, NEW c \in Calls, Unmade(c), Refused(c), UNCHANGED <<flushed, closed>>
  PROVE  /\ Inv'
         /\ StillWaiting' = StillWaiting
         /\ DroppedCalls' = DroppedCalls \cup {c}
         /\ delivered' = delivered
<1>1. UNCHANGED <<start, n, data, flushing, inHand, delivered>>
  BY DEF Refused
<1>2. Snapshot' = Snapshot /\ StillWaiting' = StillWaiting
  BY <1>1 DEF Snapshot, Index, StillWaiting
<1>3. /\ answer' \in [Calls -> AnswerState] /\ answer'[c] = "refused"
      /\ \A d \in Calls \ {c} : answer'[d] = answer[d]
  BY DEF Refused, Inv, TypeOK, QueueTypeOK, AnswerState
<1>4. TypeOK'
  BY <1>1, <1>3 DEF Inv, TypeOK, QueueTypeOK
<1>5. c \notin Range(Snapshot) /\ c \notin Range(delivered)
  BY UnmadeIsNowhere
<1>6. Range(Snapshot) \subseteq Calls /\ Range(delivered) \subseteq Calls
  BY RangeIsElements DEF Inv, TypeOK, QueueTypeOK, RingOK
<1>7. RingOK'
  BY <1>1, <1>2, <1>3, <1>5, <1>6 DEF Inv, RingOK
<1>8. DroppedCalls' = DroppedCalls \cup {c}
  BY <1>1, <1>3, <1>5 DEF DroppedCalls
<1> QED BY <1>1, <1>2, <1>4, <1>7, <1>8 DEF Inv

\* close() cancels what still waits; the slot in hand counts as delivered.
LEMMA CloseStep ==
  ASSUME Inv, close
  PROVE  /\ Inv'
         /\ StillWaiting' = <<>>
         /\ DroppedCalls' = DroppedCalls \cup Range(StillWaiting)
         /\ delivered' = delivered
<1>1. /\ n' = 0 /\ start' = Index(n) /\ closed' = TRUE
      /\ UNCHANGED <<flushing, inHand, delivered, flushed>>
  BY DEF close, RejectAll
<1>2. Snapshot' = <<>> /\ StillWaiting' = <<>>
  BY <1>1 DEF Snapshot, StillWaiting
<1>3. /\ answer' \in [Calls -> AnswerState]
      /\ \A c \in Calls : answer'[c] =
           IF c \in Range(Snapshot) THEN "rejected" ELSE answer[c]
  BY DEF close, RejectAll, Inv, TypeOK, QueueTypeOK, AnswerState
<1>4. /\ start' \in 0..(Cap - 1)
      /\ data' \in [0..(Cap - 1) -> Calls \cup {NoCall}]
  <2>1. start \in 0..(Cap - 1) /\ n \in 0..Cap
    BY DEF Inv, TypeOK, QueueTypeOK
  <2> QED BY <1>1, <2>1, IndexWraps, CallQueueAssumption DEF close, RejectAll
<1>5. TypeOK'
  <2>1. n' \in 0..Cap
    BY <1>1, CallQueueAssumption
  <2> QED BY <1>1, <1>3, <1>4, <2>1 DEF Inv, TypeOK, QueueTypeOK
<1>6. Range(Snapshot) \subseteq Calls /\ Range(delivered) \subseteq Calls
  BY RangeIsElements DEF Inv, TypeOK, QueueTypeOK, RingOK
<1>7. RingOK'
  BY <1>1, <1>2, <1>3, <1>6, RangeOfEmpty, EmptySeq DEF Inv, RingOK
<1>8. Range(StillWaiting) = Range(Snapshot) \ Range(delivered)
  <2>1. CASE StillWaiting = Snapshot
    BY <2>1 DEF Inv, RingOK
  <2>2. CASE inHand # NoCall /\ n > 0
    <3>1. StillWaiting = Tail(Snapshot) /\ Snapshot # <<>>
      BY <2>2, FrontOfQueue DEF StillWaiting
    <3>2. Head(Snapshot) \in Range(delivered)
      BY <2>2, FrontOfQueue DEF Inv, RingOK
    <3>3. Range(Snapshot) = Range(StillWaiting) \cup {Head(Snapshot)}
      BY <3>1, RangeOfTail DEF Inv, RingOK
    <3> QED BY <3>2, <3>3 DEF Inv, RingOK
  <2> QED BY <2>1, <2>2 DEF StillWaiting
<1>9. DroppedCalls' = DroppedCalls \cup Range(StillWaiting)
  BY <1>1, <1>3, <1>6, <1>8 DEF DroppedCalls
<1> QED BY <1>1, <1>2, <1>5, <1>7, <1>9 DEF Inv

\* The flush loop hands over the call at the front.
LEMMA HandOverStep ==
  ASSUME Inv, HandOver, UNCHANGED <<flushed, closed>>
  PROVE  /\ Inv'
         /\ StillWaiting # <<>>
         /\ StillWaiting' = Tail(StillWaiting)
         /\ DroppedCalls' = DroppedCalls
         /\ delivered' = Append(delivered, Head(StillWaiting))
<1>1. /\ flushing /\ inHand = NoCall /\ n > 0 /\ inHand' = data[start]
      /\ delivered' = Append(delivered, data[start])
      /\ UNCHANGED <<start, n, data, flushing, answer>>
  BY DEF HandOver
<1>2. /\ Snapshot \in Seq(Calls) /\ Snapshot # <<>> /\ IsInjective(Snapshot)
      /\ Head(Snapshot) = data[start] /\ data[start] \in Calls
  BY <1>1, FrontOfQueue DEF Inv, RingOK
<1>3. inHand' # NoCall /\ Snapshot' = Snapshot
  BY <1>1, <1>2, CallQueueAssumption DEF Snapshot, Index
<1>4. StillWaiting = Snapshot /\ StillWaiting' = Tail(Snapshot)
  BY <1>1, <1>3 DEF StillWaiting
<1>5. /\ Range(Snapshot) = Range(Tail(Snapshot)) \cup {data[start]}
      /\ data[start] \notin Range(Tail(Snapshot))
  BY <1>2, RangeOfTail
<1>6. /\ delivered' \in Seq(Calls)
      /\ Range(delivered') = Range(delivered) \cup {data[start]}
  BY <1>1, <1>2, RangeOfAppend DEF Inv, TypeOK, QueueTypeOK
<1>7. TypeOK'
  BY <1>1, <1>2, <1>6 DEF Inv, TypeOK, QueueTypeOK
<1>8. answer[data[start]] = "held"
  BY <1>5 DEF Inv, RingOK
<1>9. RingOK'
  BY <1>1, <1>2, <1>3, <1>4, <1>5, <1>6, <1>8 DEF Inv, RingOK
<1>10. DroppedCalls' = DroppedCalls
  BY <1>1, <1>6, <1>8 DEF DroppedCalls
<1> QED BY <1>1, <1>2, <1>4, <1>7, <1>9, <1>10 DEF Inv

\* The pop after target.call() returns takes the slot in hand, or nothing when
\* close() has emptied the ring under the loop.
LEMMA CallReturnsStep ==
  ASSUME Inv, CallReturns, UNCHANGED <<flushed, closed>>
  PROVE  /\ Inv'
         /\ StillWaiting' = StillWaiting
         /\ DroppedCalls' = DroppedCalls
         /\ delivered' = delivered
<1>1. /\ inHand # NoCall /\ inHand' = NoCall
      /\ UNCHANGED <<flushing, delivered>>
  BY DEF CallReturns
<1>2. inHand \in Calls /\ inHand \in Range(delivered)
  BY <1>1 DEF Inv, TypeOK, QueueTypeOK, RingOK
<1>3. /\ answer' \in [Calls -> AnswerState]
      /\ answer'[inHand] = IF answer[inHand] = "held" THEN "bound" ELSE answer[inHand]
      /\ \A d \in Calls \ {inHand} : answer'[d] = answer[d]
  BY <1>2 DEF CallReturns, Inv, TypeOK, QueueTypeOK, AnswerState
<1>4. Range(delivered) \subseteq Calls
  BY RangeIsElements DEF Inv, TypeOK, QueueTypeOK
<1>5. DroppedCalls' = DroppedCalls
  BY <1>1, <1>2, <1>3 DEF DroppedCalls
<1>6. CASE n = 0
  <2>1. UNCHANGED <<start, n, data>>
    BY <1>6 DEF CallReturns
  <2>2. Snapshot' = Snapshot /\ Snapshot = <<>> /\ StillWaiting = <<>>
    BY <1>6, <2>1, FrontOfQueue DEF Snapshot, Index
  <2>3. StillWaiting' = <<>>
    BY <2>1, <1>6, <1>1, <2>2 DEF StillWaiting
  <2>4. TypeOK'
    BY <1>1, <1>3, <2>1 DEF Inv, TypeOK, QueueTypeOK
  <2>5. RingOK'
    BY <1>1, <1>3, <1>4, <2>1, <2>2, <2>3, RangeOfEmpty DEF Inv, RingOK
  <2> QED BY <1>1, <1>5, <2>2, <2>3, <2>4, <2>5 DEF Inv
<1>7. CASE n > 0
  <2>1. /\ data' = [data EXCEPT ![start] = NoCall]
        /\ start' = Index(1) /\ n' = n - 1
    BY <1>7 DEF CallReturns, Inv, TypeOK, QueueTypeOK
  <2>2. Snapshot' = Tail(Snapshot) /\ StillWaiting = Tail(Snapshot)
    BY <1>1, <1>7, <2>1, PopTakesTail DEF StillWaiting, Inv, TypeOK, RingOK
  <2>3. StillWaiting' = Snapshot'
    BY <1>1 DEF StillWaiting
  <2>4. /\ Snapshot' \in Seq(Calls) /\ IsInjective(Snapshot')
        /\ inHand \notin Range(Snapshot')
        /\ Range(Snapshot') \subseteq Range(Snapshot)
    <3>1. Snapshot # <<>> /\ Head(Snapshot) = inHand /\ Snapshot \in Seq(Calls)
      BY <1>1, <1>7, FrontOfQueue DEF Inv, RingOK
    <3> QED BY <2>2, <3>1, RangeOfTail DEF Inv, RingOK
  <2>5. TypeOK'
    <3>1. start \in 0..(Cap - 1) /\ n \in 1..Cap /\ 1 \in 0..Cap
      BY <1>7, CallQueueAssumption DEF Inv, TypeOK, QueueTypeOK
    <3>2. start' \in 0..(Cap - 1) /\ n' \in 0..Cap
      BY <2>1, <3>1, IndexWraps, CallQueueAssumption
    <3> QED BY <1>1, <1>3, <2>1, <3>2 DEF Inv, TypeOK, QueueTypeOK
  <2>6. Range(Snapshot) \subseteq Calls
    BY RangeIsElements DEF Inv, RingOK
  <2>7. closed' => n' = 0
    BY <1>7 DEF Inv, RingOK
  <2>8. RingOK'
    BY <1>1, <1>2, <1>3, <1>4, <2>2, <2>3, <2>4, <2>6, <2>7 DEF Inv, RingOK
  <2> QED BY <1>1, <1>5, <2>2, <2>3, <2>5, <2>8 DEF Inv
<1> QED BY <1>6, <1>7 DEF Inv, TypeOK, QueueTypeOK

\* The beginning and the end of a flush change nothing a caller can see.
LEMMA QuietStep ==
  ASSUME Inv, flushQueue \/ (FlushEnds /\ UNCHANGED <<flushed, closed>>) \/ UNCHANGED vars
  PROVE  Inv' /\ UNCHANGED <<StillWaiting, DroppedCalls, delivered>>
<1>1. /\ UNCHANGED <<start, n, data, inHand, delivered, answer, closed>>
      /\ flushing' \in BOOLEAN /\ flushed' \in BOOLEAN
      /\ inHand # NoCall => flushing'
  BY DEF flushQueue, FlushEnds, vars, Inv, TypeOK, QueueTypeOK, RingOK
<1>2. UNCHANGED <<Snapshot, StillWaiting, DroppedCalls>>
  BY <1>1 DEF Snapshot, Index, StillWaiting, DroppedCalls
<1>3. TypeOK'
  BY <1>1 DEF Inv, TypeOK, QueueTypeOK
<1>4. RingOK'
  BY <1>1, <1>2 DEF Inv, RingOK
<1> QED BY <1>1, <1>2, <1>3, <1>4 DEF Inv

-----------------------------------------------------------------------------
(* The theorems.                                                           *)

\* Every step of a QueueClient preserves the invariant and is a step of the
\* ordered client or leaves its view unchanged.
LEMMA StepSimulates ==
  ASSUME Inv, [Next]_vars
  PROVE  Inv' /\ [Ordered!Next]_<<StillWaiting, delivered, DroppedCalls>>
<1> USE DEF Ordered!Next, Ordered!Hold, Ordered!PassThrough, Ordered!Refuse,
            Ordered!Deliver, Ordered!CancelWaiting, Ordered!Fresh
<1>1. ASSUME NEW c \in Calls, Call(c)
      PROVE  Inv' /\ Ordered!Next
  <2>1. Unmade(c) /\ ~closed /\ UNCHANGED <<flushed, closed>>
    BY <1>1 DEF Call
  <2>2. Ordered!Fresh(c)
    BY <2>1, UnmadeIsNowhere DEF Ordered!Range, Range
  <2>3. CASE n = 0 /\ Forward(c)
    BY <2>1, <2>2, <2>3, PassThroughStep
  <2>4. CASE n # 0 /\ PushHeld(c)
    BY <2>1, <2>2, <2>4, HoldStep
  <2>5. CASE Refused(c)
    BY <2>1, <2>2, <2>5, RefuseStep
  <2> QED BY <1>1, <2>3, <2>4, <2>5 DEF Call, isPassthrough, Push
<1>2. CASE close
  BY <1>2, CloseStep DEF Ordered!Range, Range
<1>3. CASE HandOver /\ UNCHANGED <<flushed, closed>>
  BY <1>3, HandOverStep
<1>4. CASE CallReturns /\ UNCHANGED <<flushed, closed>>
  BY <1>4, CallReturnsStep
<1>5. CASE flushQueue \/ (FlushEnds /\ UNCHANGED <<flushed, closed>>) \/ UNCHANGED vars
  BY <1>5, QuietStep
<1> QED BY <1>1, <1>2, <1>3, <1>4, <1>5 DEF Next, FlushStep

\* The ring buffer stays well formed and agrees with what callers hold and what
\* was delivered (QueueClient over CallQueue and Queue).
THEOREM TypeAndRing == Spec => [](TypeOK /\ RingOK)
<1>1. Init => Inv
  BY InitInv
<1>2. Inv /\ [Next]_vars => Inv'
  BY StepSimulates
<1> QED BY <1>1, <1>2, PTL DEF Spec, Inv

\* The positions and the count of the ring stay within its capacity, and each
\* slot holds a call or none (enqueueCall, shiftQueue, flushQueue).
THEOREM RingStaysInBounds == Spec => []TypeOK
<1>1. TypeOK /\ RingOK => TypeOK
  OBVIOUS
<1> QED BY <1>1, TypeAndRing, PTL

\* A QueueClient delivers calls in the order they were made, each at most once
\* and none it has refused or cancelled, whatever its target does during the
\* flush, for every queue capacity.
THEOREM QueueClientIsOrdered == Spec => OrderedDelivery
<1>1. Init => Inv /\ Ordered!Init
  <2> SUFFICES ASSUME Init PROVE Inv /\ Ordered!Init
    OBVIOUS
  <2>1. Inv /\ StillWaiting = Snapshot /\ DroppedCalls = {} /\ delivered = <<>>
    BY InitInv
  <2> QED BY <2>1 DEF Inv, RingOK, Ordered!Init, Ordered!IsInjective, IsInjective
<1>2. Inv /\ [Next]_vars => Inv' /\ [Ordered!Next]_<<StillWaiting, delivered, DroppedCalls>>
  BY StepSimulates
<1> QED BY <1>1, <1>2, PTL DEF Spec, OrderedDelivery, Ordered!Spec, Ordered!vars
=============================================================================
