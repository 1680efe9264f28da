---------------------------- MODULE MessageProofs ----------------------------
(***************************************************************************)
(* What the memory of a message and its encoding guarantee: allocation and *)
(* the writing of pointers, for every memory and every size of segments;   *)
(* packing and framing, for every sequence of words and of segments;       *)
(* accessors, for every class whose layout is well nested and well spaced. *)
(***************************************************************************)
EXTENDS Segments, WireFormat, SequenceLemmas, FiniteSetTheorems

Words ==
  [t : {"struct"}, off : Int, d : Nat, p : Nat]
    \cup [t : {"list"}, off : Int, e : STRING, len : Nat]
    \cup [t : {"far"}, double : BOOLEAN, off : Nat, id : Nat]
    \cup [t : {"other"}, off : Int, id : Nat]
    \cup [t : {"data"}, v : Nat]
Segment == {seg \in [words : Seq(Words), cap : Nat] : Len(seg.words) <= seg.cap}

\* No segment holds more than its capacity; a single-segment arena has one segment.
Memory(Caps) ==
  {m \in [single : BOOLEAN, caps : Seq(Caps), segs : Seq(Segment)] :
     m.single => Len(m.segs) = 1}
Address == [s : Nat, w : Nat]

\* Every word of m but those at `except` is in n, as it was.
KeptBut(m, n, except) ==
  \A a \in Address : Allocated(m, a) =>
    Allocated(n, a) /\ (a \notin except => Word(n, a) = Word(m, a))

-----------------------------------------------------------------------------
(* Single words.                                                             *)

LEMMA AddressOf ==
  ASSUME NEW id \in Nat, NEW w \in Nat
  PROVE  Addr(id, w) \in Address /\ Addr(id, w).s = id /\ Addr(id, w).w = w
BY DEF Addr, Address

LEMMA WordsMade ==
  /\ Zero \in Words
  /\ \A double \in BOOLEAN, off \in Nat, id \in Nat : FarWord(double, off, id) \in Words
BY DEF Zero, StructWord, FarWord, Words

\* A word that is put somewhere is found there, and no other word changes.
LEMMA PutWord ==
  ASSUME NEW Caps, NEW m \in Memory(Caps), NEW a \in Address, Allocated(m, a),
         NEW word \in Words
  PROVE  LET n == Put(m, a, word)
         IN /\ n \in Memory(Caps)
            /\ Word(n, a) = word
            /\ KeptBut(m, n, {a})
            /\ DOMAIN n.segs = DOMAIN m.segs
<1> DEFINE k == a.s + 1
           old == m.segs[k]
           new == [old EXCEPT !.words[a.w + 1] = word]
           n == Put(m, a, word)
<1> USE DEF Address
<1> HIDE DEF n
<1>1. k \in DOMAIN m.segs /\ a.w + 1 \in DOMAIN old.words /\ a.s \in Nat /\ a.w \in Nat
  BY DEF Allocated
<1>2. m.segs \in Seq(Segment) /\ old \in Segment
  <2>1. m.segs \in Seq(Segment)
    BY DEF Memory
  <2> QED BY <1>1, <2>1, ElementOfSeq, LenProperties
<1>3. old \in [words : Seq(Words), cap : Nat] /\ old.words \in Seq(Words) /\ Len(old.words) <= old.cap
  BY <1>2 DEF Segment
<1> DEFINE words == [old.words EXCEPT ![a.w + 1] = word]
<1>4. /\ words \in Seq(Words) /\ Len(words) = Len(old.words) /\ DOMAIN words = DOMAIN old.words
      /\ \A j \in DOMAIN old.words : words[j] = IF j = a.w + 1 THEN word ELSE old.words[j]
  BY <1>1, <1>3, ExceptSeq, LenProperties
<1>5. new = [old EXCEPT !.words = words] /\ new.words = words /\ new.cap = old.cap
  BY <1>3, Zenon
<1>6. new \in Segment
  <2>1. new \in [words : Seq(Words), cap : Nat]
    <3> HIDE DEF words
    <3> QED BY <1>3, <1>4, <1>5
  <2> HIDE DEF words
  <2> QED BY <1>3, <1>4, <1>5, <2>1 DEF Segment
<1> DEFINE segs == [m.segs EXCEPT ![k] = new]
<1>7. /\ segs \in Seq(Segment) /\ Len(segs) = Len(m.segs) /\ DOMAIN segs = DOMAIN m.segs
      /\ segs[k] = new /\ \A j \in DOMAIN m.segs : j # k => segs[j] = m.segs[j]
  <2> HIDE DEF new, k
  <2> QED BY <1>1, <1>2, <1>6, ExceptSeq, LenProperties
<1>8. n = [m EXCEPT !.segs = segs]
  BY Zenon DEF n, Put
<1>9. n.segs = segs /\ n.single = m.single /\ n \in Memory(Caps)
  <2> HIDE DEF segs
  <2>1. m \in [single : BOOLEAN, caps : Seq(Caps), segs : Seq(Segment)] /\ (m.single => Len(m.segs) = 1)
    BY DEF Memory
  <2> QED BY <1>7, <1>8, <2>1 DEF Memory
<1> HIDE DEF words, new, segs, old
<1>10. Word(n, a) = word
  BY <1>1, <1>4, <1>5, <1>7, <1>9 DEF Word, Allocated
<1>11. KeptBut(m, n, {a})
  <2> SUFFICES ASSUME NEW b \in Address, Allocated(m, b)
               PROVE  Allocated(n, b) /\ (b # a => Word(n, b) = Word(m, b))
    BY DEF KeptBut
  <2>1. CASE b.s = a.s
    <3>1. n.segs[b.s + 1] = new /\ m.segs[b.s + 1] = old
      BY <1>7, <1>9, <2>1 DEF old
    <3>2. b # a => b.w + 1 # a.w + 1
      BY <2>1
    <3> QED BY <1>1, <1>4, <1>5, <1>7, <1>9, <2>1, <3>1, <3>2 DEF Allocated, Word
  <2>2. CASE b.s # a.s
    <3>1. n.segs[b.s + 1] = m.segs[b.s + 1]
      BY <1>1, <1>7, <1>9, <2>2 DEF Allocated
    <3> QED BY <1>7, <1>9, <3>1, <2>2 DEF Allocated, Word
  <2> QED BY <2>1, <2>2
<1>12. DOMAIN n.segs = DOMAIN m.segs
  BY <1>7, <1>9
<1> QED BY <1>9, <1>10, <1>11, <1>12 DEF n

-----------------------------------------------------------------------------
(* Allocation.                                                               *)

\* What a memory consists of.
LEMMA SegmentsOfMemory ==
  ASSUME NEW Caps, NEW m \in Memory(Caps)
  PROVE  /\ m.segs \in Seq(Segment) /\ Len(m.segs) \in Nat /\ DOMAIN m.segs = 1 .. Len(m.segs)
         /\ m.single \in BOOLEAN
         /\ m.single => Len(m.segs) = 1
         /\ \A k \in DOMAIN m.segs :
              /\ m.segs[k] \in Segment
              /\ m.segs[k].words \in Seq(Words) /\ m.segs[k].cap \in Nat
              /\ Len(m.segs[k].words) \in Nat /\ Len(m.segs[k].words) <= m.segs[k].cap
              /\ DOMAIN m.segs[k].words = 1 .. Len(m.segs[k].words)
<1>1. m.segs \in Seq(Segment) /\ m.single \in BOOLEAN /\ (m.single => Len(m.segs) = 1)
  BY DEF Memory
<1>2. Len(m.segs) \in Nat /\ DOMAIN m.segs = 1 .. Len(m.segs)
  BY <1>1, LenProperties
<1>3. ASSUME NEW k \in DOMAIN m.segs
      PROVE  /\ m.segs[k] \in Segment
             /\ m.segs[k].words \in Seq(Words) /\ m.segs[k].cap \in Nat
             /\ Len(m.segs[k].words) \in Nat /\ Len(m.segs[k].words) <= m.segs[k].cap
             /\ DOMAIN m.segs[k].words = 1 .. Len(m.segs[k].words)
  <2>1. m.segs[k] \in Segment
    BY <1>1, <1>2, ElementOfSeq
  <2>2. m.segs[k].words \in Seq(Words) /\ m.segs[k].cap \in Nat /\ Len(m.segs[k].words) <= m.segs[k].cap
    BY <2>1 DEF Segment
  <2> QED BY <2>1, <2>2, LenProperties
<1> QED BY <1>1, <1>2, <1>3

\* A memory whose segments are replaced is one again.
LEMMA WithSegments ==
  ASSUME NEW Caps, NEW m \in Memory(Caps), NEW segs \in Seq(Segment),
         m.single => Len(segs) = 1
  PROVE  LET n == [m EXCEPT !.segs = segs]
         IN n \in Memory(Caps) /\ n.segs = segs /\ n.single = m.single
BY DEF Memory

\* A request finds a segment with room, and finding it changes no word.
LEMMA RoomIsFound ==
  ASSUME NEW Caps, NEW m \in Memory(Caps), NEW id \in Nat, id + 1 \in DOMAIN m.segs, NEW n \in Nat
  PROVE  LET r == RoomFor(m, id, n)
         IN /\ r.m \in Memory(Caps)
            /\ r.id \in Nat /\ r.id + 1 \in DOMAIN r.m.segs
            /\ Len(r.m.segs[r.id + 1].words) + n <= r.m.segs[r.id + 1].cap
            /\ DOMAIN m.segs \subseteq DOMAIN r.m.segs
            /\ \A a \in Address : /\ Allocated(r.m, a) <=> Allocated(m, a)
                                  /\ Allocated(m, a) => Word(r.m, a) = Word(m, a)
            /\ HasCapacity(m, id, n) => r.id = id
<1> DEFINE r == RoomFor(m, id, n)
<1> USE DEF Address
<1>1. CASE HasCapacity(m, id, n)
  <2>1. r.m = m /\ r.id = id
    BY <1>1 DEF RoomFor
  <2> QED BY <1>1, <2>1, SegmentsOfMemory DEF HasCapacity
<1>2. CASE ~ HasCapacity(m, id, n) /\ m.single
  <2>1. r.m = AllocateSegment(m, n) /\ r.id = 0
    BY <1>2 DEF RoomFor
  <2> DEFINE old == m.segs[1]
             cap == old.cap + Larger(n, SingleGrowth)
             new == [old EXCEPT !.cap = cap]
             segs == [m.segs EXCEPT ![1] = new]
  <2>2. 1 \in DOMAIN m.segs /\ Len(m.segs) = 1 /\ 1 \in 1 .. Len(m.segs)
    BY <1>2, SegmentsOfMemory
  <2>3. old \in Segment /\ old \in [words : Seq(Words), cap : Nat]
    BY <2>2, SegmentsOfMemory DEF Segment
  <2>4. Larger(n, SingleGrowth) \in Nat /\ n <= Larger(n, SingleGrowth)
    BY SegmentsAssumption DEF Larger
  <2>5. cap \in Nat /\ old.cap + n <= cap /\ Len(old.words) <= old.cap /\ Len(old.words) \in Nat /\ old.cap \in Nat
    BY <2>2, <2>4, SegmentsOfMemory
  <2>6. new.words = old.words /\ new.cap = cap /\ new \in Segment
    <3> HIDE DEF old, cap
    <3>1. new.words = old.words /\ new.cap = cap /\ new \in [words : Seq(Words), cap : Nat]
      BY <2>3, <2>5
    <3> QED BY <2>5, <3>1 DEF Segment
  <2>7. /\ segs \in Seq(Segment) /\ Len(segs) = 1 /\ DOMAIN segs = {1} /\ segs[1] = new
    <3> HIDE DEF new
    <3> QED BY <2>2, <2>6, SegmentsOfMemory, ExceptSeq, LenProperties
  <2>8. AllocateSegment(m, n) = [m EXCEPT !.segs = segs]
    BY <1>2, Zenon DEF AllocateSegment
  <2>9. r.m \in Memory(Caps) /\ r.m.segs = segs
    <3> HIDE DEF segs, r
    <3> QED BY <2>1, <2>7, <2>8, WithSegments
  <2>10. DOMAIN m.segs = {1}
    BY <2>2, SegmentsOfMemory
  <2> HIDE DEF segs, new, cap, r
  <2>11. ASSUME NEW a \in Address
         PROVE  /\ Allocated(r.m, a) <=> Allocated(m, a)
                /\ Allocated(m, a) => Word(r.m, a) = Word(m, a)
    <3>1. CASE a.s + 1 = 1
      BY <2>6, <2>7, <2>9, <2>10, <3>1 DEF Allocated, Word
    <3>2. CASE a.s + 1 # 1
      BY <2>7, <2>9, <2>10, <3>2 DEF Allocated
    <3> QED BY <3>1, <3>2
  <2> QED BY <1>2, <2>1, <2>5, <2>6, <2>7, <2>9, <2>10, <2>11 DEF r
<1>3. CASE ~ HasCapacity(m, id, n) /\ ~ m.single
  <2>1. r.m = AllocateSegment(m, n) /\ r.id = Len(m.segs)
    BY <1>3 DEF RoomFor
  <2> DEFINE new == [words |-> <<>>, cap |-> Larger(n, DefaultWords)]
             segs == Append(m.segs, new)
  <2>2. Larger(n, DefaultWords) \in Nat /\ n <= Larger(n, DefaultWords)
    BY SegmentsAssumption DEF Larger
  <2>3. new \in Segment /\ Len(new.words) = 0 /\ n <= new.cap /\ DOMAIN new.words = {}
    BY <2>2 DEF Segment
  <2>4. /\ segs \in Seq(Segment) /\ DOMAIN segs = 1 .. Len(m.segs) + 1
        /\ \A k \in DOMAIN m.segs : segs[k] = m.segs[k]
        /\ segs[Len(m.segs) + 1] = new
    <3> HIDE DEF new
    <3>1. m.segs \in Seq(Segment) /\ Len(m.segs) \in Nat /\ DOMAIN m.segs = 1 .. Len(m.segs)
      BY SegmentsOfMemory
    <3> QED BY <2>3, <3>1
  <2>5. AllocateSegment(m, n) = [m EXCEPT !.segs = segs]
    BY <1>3, Zenon DEF AllocateSegment
  <2>6. r.m \in Memory(Caps) /\ r.m.segs = segs
    <3> HIDE DEF segs, r
    <3> QED BY <1>3, <2>1, <2>4, <2>5, WithSegments
  <2>7. Len(m.segs) \in Nat /\ DOMAIN m.segs = 1 .. Len(m.segs)
    BY SegmentsOfMemory
  <2> HIDE DEF segs, new, r
  <2>8. ASSUME NEW a \in Address
        PROVE  /\ Allocated(r.m, a) <=> Allocated(m, a)
               /\ Allocated(m, a) => Word(r.m, a) = Word(m, a)
    <3>1. CASE a.s + 1 \in DOMAIN m.segs
      <4>1. r.m.segs[a.s + 1] = m.segs[a.s + 1] /\ a.s + 1 \in DOMAIN r.m.segs
        BY <2>4, <2>6, <2>7, <3>1
      <4> QED BY <3>1, <4>1 DEF Allocated, Word
    <3>2. CASE a.s + 1 \notin DOMAIN m.segs
      <4>1. a.s + 1 \in DOMAIN r.m.segs => r.m.segs[a.s + 1] = new
        BY <2>4, <2>6, <2>7, <3>2
      <4>2. a.w + 1 \notin DOMAIN new.words
        BY <2>3
      <4> QED BY <3>2, <4>1, <4>2 DEF Allocated
    <3> QED BY <3>1, <3>2
  <2>9. /\ r.id \in Nat /\ r.id + 1 \in DOMAIN r.m.segs
        /\ Len(r.m.segs[r.id + 1].words) + n <= r.m.segs[r.id + 1].cap
    <3>1. r.m.segs[r.id + 1] = new
      BY <2>1, <2>4, <2>6
    <3>2. new.cap \in Nat
      BY <2>2 DEF new
    <3> QED BY <2>1, <2>3, <2>4, <2>6, <2>7, <3>1, <3>2
  <2>10. DOMAIN m.segs \subseteq DOMAIN r.m.segs
    BY <2>4, <2>6, <2>7
  <2> QED BY <1>3, <2>6, <2>8, <2>9, <2>10 DEF r
<1> QED BY <1>1, <1>2, <1>3
\* A sequence of words with n zero words after it.
LEMMA WithZeros ==
  ASSUME NEW s \in Seq(Words), NEW n \in Nat
  PROVE  LET t == s \o Zeros(n)
         IN /\ t \in Seq(Words) /\ Len(t) = Len(s) + n /\ DOMAIN t = 1 .. Len(s) + n
            /\ \A j \in 1 .. Len(s) : t[j] = s[j]
            /\ \A i \in Nat : i < n => t[Len(s) + i + 1] = Zero
<1> DEFINE t == s \o Zeros(n)
<1> HIDE DEF t
<1>1. Zeros(n) \in Seq(Words) /\ Len(Zeros(n)) = n /\ \A i \in 1 .. n : Zeros(n)[i] = Zero
  BY WordsMade DEF Zeros
<1>2. Len(s) \in Nat
  BY LenProperties
<1>3. /\ t \in Seq(Words) /\ Len(t) = Len(s) + n
      /\ \A i \in 1 .. Len(s) + n : t[i] = IF i <= Len(s) THEN s[i] ELSE Zeros(n)[i - Len(s)]
  <2> DEFINE z == Zeros(n)
  <2>1. z \in Seq(Words) /\ Len(z) = n
    BY <1>1
  <2> HIDE DEF z
  <2>2. /\ s \o z \in Seq(Words) /\ Len(s \o z) = Len(s) + n
        /\ \A i \in 1 .. Len(s) + n : (s \o z)[i] = IF i <= Len(s) THEN s[i] ELSE z[i - Len(s)]
    BY <2>1, ConcatProperties
  <2> QED BY <2>2 DEF t, z
<1>4. DOMAIN t = 1 .. Len(s) + n
  BY <1>3, LenProperties
<1>5. ASSUME NEW i \in Nat, i < n
      PROVE  t[Len(s) + i + 1] = Zero
  <2>1. i + 1 \in 1 .. n /\ Len(s) + i + 1 \in 1 .. Len(s) + n /\ ~ (Len(s) + i + 1 <= Len(s))
        /\ Len(s) + i + 1 - Len(s) = i + 1
    BY <1>2, <1>5
  <2> QED BY <1>1, <1>3, <2>1
<1>6. \A j \in 1 .. Len(s) : t[j] = s[j]
  BY <1>2, <1>3
<1> QED BY <1>3, <1>4, <1>5, <1>6 DEF t

\* Segment.allocate, with Message.allocateSegment and the arenas behind it:
\* allocating adds n zero words that were not there, in the segment asked for if
\* it has room, within the capacity of a segment, and changes no other word.
THEOREM AllocateAdds ==
  ASSUME NEW Caps, NEW m \in Memory(Caps), NEW id \in Nat, id + 1 \in DOMAIN m.segs, NEW n \in Nat
  PROVE  LET r == Allocate(m, id, n)
         IN /\ r.m \in Memory(Caps)
            /\ r.at \in Address
            /\ \A i \in 0 .. n - 1 : /\ Allocated(r.m, Plus(r.at, i))
                                     /\ ~ Allocated(m, Plus(r.at, i))
                                     /\ Word(r.m, Plus(r.at, i)) = Zero
            /\ KeptBut(m, r.m, {})
            /\ HasCapacity(m, id, n) => r.at.s = id
<1> DEFINE room == RoomFor(m, id, n)
           k == room.id + 1
           old == room.m.segs[k]
           r == Extend(room, n)
           words == old.words \o Zeros(n)
           new == [old EXCEPT !.words = words]
           segs == [room.m.segs EXCEPT ![k] = new]
<1> USE DEF Address
<1>1. /\ room.m \in Memory(Caps) /\ room.id \in Nat /\ k \in DOMAIN room.m.segs
      /\ Len(old.words) + n <= old.cap
      /\ \A a \in Address : /\ Allocated(room.m, a) <=> Allocated(m, a)
                            /\ Allocated(m, a) => Word(room.m, a) = Word(m, a)
      /\ HasCapacity(m, id, n) => room.id = id
  BY RoomIsFound
<1> HIDE DEF room
<1>2. /\ room.m.segs \in Seq(Segment) /\ DOMAIN room.m.segs = 1 .. Len(room.m.segs)
      /\ old \in Segment /\ old.words \in Seq(Words) /\ old.cap \in Nat
      /\ Len(old.words) \in Nat /\ DOMAIN old.words = 1 .. Len(old.words)
      /\ room.m.single => Len(room.m.segs) = 1
  BY <1>1, SegmentsOfMemory
<1>4. /\ words \in Seq(Words) /\ Len(words) = Len(old.words) + n
      /\ DOMAIN words = 1 .. Len(old.words) + n
      /\ \A j \in 1 .. Len(old.words) : words[j] = old.words[j]
      /\ \A i \in Nat : i < n => words[Len(old.words) + i + 1] = Zero
  BY <1>2, WithZeros
<1>5. new.words = words /\ new.cap = old.cap /\ new \in Segment
  <2> HIDE DEF words
  <2>1. old \in [words : Seq(Words), cap : Nat]
    BY <1>2 DEF Segment
  <2> HIDE DEF old
  <2>2. new.words = words /\ new.cap = old.cap /\ new \in [words : Seq(Words), cap : Nat]
    BY <1>4, <2>1
  <2> HIDE DEF new
  <2> QED BY <1>1, <1>4, <2>2 DEF Segment, old
<1>6. /\ segs \in Seq(Segment) /\ Len(segs) = Len(room.m.segs) /\ DOMAIN segs = DOMAIN room.m.segs
      /\ segs[k] = new /\ \A j \in DOMAIN room.m.segs : j # k => segs[j] = room.m.segs[j]
  <2> HIDE DEF new, k
  <2> QED BY <1>1, <1>2, <1>5, ExceptSeq, LenProperties
<1>7. r.m = [room.m EXCEPT !.segs = segs] /\ r.at = Addr(room.id, Len(old.words))
  BY DEF Extend
<1> HIDE DEF words, new, segs, r
<1>8. r.m \in Memory(Caps) /\ r.m.segs = segs
  BY <1>1, <1>2, <1>6, <1>7, WithSegments
<1>9. r.at \in Address /\ r.at.s = room.id /\ r.at.w = Len(old.words)
  BY <1>1, <1>2, <1>7, AddressOf
<1> HIDE DEF old
<1>10. ASSUME NEW i \in 0 .. n - 1
       PROVE  /\ Allocated(r.m, Plus(r.at, i)) /\ ~ Allocated(m, Plus(r.at, i))
              /\ Word(r.m, Plus(r.at, i)) = Zero
  <2> DEFINE b == Plus(r.at, i)
  <2> i \in Nat /\ i < n
    OBVIOUS
  <2>1. b \in Address /\ b.s = room.id /\ b.w = Len(old.words) + i
    <3>1. room.id \in Nat /\ Len(old.words) + i \in Nat
      BY <1>1, <1>2
    <3>2. b = Addr(room.id, Len(old.words) + i)
      BY <1>9 DEF Plus
    <3> QED BY <3>1, <3>2, AddressOf
  <2> HIDE DEF b
  <2>2. r.m.segs[b.s + 1] = new /\ b.s + 1 \in DOMAIN r.m.segs
    BY <1>1, <1>6, <1>8, <2>1
  <2>3. b.w + 1 \in DOMAIN words /\ words[b.w + 1] = Zero
    <3>1. b.w + 1 = Len(old.words) + i + 1
      BY <2>1
    <3>2. words[Len(old.words) + i + 1] = Zero
      BY <1>4
    <3>3. Len(old.words) + i + 1 \in 1 .. Len(old.words) + n
      BY <1>2
    <3> QED BY <1>4, <3>1, <3>2, <3>3
  <2>4. ~ Allocated(room.m, b)
    BY <1>2, <2>1, SMTT(60) DEF Allocated, old
  <2>5. Allocated(r.m, b) /\ Word(r.m, b) = Zero
    BY <1>5, <2>2, <2>3 DEF Allocated, Word
  <2> QED BY <1>1, <2>1, <2>4, <2>5 DEF b
<1>11. KeptBut(m, r.m, {})
  <2> SUFFICES ASSUME NEW a \in Address, Allocated(m, a)
               PROVE  Allocated(r.m, a) /\ Word(r.m, a) = Word(m, a)
    BY DEF KeptBut
  <2>1. Allocated(room.m, a) /\ Word(room.m, a) = Word(m, a)
    BY <1>1
  <2>2. CASE a.s = room.id
    <3>1. r.m.segs[a.s + 1] = new /\ room.m.segs[a.s + 1] = old /\ a.s + 1 \in DOMAIN r.m.segs
      BY <1>1, <1>6, <1>8, <2>2 DEF old
    <3>2. a.w + 1 \in DOMAIN old.words
      BY <2>1, <3>1 DEF Allocated
    <3>3. a.w + 1 \in DOMAIN words /\ words[a.w + 1] = old.words[a.w + 1]
      BY <1>2, <1>4, <3>2
    <3> QED BY <1>5, <2>1, <3>1, <3>2, <3>3 DEF Allocated, Word
  <2>3. CASE a.s # room.id
    <3>1. r.m.segs[a.s + 1] = room.m.segs[a.s + 1] /\ a.s + 1 \in DOMAIN r.m.segs
      BY <1>1, <1>6, <1>8, <2>1, <2>3 DEF Allocated
    <3> QED BY <2>1, <3>1 DEF Allocated, Word
  <2> QED BY <2>2, <2>3
<1>12. Allocate(m, id, n) = r
  BY DEF Allocate, r, room
<1>13. HasCapacity(m, id, n) => r.at.s = id
  BY <1>1, <1>9
<1> QED BY <1>8, <1>9, <1>10, <1>11, <1>12, <1>13
-----------------------------------------------------------------------------
(* Pointers.                                                                 *)

\* Two steps that keep words keep them together.
LEMMA KeptTwice ==
  ASSUME NEW m, NEW n, NEW o, NEW e, NEW f,
         KeptBut(m, n, e), KeptBut(n, o, f)
  PROVE  KeptBut(m, o, e \cup f)
BY DEF KeptBut

\* The three ways of pointing: p will be the word that leads to c; or p leads to
\* a pad beside c; or p leads to two pads, the first of which leads to c.
Near(r, c, p) == r.at = p /\ p.s = c.s /\ r.off = c.w - p.w - 1
Far(r, c, p) ==
  /\ r.at # p /\ r.at.s = c.s /\ r.off = c.w - r.at.w - 1
  /\ Word(r.m, p) = FarWord(FALSE, r.at.w, r.at.s)
DoubleFar(r, c, p, pad) ==
  /\ r.at # p /\ r.at # pad /\ pad # p /\ Plus(pad, 1) = r.at /\ r.off = 0
  /\ Allocated(r.m, pad)
  /\ Word(r.m, p) = FarWord(TRUE, pad.w, pad.s)
  /\ Word(r.m, pad) = FarWord(FALSE, c.w, c.s)

\* Point makes p lead to the word still to be written in one of these ways, and
\* changes no word but p.
LEMMA PointPrepares ==
  ASSUME NEW Caps, NEW m \in Memory(Caps), NEW p \in Address, Allocated(m, p),
         NEW c \in Address, c.s + 1 \in DOMAIN m.segs
  PROVE  LET r == Point(m, c, p)
         IN /\ r.m \in Memory(Caps) /\ r.at \in Address /\ r.off \in Int
            /\ Allocated(r.m, p) /\ Allocated(r.m, r.at)
            /\ r.at # p => ~ Allocated(m, r.at)
            /\ KeptBut(m, r.m, {p})
            /\ Near(r, c, p) \/ Far(r, c, p) \/ \E pad \in Address : DoubleFar(r, c, p, pad)
<1> DEFINE r == Point(m, c, p)
<1>0. p.s \in Nat /\ p.w \in Nat /\ c.s \in Nat /\ c.w \in Nat /\ p.s + 1 \in DOMAIN m.segs
  BY DEF Address, Allocated
<1>1. CASE p.s = c.s
  <2>1. r.m = m /\ r.at = p /\ r.off = c.w - p.w - 1
    BY <1>1 DEF Point
  <2>2. KeptBut(m, m, {p})
    BY DEF KeptBut
  <2> HIDE DEF r
  <2>3. Near(r, c, p) /\ r.off \in Int
    BY <1>0, <1>1, <2>1 DEF Near
  <2> QED BY <2>1, <2>2, <2>3 DEF r
<1>2. CASE p.s # c.s /\ HasCapacity(m, c.s, 1)
  <2> DEFINE pad == Allocate(m, c.s, 1)
             far == FarWord(FALSE, pad.at.w, pad.at.s)
  <2>1. r = [m |-> Put(pad.m, p, far), at |-> pad.at, off |-> c.w - pad.at.w - 1]
    BY <1>2 DEF Point, FarTo
  <2>2. /\ pad.m \in Memory(Caps) /\ pad.at \in Address
        /\ \A i \in 0 .. 0 : Allocated(pad.m, Plus(pad.at, i)) /\ ~ Allocated(m, Plus(pad.at, i))
        /\ KeptBut(m, pad.m, {})
        /\ pad.at.s = c.s
    BY <1>0, <1>2, AllocateAdds
  <2> HIDE DEF pad
  <2>3. pad.at.s \in Nat /\ pad.at.w \in Nat /\ Plus(pad.at, 0) = pad.at
    BY <2>2 DEF Address, Plus, Addr
  <2>4. Allocated(pad.m, pad.at) /\ ~ Allocated(m, pad.at) /\ pad.at # p /\ Allocated(pad.m, p)
    BY <2>2, <2>3 DEF KeptBut
  <2>5. far \in Words
    BY <2>3, WordsMade
  <2> HIDE DEF far
  <2>6. /\ r.m \in Memory(Caps) /\ Word(r.m, p) = far /\ KeptBut(pad.m, r.m, {p})
    BY <2>1, <2>2, <2>4, <2>5, PutWord
  <2>7. r.at = pad.at /\ r.off = c.w - pad.at.w - 1
    BY <2>1
  <2> HIDE DEF r
  <2>8. KeptBut(m, r.m, {p})
    <3>1. {} \cup {p} = {p}
      OBVIOUS
    <3> QED BY <2>2, <2>6, <3>1, KeptTwice
  <2>9. Allocated(r.m, p) /\ Allocated(r.m, r.at)
    BY <2>2, <2>4, <2>6, <2>7 DEF KeptBut
  <2>10. Far(r, c, p) /\ r.off \in Int
    <3>1. r.off \in Int
      BY <1>0, <2>3, <2>7
    <3>2. r.at # p /\ r.at.s = c.s /\ r.off = c.w - r.at.w - 1
      BY <2>2, <2>4, <2>7
    <3>3. Word(r.m, p) = FarWord(FALSE, r.at.w, r.at.s)
      BY <2>6, <2>7 DEF far
    <3> QED BY <3>1, <3>2, <3>3 DEF Far
  <2> QED BY <2>2, <2>4, <2>6, <2>7, <2>8, <2>9, <2>10 DEF r
<1>3. CASE p.s # c.s /\ ~ HasCapacity(m, c.s, 1)
  <2> DEFINE pad == Allocate(m, p.s, 2)
             far == FarWord(TRUE, pad.at.w, pad.at.s)
             first == FarWord(FALSE, c.w, c.s)
             one == Put(pad.m, p, far)
             next == Plus(pad.at, 1)
  <2>1. r = [m |-> Put(one, pad.at, first), at |-> next, off |-> 0]
    BY <1>3 DEF Point, DoubleFarTo
  <2>2. /\ pad.m \in Memory(Caps) /\ pad.at \in Address
        /\ \A i \in 0 .. 1 : Allocated(pad.m, Plus(pad.at, i)) /\ ~ Allocated(m, Plus(pad.at, i))
        /\ KeptBut(m, pad.m, {})
    <3>1. p.s \in Nat /\ p.s + 1 \in DOMAIN m.segs /\ 2 \in Nat /\ 2 - 1 = 1
      BY <1>0
    <3>2. /\ pad.m \in Memory(Caps) /\ pad.at \in Address /\ KeptBut(m, pad.m, {})
          /\ \A i \in 0 .. 2 - 1 : /\ Allocated(pad.m, Plus(pad.at, i))
                                   /\ ~ Allocated(m, Plus(pad.at, i))
                                   /\ Word(pad.m, Plus(pad.at, i)) = Zero
      BY <3>1, AllocateAdds
    <3> HIDE DEF pad
    <3> QED BY <3>1, <3>2
  <2> HIDE DEF pad
  <2>3. /\ pad.at.s \in Nat /\ pad.at.w \in Nat /\ Plus(pad.at, 0) = pad.at
        /\ next \in Address /\ next # pad.at
    BY <2>2 DEF Address, Plus, Addr
  <2>4. /\ Allocated(pad.m, pad.at) /\ ~ Allocated(m, pad.at)
        /\ Allocated(pad.m, next) /\ ~ Allocated(m, next)
    BY <2>2, <2>3
  <2>5. pad.at # p /\ next # p /\ Allocated(pad.m, p)
    BY <2>2, <2>4 DEF KeptBut
  <2>6. far \in Words /\ first \in Words
    BY <1>0, <2>3, WordsMade
  <2> HIDE DEF far, first, next
  <2>7. one \in Memory(Caps) /\ Word(one, p) = far /\ KeptBut(pad.m, one, {p})
    BY <2>2, <2>5, <2>6, PutWord
  <2> HIDE DEF one
  <2>8. Allocated(one, pad.at) /\ Allocated(one, next) /\ Allocated(one, p)
    BY <2>2, <2>3, <2>4, <2>5, <2>7 DEF KeptBut
  <2>9. /\ r.m \in Memory(Caps) /\ Word(r.m, pad.at) = first /\ KeptBut(one, r.m, {pad.at})
    BY <2>1, <2>2, <2>6, <2>7, <2>8, PutWord
  <2>10. r.at = next /\ r.off = 0
    BY <2>1
  <2> HIDE DEF r
  <2>11. Word(r.m, p) = far /\ Allocated(r.m, p) /\ Allocated(r.m, pad.at) /\ Allocated(r.m, next)
    BY <2>2, <2>3, <2>5, <2>7, <2>8, <2>9 DEF KeptBut
  <2>12. KeptBut(m, r.m, {p})
    BY <2>2, <2>4, <2>7, <2>9 DEF KeptBut
  <2>13. DoubleFar(r, c, p, pad.at)
    BY <2>3, <2>5, <2>9, <2>10, <2>11 DEF DoubleFar, far, first, next
  <2>14. \E q \in Address : DoubleFar(r, c, p, q)
    BY <2>2, <2>13
  <2>15. r.at \in Address /\ r.off \in Int /\ Allocated(r.m, r.at) /\ ~ Allocated(m, r.at)
    BY <2>3, <2>4, <2>10, <2>11
  <2> QED BY <2>9, <2>11, <2>12, <2>14, <2>15 DEF r
<1> QED BY <1>1, <1>2, <1>3
\* The words of pointers to structs and lists, in which Write sets the offset.
PointerWords == {word \in Words : word.t \in {"struct", "list"}}

LEMMA OffsetSet ==
  ASSUME NEW word \in PointerWords, NEW off \in Int
  PROVE  LET w == [word EXCEPT !.off = off]
         IN w \in Words /\ w.t = word.t /\ w.off = off
<1>1. CASE word \in [t : {"struct"}, off : Int, d : Nat, p : Nat]
  BY <1>1 DEF Words
<1>2. CASE word \in [t : {"list"}, off : Int, e : STRING, len : Nat]
  BY <1>2 DEF Words
<1> QED BY <1>1, <1>2 DEF PointerWords, Words

\* initPointer and the word written after it: whatever the segments, near, far or
\* double far, the pointer leads to the object it was written for, the word found
\* there is the one written, and no other word of the message changes. The pad of
\* a single far pointer lies in the object's segment (Far), as initPointer asserts
\* with INVARIANT_UNREACHABLE_CODE.
THEOREM PointerLeadsToObject ==
  ASSUME NEW Caps, NEW m \in Memory(Caps), NEW p \in Address, Allocated(m, p),
         NEW c \in Address, c.s + 1 \in DOMAIN m.segs, NEW word \in PointerWords
  PROVE  LET r == Point(m, c, p)
             n == Write(r, word)
         IN /\ n \in Memory(Caps)
            /\ ObjectStart(n, p) = c
            /\ Target(n, p) = [word EXCEPT !.off = r.off]
            /\ KeptBut(m, n, {p})
<1> DEFINE r == Point(m, c, p)
           w == [word EXCEPT !.off = r.off]
           n == Write(r, word)
<1>1. /\ r.m \in Memory(Caps) /\ r.at \in Address /\ r.off \in Int
      /\ Allocated(r.m, p) /\ Allocated(r.m, r.at)
      /\ r.at # p => ~ Allocated(m, r.at)
      /\ KeptBut(m, r.m, {p})
      /\ Near(r, c, p) \/ Far(r, c, p) \/ \E pad \in Address : DoubleFar(r, c, p, pad)
  BY PointPrepares
<1> HIDE DEF r
<1>2. w \in Words /\ w.t \in {"struct", "list"} /\ w.off = r.off
  BY <1>1, OffsetSet DEF PointerWords
<1>3. n = Put(r.m, r.at, w)
  BY DEF Write
<1> HIDE DEF n, w
<1>4. n \in Memory(Caps) /\ Word(n, r.at) = w /\ KeptBut(r.m, n, {r.at})
  BY <1>1, <1>2, <1>3, PutWord
<1>5. KeptBut(m, n, {p})
  BY <1>1, <1>4 DEF KeptBut
<1>6. p.s \in Nat /\ p.w \in Nat /\ c.s \in Nat /\ c.w \in Nat /\ r.at.s \in Nat /\ r.at.w \in Nat
      /\ Addr(c.s, c.w) = c /\ Addr(r.at.s, r.at.w) = r.at
  BY <1>1 DEF Address, Addr
<1>7. ASSUME Near(r, c, p)
      PROVE  ObjectStart(n, p) = c /\ Target(n, p) = w
  <2>1. Word(n, p) = w /\ p.s = c.s /\ r.off = c.w - p.w - 1
    BY <1>4, <1>7 DEF Near
  <2>2. FollowFars(n, p) = p /\ Target(n, p) = w /\ ~ IsDoubleFar(n, p)
    BY <1>2, <2>1 DEF FollowFars, Target, IsFar, IsDoubleFar
  <2>3. ObjectStart(n, p) = Addr(c.s, p.w + (1 + (c.w - p.w - 1)))
    BY <1>2, <2>1, <2>2 DEF ObjectStart, Plus
  <2>4. p.w + (1 + (c.w - p.w - 1)) = c.w
    BY <1>6
  <2> QED BY <1>6, <2>2, <2>3, <2>4
<1>8. ASSUME Far(r, c, p)
      PROVE  ObjectStart(n, p) = c /\ Target(n, p) = w
  <2>1. Word(n, p) = FarWord(FALSE, r.at.w, r.at.s)
    BY <1>1, <1>4, <1>8 DEF Far, KeptBut
  <2>2. /\ Word(n, p).t = "far" /\ Word(n, p).double = FALSE
        /\ Word(n, p).off = r.at.w /\ Word(n, p).id = r.at.s
    BY <2>1 DEF FarWord
  <2>3. IsFar(n, p) /\ ~ IsDoubleFar(n, p) /\ FollowFar(n, p) = r.at
    BY <1>6, <2>2 DEF IsFar, IsDoubleFar, FollowFar
  <2>4. Plus(r.at, 0) = r.at
    BY <1>6 DEF Plus
  <2>5. FollowFars(n, p) = r.at /\ Target(n, p) = w
    BY <1>4, <2>3, <2>4 DEF FollowFars, Target
  <2>6. ObjectStart(n, p) = Addr(r.at.s, r.at.w + (1 + r.off))
    BY <1>2, <2>3, <2>5 DEF ObjectStart, Plus
  <2>7. r.at.s = c.s /\ r.at.w + (1 + r.off) = c.w
    BY <1>6, <1>8 DEF Far
  <2> QED BY <1>6, <2>5, <2>6, <2>7
<1>9. ASSUME NEW pad \in Address, DoubleFar(r, c, p, pad)
      PROVE  ObjectStart(n, p) = c /\ Target(n, p) = w
  <2>1. /\ Word(n, p) = FarWord(TRUE, pad.w, pad.s)
        /\ Word(n, pad) = FarWord(FALSE, c.w, c.s)
    BY <1>1, <1>4, <1>9 DEF DoubleFar, KeptBut
  <2>2. pad.s \in Nat /\ pad.w \in Nat /\ Addr(pad.s, pad.w) = pad
    BY DEF Address, Addr
  <2>3. /\ Word(n, p).t = "far" /\ Word(n, p).double = TRUE
        /\ Word(n, p).off = pad.w /\ Word(n, p).id = pad.s
    BY <2>1 DEF FarWord
  <2>4. Word(n, pad).off = c.w /\ Word(n, pad).id = c.s
    BY <2>1 DEF FarWord
  <2>5. IsFar(n, p) /\ IsDoubleFar(n, p) /\ FollowFar(n, p) = pad /\ FollowFar(n, pad) = c
    BY <1>6, <2>2, <2>3, <2>4 DEF IsFar, IsDoubleFar, FollowFar
  <2>6. FollowFars(n, p) = r.at
    BY <1>9, <2>5 DEF FollowFars, DoubleFar
  <2> QED BY <1>4, <2>5, <2>6 DEF ObjectStart, Target
<1> QED BY <1>1, <1>4, <1>5, <1>7, <1>8, <1>9 DEF n, r, w
-----------------------------------------------------------------------------
(* Packing. The bytes of a word, and the places in a stream.               *)

ByteWord == [1..8 -> 0..255]
Position == Nat \ {0}

-----------------------------------------------------------------------------
(* One word.                                                               *)

\* t is a byte, and a to h are its bits from the lowest up.
BitsAre(t, a, b, c, d, e, f, g, h) ==
  /\ t \in 0..255
  /\ HasBit(t, 0) <=> a = 1
  /\ HasBit(t, 1) <=> b = 1
  /\ HasBit(t, 2) <=> c = 1
  /\ HasBit(t, 3) <=> d = 1
  /\ HasBit(t, 4) <=> e = 1
  /\ HasBit(t, 5) <=> f = 1
  /\ HasBit(t, 6) <=> g = 1
  /\ HasBit(t, 7) <=> h = 1

\* Eight bits make a byte that has these bits.
LEMMA BitsOfSum ==
  ASSUME NEW a \in 0..1, NEW b \in 0..1, NEW c \in 0..1, NEW d \in 0..1,
         NEW e \in 0..1, NEW f \in 0..1, NEW g \in 0..1, NEW h \in 0..1,
         NEW t, t = a + 2 * b + 4 * c + 8 * d + 16 * e + 32 * f + 64 * g + 128 * h
  PROVE  BitsAre(t, a, b, c, d, e, f, g, h)
<1>1. t \in 0..255
  OBVIOUS
<1>2. /\ Power[1] = 1 /\ Power[2] = 2 /\ Power[3] = 4 /\ Power[4] = 8
      /\ Power[5] = 16 /\ Power[6] = 32 /\ Power[7] = 64 /\ Power[8] = 128
  BY DEF Power
<1>3. /\ t \div 1 = a + 2 * (b + 2 * c + 4 * d + 8 * e + 16 * f + 32 * g + 64 * h)
      /\ t \div 2 = b + 2 * (c + 2 * d + 4 * e + 8 * f + 16 * g + 32 * h)
      /\ t \div 4 = c + 2 * (d + 2 * e + 4 * f + 8 * g + 16 * h)
      /\ t \div 8 = d + 2 * (e + 2 * f + 4 * g + 8 * h)
      /\ t \div 16 = e + 2 * (f + 2 * g + 4 * h)
      /\ t \div 32 = f + 2 * (g + 2 * h)
      /\ t \div 64 = g + 2 * h
      /\ t \div 128 = h
  OBVIOUS
<1>4. \A x \in 0..1, y \in Int : (x + 2 * y) % 2 = x
  OBVIOUS
<1>5. /\ (t \div 1) % 2 = a /\ (t \div 2) % 2 = b /\ (t \div 4) % 2 = c /\ (t \div 8) % 2 = d
      /\ (t \div 16) % 2 = e /\ (t \div 32) % 2 = f /\ (t \div 64) % 2 = g
      /\ (t \div 128) % 2 = h
  BY <1>3, <1>4
<1>6. /\ 0 + 1 = 1 /\ 1 + 1 = 2 /\ 2 + 1 = 3 /\ 3 + 1 = 4
      /\ 4 + 1 = 5 /\ 5 + 1 = 6 /\ 6 + 1 = 7 /\ 7 + 1 = 8
  OBVIOUS
<1> QED BY ONLY <1>1, <1>2, <1>5, <1>6 DEF HasBit, BitsAre

\* The tag of a word says which of its bytes are not zero.
LEMMA TagOfWord ==
  ASSUME NEW w \in ByteWord
  PROVE  /\ TagByte(w) \in 0..255
         /\ \A b \in 0..7 : HasBit(TagByte(w), b) <=> w[b + 1] # 0
         /\ TagByte(w) = ZeroTag <=> \A j \in 1..8 : w[j] = 0
         /\ TagByte(w) = SpanTag <=> \A j \in 1..8 : w[j] # 0
<1> DEFINE v(i) == IF w[i + 1] # 0 THEN 1 ELSE 0
<1>1. TagByte(w) = v(0) + 2 * v(1) + 4 * v(2) + 8 * v(3) + 16 * v(4) + 32 * v(5)
                     + 64 * v(6) + 128 * v(7)
  BY DEF TagByte, Byte
<1>2. PICK a \in 0..1, b \in 0..1, c \in 0..1, d \in 0..1,
           e \in 0..1, f \in 0..1, g \in 0..1, h \in 0..1 :
        /\ a = v(0) /\ b = v(1) /\ c = v(2) /\ d = v(3)
        /\ e = v(4) /\ f = v(5) /\ g = v(6) /\ h = v(7)
  OBVIOUS
<1>3. TagByte(w) = a + 2 * b + 4 * c + 8 * d + 16 * e + 32 * f + 64 * g + 128 * h
  BY <1>1, <1>2
<1>4. /\ (a = 1 <=> w[1] # 0) /\ (b = 1 <=> w[2] # 0)
      /\ (c = 1 <=> w[3] # 0) /\ (d = 1 <=> w[4] # 0)
      /\ (e = 1 <=> w[5] # 0) /\ (f = 1 <=> w[6] # 0)
      /\ (g = 1 <=> w[7] # 0) /\ (h = 1 <=> w[8] # 0)
  BY <1>2
<1> HIDE DEF v
<1>5. /\ TagByte(w) \in 0..255
      /\ (HasBit(TagByte(w), 0) <=> w[1] # 0) /\ (HasBit(TagByte(w), 1) <=> w[2] # 0)
      /\ (HasBit(TagByte(w), 2) <=> w[3] # 0) /\ (HasBit(TagByte(w), 3) <=> w[4] # 0)
      /\ (HasBit(TagByte(w), 4) <=> w[5] # 0) /\ (HasBit(TagByte(w), 5) <=> w[6] # 0)
      /\ (HasBit(TagByte(w), 6) <=> w[7] # 0) /\ (HasBit(TagByte(w), 7) <=> w[8] # 0)
  <2>1. PICK t : t = TagByte(w)
    OBVIOUS
  <2>2. BitsAre(t, a, b, c, d, e, f, g, h)
    BY ONLY a \in 0..1, b \in 0..1, c \in 0..1, d \in 0..1, e \in 0..1, f \in 0..1, g \in 0..1,
       h \in 0..1, <1>3, <2>1, BitsOfSum
  <2> QED BY ONLY <1>4, <2>1, <2>2 DEF BitsAre
<1>6. \A i \in 0..7 : HasBit(TagByte(w), i) <=> w[i + 1] # 0
  BY ONLY <1>5
<1>7. TagByte(w) = 0 <=> \A j \in 1..8 : w[j] = 0
  BY ONLY a \in 0..1, b \in 0..1, c \in 0..1, d \in 0..1, e \in 0..1, f \in 0..1, g \in 0..1,
     h \in 0..1, <1>3, <1>4
<1>8. TagByte(w) = 255 <=> \A j \in 1..8 : w[j] # 0
  BY ONLY a \in 0..1, b \in 0..1, c \in 0..1, d \in 0..1, e \in 0..1, f \in 0..1, g \in 0..1,
     h \in 0..1, <1>3, <1>4
<1> QED BY ONLY <1>5, <1>6, <1>7, <1>8 DEF ZeroTag, SpanTag

\* Counting set bits one by one.
LEMMA SetBitsInSteps ==
  ASSUME NEW tag
  PROVE  /\ SetBits(tag, 0) = 0
         /\ \A n \in Nat : SetBits(tag, n) \in Nat
         /\ \A n \in Nat : SetBits(tag, n + 1) = IF HasBit(tag, n) THEN SetBits(tag, n) + 1
                                                ELSE SetBits(tag, n)
<1> DEFINE B(n) == {b \in 0..(n - 1) : HasBit(tag, b)}
<1>1. \A n : SetBits(tag, n) = Cardinality(B(n))
  BY DEF SetBits
<1>2. B(0) = {}
  OBVIOUS
<1>3. ASSUME NEW n \in Nat
      PROVE  /\ IsFiniteSet(B(n)) /\ n \notin B(n)
             /\ B(n + 1) = IF HasBit(tag, n) THEN B(n) \cup {n} ELSE B(n)
  <2>1. IsFiniteSet(0..(n - 1))
    BY FS_Interval
  <2>2. IsFiniteSet(B(n))
    BY <2>1, FS_Subset
  <2>3. (n + 1) - 1 = n /\ 0..n = 0..(n - 1) \cup {n} /\ n \notin 0..(n - 1)
    OBVIOUS
  <2> QED BY <2>2, <2>3
<1> HIDE DEF B
<1>4. SetBits(tag, 0) = 0
  BY <1>1, <1>2, FS_EmptySet
<1>5. ASSUME NEW n \in Nat
      PROVE  /\ SetBits(tag, n) \in Nat
             /\ SetBits(tag, n + 1) = IF HasBit(tag, n) THEN SetBits(tag, n) + 1
                                      ELSE SetBits(tag, n)
  <2>1. Cardinality(B(n)) \in Nat
    BY <1>3, FS_CardinalityType
  <2>2. Cardinality(B(n) \cup {n}) = Cardinality(B(n)) + 1
    BY <1>3, FS_AddElement
  <2> QED BY <1>1, <1>3, <2>1, <2>2
<1> QED BY <1>4, <1>5

\* The nonzero bytes of a word are where the set bits of its tag say.
LEMMA NonzeroBytesOfWord ==
  ASSUME NEW w \in ByteWord
  PROVE  /\ NonzeroBytes(w) \in Seq(1..255)
         /\ Len(NonzeroBytes(w)) = Following(TagByte(w))
         /\ \A k \in 1..8 : w[k] # 0 =>
              /\ SetBits(TagByte(w), k - 1) + 1 \in 1..Len(NonzeroBytes(w))
              /\ NonzeroBytes(w)[SetBits(TagByte(w), k - 1) + 1] = w[k]
<1> DEFINE tag == TagByte(w)
           pre(n) == [i \in 1..n |-> w[i]]
           some(n) == Only(pre(n), 1..255)
           Good(n) == /\ some(n) \in Seq(1..255) /\ Len(some(n)) = SetBits(tag, n)
                      /\ \A k \in 1..n : w[k] # 0 =>
                           /\ SetBits(tag, k - 1) + 1 \in 1..Len(some(n))
                           /\ some(n)[SetBits(tag, k - 1) + 1] = w[k]
           N == {n \in 0..8 : ~ Good(n)}
<1>1. \A n \in 0..8 : pre(n) \in Seq(0..255) /\ Len(pre(n)) = n
  <2> SUFFICES ASSUME NEW n \in 0..8 PROVE pre(n) \in Seq(0..255) /\ Len(pre(n)) = n
    OBVIOUS
  <2>1. n \in Nat /\ pre(n) \in [1..n -> 0..255]
    BY DEF ByteWord
  <2> QED BY <2>1, SeqOfFunction
<1>2. Good(0)
  <2>1. pre(0) = <<>>
    BY <1>1
  <2>2. some(0) = <<>>
    BY <2>1, OnlyOfEmpty
  <2>3. some(0) \in Seq(1..255) /\ Len(some(0)) = 0
    BY <2>2, EmptySeq
  <2> QED BY <2>3, SetBitsInSteps
<1>3. ASSUME NEW n \in 0..7, Good(n) PROVE Good(n + 1)
  <2>1. pre(n + 1) = Append(pre(n), w[n + 1])
    <3>1. pre(n) \in Seq(0..255) /\ Len(pre(n)) = n
      BY <1>1
    <3>2. w[n + 1] \in 0..255
      BY DEF ByteWord
    <3>3. /\ Append(pre(n), w[n + 1]) \in Seq(0..255) /\ Len(Append(pre(n), w[n + 1])) = n + 1
          /\ \A i \in 1..n : Append(pre(n), w[n + 1])[i] = w[i]
          /\ Append(pre(n), w[n + 1])[n + 1] = w[n + 1]
      BY <3>1, <3>2, AppendProperties
    <3>4. pre(n + 1) \in Seq(0..255) /\ Len(pre(n + 1)) = n + 1
      BY <1>1
    <3>5. \A i \in 1..(n + 1) : pre(n + 1)[i] = Append(pre(n), w[n + 1])[i]
      BY <3>3
    <3> HIDE DEF pre
    <3> QED BY <3>3, <3>4, <3>5, SeqEqual
  <2>2. PICK x \in 0..255 : x = w[n + 1]
    BY DEF ByteWord
  <2>3. PICK u \in Seq(0..255) : u = pre(n) /\ Append(u, x) = pre(n + 1)
    <3>1. pre(n) \in Seq(0..255)
      BY <1>1
    <3> HIDE DEF pre
    <3> QED BY <3>1, <2>1, <2>2
  <2>4. PICK s, t : s = some(n) /\ t = some(n + 1)
    OBVIOUS
  <2>5. t = IF x \in 1..255 THEN Append(s, x) ELSE s
    <3>1. Only(Append(u, x), 1..255) = IF x \in 1..255 THEN Append(Only(u, 1..255), x)
                                       ELSE Only(u, 1..255)
      <4>1. PICK S, T : S = 0..255 /\ T = 1..255
        OBVIOUS
      <4>2. u \in Seq(S) /\ x \in S
        BY <4>1
      <4>3. Only(Append(u, x), T) = IF x \in T THEN Append(Only(u, T), x) ELSE Only(u, T)
        BY <4>2, OnlyOfAppend
      <4> QED BY <4>1, <4>3
    <3> HIDE DEF pre
    <3> QED BY <3>1, <2>3, <2>4
  <2>6. PICK q : q = SetBits(tag, n)
    OBVIOUS
  <2>7. n \in 0..7 /\ (HasBit(tag, n) <=> x # 0)
    BY <2>2, TagOfWord
  <2>8. q \in Nat /\ SetBits(tag, n + 1) = IF x # 0 THEN q + 1 ELSE q
    <3> HIDE DEF tag
    <3>1. n \in Nat
      OBVIOUS
    <3> QED BY <3>1, <2>6, <2>7, SetBitsInSteps
  <2>9. /\ s \in Seq(1..255) /\ Len(s) = q
        /\ \A k \in 1..n : w[k] # 0 => /\ SetBits(tag, k - 1) + 1 \in 1..Len(s)
                                       /\ s[SetBits(tag, k - 1) + 1] = w[k]
    BY <1>3, <2>4, <2>6
  <2>10. /\ t \in Seq(1..255) /\ Len(t) = SetBits(tag, n + 1) /\ Len(s) <= Len(t)
         /\ \A i \in 1..Len(s) : t[i] = s[i]
         /\ x # 0 => Len(t) = q + 1 /\ t[q + 1] = x
    <3>1. CASE x = 0
      BY <2>5, <2>8, <2>9, <3>1
    <3>2. CASE x # 0
      <4>1. x \in 1..255 /\ t = Append(s, x)
        BY <2>5, <3>2
      <4>2. t \in Seq(1..255) /\ Len(t) = q + 1 /\ t[q + 1] = x /\ \A i \in 1..Len(s) : t[i] = s[i]
        BY <4>1, <2>9, AppendProperties
      <4> QED BY <4>2, <2>8, <2>9, <3>2
    <3> QED BY <3>1, <3>2
  <2>11. ASSUME NEW k \in 1..(n + 1), w[k] # 0
         PROVE  SetBits(tag, k - 1) + 1 \in 1..Len(t) /\ t[SetBits(tag, k - 1) + 1] = w[k]
    <3>1. CASE k = n + 1
      BY <2>2, <2>6, <2>8, <2>10, <2>11, <3>1
    <3>2. CASE k # n + 1
      <4> HIDE DEF tag
      <4>1. PICK r : r = SetBits(tag, k - 1) + 1
        OBVIOUS
      <4>2. k \in 1..n
        BY <3>2
      <4>3. r \in 1..Len(s) /\ s[r] = w[k]
        BY <2>9, <2>11, <4>1, <4>2
      <4>4. r \in 1..Len(t) /\ t[r] = s[r]
        BY <2>9, <2>10, <4>3
      <4> QED BY <4>1, <4>3, <4>4
    <3> QED BY <3>1, <3>2
  <2> HIDE DEF some, tag
  <2> QED BY <2>4, <2>10, <2>11
<1>4. ASSUME N # {} PROVE FALSE
  <2>1. N \subseteq Nat
    OBVIOUS
  <2>2. PICK m \in N : \A k \in N : m <= k
    BY <1>4, <2>1, LeastNumber, ZenonT(60)
  <2>3. m \in 0..8 /\ ~ Good(m)
    OBVIOUS
  <2> HIDE DEF Good
  <2>4. m # 0
    BY <1>2, <2>3
  <2>5. m - 1 \in 0..7 /\ m - 1 \notin N /\ (m - 1) + 1 = m
    BY <2>2, <2>3, <2>4
  <2>6. Good(m - 1)
    BY <2>5
  <2> QED BY <1>3, <2>3, <2>5, <2>6
<1>5. Good(8)
  <2> HIDE DEF Good
  <2> QED BY <1>4
<1>6. pre(8) = w
  BY DEF ByteWord
<1> QED BY <1>5, <1>6 DEF NonzeroBytes, Following

-----------------------------------------------------------------------------
(* One packet.                                                             *)

\* The bytes p lie in the stream from byte a on.
LiesAt(p, bytes, a) ==
  a + Len(p) <= Len(bytes) + 1 /\ \A j \in 1..Len(p) : bytes[a + j - 1] = p[j]

\* Of bytes that lie in a stream, so do both parts.
LEMMA PartsLie ==
  ASSUME NEW S, NEW p \in Seq(S), NEW q \in Seq(S), NEW bytes \in Seq(S), NEW a \in Position,
         LiesAt(p \o q, bytes, a)
  PROVE  LiesAt(p, bytes, a) /\ LiesAt(q, bytes, a + Len(p)) /\ a + Len(p) \in Position
<1>1. /\ Len(p) \in Nat /\ Len(q) \in Nat /\ Len(bytes) \in Nat
      /\ Len(p \o q) = Len(p) + Len(q)
      /\ \A j \in 1..Len(p) : (p \o q)[j] = p[j]
      /\ \A j \in 1..Len(q) : (p \o q)[Len(p) + j] = q[j]
  BY LenProperties, ConcatProperties
<1>2. PICK m, n, b : m \in Nat /\ m = Len(p) /\ n \in Nat /\ n = Len(q) /\ b = p \o q
  BY <1>1
<1>3. a + (m + n) <= Len(bytes) + 1 /\ \A j \in 1..(m + n) : bytes[a + j - 1] = b[j]
  BY <1>1, <1>2 DEF LiesAt
<1>4. ASSUME NEW j \in 1..m PROVE bytes[a + j - 1] = p[j]
  <2>1. j \in 1..(m + n) /\ b[j] = p[j]
    BY <1>1, <1>2
  <2> QED BY <2>1, <1>3
<1>5. ASSUME NEW j \in 1..n PROVE bytes[(a + m) + j - 1] = q[j]
  <2>1. m + j \in 1..(m + n) /\ b[m + j] = q[j] /\ a + (m + j) - 1 = (a + m) + j - 1
    BY <1>1, <1>2 DEF Position
  <2>2. bytes[a + (m + j) - 1] = b[m + j]
    BY <2>1, <1>3
  <2> QED BY <2>1, <2>2
<1>6. a + m <= Len(bytes) + 1 /\ (a + m) + n <= Len(bytes) + 1 /\ a + m \in Position
  BY <1>1, <1>2, <1>3 DEF Position
<1> QED BY <1>2, <1>4, <1>5, <1>6 DEF LiesAt

\* The word behind a tag is the word that was packed there.
LEMMA TaggedWordRead ==
  ASSUME NEW w \in ByteWord, NEW bytes \in Seq(Nat), NEW a \in Position,
         bytes[a] = TagByte(w), LiesAt(NonzeroBytes(w), bytes, a + 1)
  PROVE  TaggedWord(bytes, a) = w /\ AfterTag(bytes, a) = a + 1 + Len(NonzeroBytes(w))
<1>1. PICK tag, p : tag = TagByte(w) /\ p = NonzeroBytes(w)
  OBVIOUS
<1>2. ASSUME NEW j \in 1..8
      PROVE  (IF HasBit(tag, j - 1) THEN bytes[a + 1 + SetBits(tag, j - 1)] ELSE 0) = w[j]
  <2>1. HasBit(tag, j - 1) <=> w[j] # 0
    <3>1. j - 1 \in 0..7 /\ (j - 1) + 1 = j
      OBVIOUS
    <3> QED BY <3>1, <1>1, TagOfWord
  <2>2. CASE w[j] = 0
    BY <2>1, <2>2
  <2>3. CASE w[j] # 0
    <3>1. PICK s : s = SetBits(tag, j - 1)
      OBVIOUS
    <3>2. s \in Nat /\ s + 1 \in 1..Len(p) /\ p[s + 1] = w[j]
      <4>1. j - 1 \in Nat
        OBVIOUS
      <4> QED BY <4>1, <1>1, <2>3, <3>1, NonzeroBytesOfWord, SetBitsInSteps
    <3>3. bytes[(a + 1) + (s + 1) - 1] = p[s + 1]
      BY <1>1, <3>2 DEF LiesAt
    <3>4. (a + 1) + (s + 1) - 1 = a + 1 + s
      BY <3>2 DEF Position
    <3> QED BY <2>1, <2>3, <3>1, <3>2, <3>3, <3>4
  <2> QED BY <2>2, <2>3
<1>3. TaggedWord(bytes, a) = [j \in 1..8 |-> w[j]]
  BY <1>1, <1>2 DEF TaggedWord
<1>4. Following(tag) = Len(p) /\ Len(p) \in Nat
  BY <1>1, NonzeroBytesOfWord, LenProperties
<1> QED BY <1>1, <1>3, <1>4 DEF AfterTag, ByteWord, Position

\* A run never grows past a byte's count, and every word in it continues it.
LEMMA RunLengthIs ==
  ASSUME NEW words \in Seq(ByteWord), NEW i \in 1..Len(words)
  PROVE  /\ RunLength(words, i) \in 0..MaxRun /\ i + RunLength(words, i) \in 1..Len(words)
         /\ \A k \in 1..RunLength(words, i) : Continues(TagByte(words[i]), words[i + k])
<1> DEFINE Go(k) == Continues(TagByte(words[i]), words[i + k])
           Stops(m) == m = MaxRun \/ i + m = Len(words) \/ ~ Go(m + 1)
           T == {m \in 0..MaxRun : i + m <= Len(words) /\ Stops(m)}
<1>1. MaxRun \in Nat /\ Len(words) \in Nat
  BY PackingAssumption, LenProperties
<1>2. T \subseteq Nat
  OBVIOUS
<1>3. T # {}
  <2>1. CASE i + MaxRun <= Len(words)
    <3>1. MaxRun \in T
      BY <1>1, <2>1
    <3> QED BY <3>1
  <2>2. CASE ~(i + MaxRun <= Len(words))
    <3>1. Len(words) - i \in T
      BY <1>1, <2>2
    <3> QED BY <3>1
  <2> QED BY <2>1, <2>2
<1>4. PICK n \in T : \A m \in T : n <= m
  BY <1>2, <1>3, LeastNumber
<1>5. n \in 0..MaxRun /\ i + n <= Len(words) /\ Stops(n)
  OBVIOUS
<1>6. ASSUME NEW k \in 1..n PROVE Go(k)
  <2> HIDE DEF Go
  <2>1. k - 1 \notin T
    <3> HIDE DEF T
    <3>1. k \in Nat /\ n \in Nat /\ ~ (n <= k - 1)
      BY <1>5
    <3> QED BY <3>1, <1>4
  <2>2. k - 1 \in 0..MaxRun /\ i + (k - 1) <= Len(words) /\ (k - 1) + 1 = k
        /\ k - 1 # MaxRun /\ i + (k - 1) # Len(words)
    BY <1>1, <1>5
  <2> QED BY <2>1, <2>2
<1>7. \E m \in 0..MaxRun :
        /\ i + m <= Len(words)
        /\ \A k \in 1..m : Go(k)
        /\ m = MaxRun \/ i + m = Len(words) \/ ~ Continues(TagByte(words[i]), words[i + m + 1])
  <2>1. i + (n + 1) = i + n + 1
    BY <1>5
  <2> QED BY <1>5, <1>6, <2>1
<1>8. /\ RunLength(words, i) \in 0..MaxRun
      /\ i + RunLength(words, i) <= Len(words)
      /\ \A k \in 1..RunLength(words, i) : Go(k)
  BY <1>7 DEF RunLength
<1> QED BY <1>1, <1>8

\* The bytes of words, eight of each.
LEMMA BytesOfWords ==
  ASSUME NEW words \in Seq(ByteWord)
  PROVE  /\ BytesOf(words) \in Seq(0..255) /\ Len(BytesOf(words)) = 8 * Len(words)
         /\ \A k \in 1..Len(words), j \in 1..8 : BytesOf(words)[8 * (k - 1) + j] = words[k][j]
<1>1. Len(words) \in Nat /\ \A k \in 1..Len(words) : words[k] \in ByteWord
  BY LenProperties, ElementOfSeq
<1>2. ASSUME NEW m \in 1..(8 * Len(words))
      PROVE  words[(m - 1) \div 8 + 1][((m - 1) % 8) + 1] \in 0..255
  <2>1. (m - 1) \div 8 + 1 \in 1..Len(words) /\ ((m - 1) % 8) + 1 \in 1..8
    BY <1>1
  <2>2. words[(m - 1) \div 8 + 1] \in [1..8 -> 0..255]
    BY <1>1, <2>1 DEF ByteWord
  <2> QED BY <2>1, <2>2
<1>3. BytesOf(words) \in [1..(8 * Len(words)) -> 0..255]
  BY <1>2 DEF BytesOf
<1>4. BytesOf(words) \in Seq(0..255) /\ Len(BytesOf(words)) = 8 * Len(words)
  <2>0. PICK n \in Nat : n = 8 * Len(words)
    BY <1>1
  <2>1. PICK s : n = 8 * Len(words) /\ s = BytesOf(words)
    BY <2>0
  <2>2. s \in [1..n -> 0..255]
    BY <2>1, <1>3
  <2>3. s \in Seq(0..255) /\ Len(s) = n
    BY <2>2, SeqOfFunction
  <2> QED BY <2>1, <2>3
<1>5. ASSUME NEW k \in 1..Len(words), NEW j \in 1..8
      PROVE  BytesOf(words)[8 * (k - 1) + j] = words[k][j]
  <2>1. PICK m \in Int : m = 8 * (k - 1) + j
    BY <1>1
  <2>2. m \in 1..(8 * Len(words))
    BY <1>1, <2>1
  <2>3. (m - 1) \div 8 + 1 = k /\ ((m - 1) % 8) + 1 = j
    BY <1>1, <2>1
  <2>4. BytesOf(words)[m] = words[(m - 1) \div 8 + 1][((m - 1) % 8) + 1]
    BY <2>2 DEF BytesOf
  <2> QED BY <2>1, <2>3, <2>4
<1> QED BY <1>4, <1>5

\* Words copied as they are, are read as they are.
LEMMA WordsRead ==
  ASSUME NEW words \in Seq(ByteWord), NEW bytes \in Seq(Nat), NEW c \in Position,
         LiesAt(BytesOf(words), bytes, c)
  PROVE  WordsAt(bytes, c, Len(words)) = words
<1>1. Len(words) \in Nat /\ \A k \in 1..Len(words) : words[k] \in ByteWord
  BY LenProperties, ElementOfSeq
<1>2. PICK b : b = BytesOf(words)
  OBVIOUS
<1>3. /\ Len(b) = 8 * Len(words)
      /\ \A k \in 1..Len(words), j \in 1..8 : b[8 * (k - 1) + j] = words[k][j]
  BY <1>2, BytesOfWords
<1>4. Len(bytes) \in Nat /\ \A m \in 1..Len(bytes) : bytes[m] \in Nat
  BY LenProperties, ElementOfSeq
<1>5. ASSUME NEW k \in 1..Len(words)
      PROVE  SubSeq(bytes, c + 8 * (k - 1), c + 8 * k - 1) = words[k]
  <2>1. PICK x \in Int, y \in Int, o \in Nat : o = 8 * (k - 1) /\ x = c + o /\ y = c + 8 * k - 1
    BY <1>1 DEF Position
  <2>2. y = x + 7 /\ x \in Position /\ o + 8 <= 8 * Len(words)
    BY <1>1, <2>1 DEF Position
  <2>3. ASSUME NEW j \in 1..8 PROVE x + j - 1 \in 1..Len(bytes) /\ bytes[x + j - 1] = words[k][j]
    <3>1. o + j \in 1..Len(b) /\ c + (o + j) - 1 = x + j - 1
      BY <1>1, <1>3, <2>1, <2>2 DEF Position
    <3>2. bytes[c + (o + j) - 1] = b[o + j] /\ c + Len(b) <= Len(bytes) + 1
      BY <1>2, <3>1 DEF LiesAt
    <3>3. b[o + j] = words[k][j]
      BY <1>3, <2>1
    <3>4. x + j - 1 \in 1..Len(bytes)
      BY <1>1, <1>3, <1>4, <2>1, <2>2, <3>2 DEF Position
    <3> QED BY <3>1, <3>2, <3>3, <3>4
  <2>4. \A m \in x..y : bytes[m] \in Nat
    <3> SUFFICES ASSUME NEW m \in x..y PROVE bytes[m] \in Nat
      OBVIOUS
    <3>1. m - x + 1 \in 1..8 /\ x + (m - x + 1) - 1 = m
      BY <2>2
    <3> QED BY <3>1, <2>3, <1>4
  <2>5. /\ SubSeq(bytes, x, y) \in Seq(Nat) /\ Len(SubSeq(bytes, x, y)) = 8
        /\ \A j \in 1..8 : SubSeq(bytes, x, y)[j] = bytes[x + j - 1]
    <3>1. y - x + 1 = 8 /\ x <= y
      BY <2>2
    <3> QED BY <3>1, <2>4, SubSeqProperties
  <2>6. words[k] \in [1..8 -> 0..255]
    BY <1>1 DEF ByteWord
  <2>7. SubSeq(bytes, x, y) \in [1..8 -> Nat]
    BY <2>5, LenProperties
  <2>8. \A j \in 1..8 : SubSeq(bytes, x, y)[j] = words[k][j]
    BY <2>3, <2>5
  <2>9. PICK s, t : s = SubSeq(bytes, x, y) /\ t = words[k]
    OBVIOUS
  <2>10. s \in [1..8 -> Nat] /\ t \in [1..8 -> 0..255] /\ \A j \in 1..8 : s[j] = t[j]
    BY <2>6, <2>7, <2>8, <2>9
  <2>11. s = t
    <3>1. s = [j \in 1..8 |-> s[j]] /\ t = [j \in 1..8 |-> t[j]]
      BY <2>10
    <3>2. [j \in 1..8 |-> s[j]] = [j \in 1..8 |-> t[j]]
      BY <2>10
    <3> QED BY <3>1, <3>2
  <2> QED BY <2>1, <2>9, <2>11
<1>6. words = [k \in 1..Len(words) |-> words[k]]
  BY LenProperties
<1> QED BY <1>5, <1>6 DEF WordsAt

\* What lies one byte after another.
LEMMA ByteThenRest ==
  ASSUME NEW x \in Nat, NEW p \in Seq(Nat), NEW bytes \in Seq(Nat), NEW a \in Position,
         LiesAt(<<x>> \o p, bytes, a)
  PROVE  bytes[a] = x /\ LiesAt(p, bytes, a + 1) /\ a + 1 \in Position /\ a <= Len(bytes)
<1>1. <<x>> \in Seq(Nat) /\ Len(<<x>>) = 1 /\ <<x>>[1] = x
  OBVIOUS
<1>2. LiesAt(<<x>>, bytes, a) /\ LiesAt(p, bytes, a + 1) /\ a + 1 \in Position
  BY <1>1, PartsLie
<1>3. 1 \in 1..Len(<<x>>) /\ a + 1 - 1 = a
  BY <1>1 DEF Position
<1> QED BY <1>1, <1>2, <1>3, LenProperties DEF LiesAt, Position

\* The words of a run, with the word before them.
LEMMA RunOfWords ==
  ASSUME NEW words \in Seq(ByteWord), NEW i \in 1..Len(words), NEW n \in Nat, i + n <= Len(words)
  PROVE  /\ SubSeq(words, i, i + n) = <<words[i]>> \o SubSeq(words, i + 1, i + n)
         /\ SubSeq(words, i + 1, i + n) \in Seq(ByteWord)
         /\ Len(SubSeq(words, i + 1, i + n)) = n
         /\ \A k \in 1..n : SubSeq(words, i + 1, i + n)[k] = words[i + k]
<1>1. Len(words) \in Nat /\ \A k \in 1..Len(words) : words[k] \in ByteWord
  BY LenProperties, ElementOfSeq
<1>0. PICK m \in Int : m = i + n
  BY <1>1
<1>2. PICK r, s : m = i + n /\ r = SubSeq(words, i + 1, m) /\ s = SubSeq(words, i, m)
  BY <1>0
<1>3. r \in Seq(ByteWord) /\ Len(r) = n /\ \A k \in 1..n : r[k] = words[i + k]
  <2>1. \A k \in (i + 1)..m : words[k] \in ByteWord
    BY <1>1, <1>2
  <2>2. /\ r \in Seq(ByteWord) /\ Len(r) = IF i + 1 <= m THEN m - (i + 1) + 1 ELSE 0
        /\ \A k \in 1..(m - (i + 1) + 1) : r[k] = words[i + 1 + k - 1]
    BY <1>2, <2>1, SubSeqProperties
  <2> QED BY <1>2, <2>2
<1>4. s \in Seq(ByteWord) /\ Len(s) = n + 1 /\ \A k \in 1..(n + 1) : s[k] = words[i + k - 1]
  <2>1. \A k \in i..m : words[k] \in ByteWord
    BY <1>1, <1>2
  <2>2. /\ s \in Seq(ByteWord) /\ Len(s) = IF i <= m THEN m - i + 1 ELSE 0
        /\ \A k \in 1..(m - i + 1) : s[k] = words[i + k - 1]
    BY <1>2, <2>1, SubSeqProperties
  <2> QED BY <1>2, <2>2
<1>5. PICK x \in ByteWord : x = words[i]
  BY <1>1
<1>6. /\ <<x>> \o r \in Seq(ByteWord) /\ Len(<<x>> \o r) = n + 1
      /\ (<<x>> \o r)[1] = x /\ \A k \in 2..(n + 1) : (<<x>> \o r)[k] = r[k - 1]
  <2>1. <<x>> \in Seq(ByteWord) /\ Len(<<x>>) = 1 /\ <<x>>[1] = x
    OBVIOUS
  <2>2. /\ <<x>> \o r \in Seq(ByteWord) /\ Len(<<x>> \o r) = 1 + n
        /\ \A k \in 1..(1 + n) : (<<x>> \o r)[k] = IF k <= 1 THEN <<x>>[k] ELSE r[k - 1]
    BY <1>3, <2>1, ConcatProperties
  <2> QED BY <2>1, <2>2
<1>7. ASSUME NEW k \in 1..(n + 1) PROVE s[k] = (<<x>> \o r)[k]
  <2>1. CASE k = 1
    BY <1>4, <1>5, <1>6, <2>1
  <2>2. CASE k # 1
    <3>1. k \in 2..(n + 1) /\ k - 1 \in 1..n /\ i + (k - 1) = i + k - 1
      BY <2>2
    <3> QED BY <1>3, <1>4, <1>6, <3>1
  <2> QED BY <2>1, <2>2
<1>8. s = <<x>> \o r
  <2>1. PICK t \in Seq(ByteWord) : t = <<x>> \o r
    BY <1>6
  <2> QED BY <1>4, <1>6, <1>7, <2>1, SeqEqual
<1> QED BY <1>2, <1>3, <1>5, <1>8

\* A count of at most MaxRun fits the byte it is written to.
LEMMA CountFits ==
  ASSUME NEW n \in 0..MaxRun
  PROVE  CountByte(n) = n
<1>1. PICK m \in Nat : m = MaxRun /\ n <= m
  BY PackingAssumption
<1>2. n % (m + 1) = n
  BY <1>1, SMTT(30)
<1> QED BY <1>1, <1>2 DEF CountByte

\* A sequence of bytes is one of numbers.
LEMMA NumbersOf ==
  ASSUME NEW S, S \subseteq Nat, NEW s \in Seq(S)
  PROVE  s \in Seq(Nat)
<1>1. /\ Len(s) \in Nat /\ s \in [1..Len(s) -> S]
  BY LenProperties
<1>2. s \in [1..Len(s) -> Nat]
  BY <1>1
<1> QED BY <1>1, <1>2, SeqOfFunction

\* The three parts of a packet are where they should be, wherever the packet lies.
Splits(packet, x, p, q) ==
  /\ packet \in Seq(Nat) /\ Len(packet) = 1 + Len(p) + Len(q)
  /\ \A bytes \in Seq(Nat), a \in Position :
       LiesAt(packet, bytes, a) =>
         /\ bytes[a] = x /\ LiesAt(p, bytes, a + 1)
         /\ LiesAt(q, bytes, a + 1 + Len(p)) /\ a + 1 + Len(p) \in Position

LEMMA PacketParts ==
  ASSUME NEW x \in Nat, NEW p \in Seq(Nat), NEW q \in Seq(Nat),
         NEW packet, packet = <<x>> \o p \o q
  PROVE  Splits(packet, x, p, q)
<1>1. <<x>> \in Seq(Nat) /\ Len(<<x>>) = 1
  OBVIOUS
<1>2. PICK h \in Seq(Nat) : h = <<x>> \o p
  BY <1>1, ConcatProperties
<1>3. Len(h) = 1 + Len(p) /\ packet = h \o q
  BY <1>1, <1>2, ConcatProperties
<1>4. packet \in Seq(Nat) /\ Len(packet) = 1 + Len(p) + Len(q)
  BY <1>3, ConcatProperties
<1>5. ASSUME NEW bytes \in Seq(Nat), NEW a \in Position, LiesAt(packet, bytes, a)
      PROVE  /\ bytes[a] = x /\ LiesAt(p, bytes, a + 1)
             /\ LiesAt(q, bytes, a + 1 + Len(p)) /\ a + 1 + Len(p) \in Position
  <2>1. LiesAt(h, bytes, a) /\ LiesAt(q, bytes, a + Len(h)) /\ a + Len(h) \in Position
    <3>1. LiesAt(h \o q, bytes, a)
      BY <1>3, <1>5
    <3> QED BY <3>1, PartsLie
  <2>2. bytes[a] = x /\ LiesAt(p, bytes, a + 1)
    <3>1. LiesAt(<<x>> \o p, bytes, a)
      BY <1>2, <2>1
    <3> QED BY <3>1, ByteThenRest
  <2>3. a + Len(h) = a + 1 + Len(p)
    BY <1>3, LenProperties DEF Position
  <2> QED BY <2>1, <2>2, <2>3
<1> QED BY <1>4, <1>5 DEF Splits

\* Reading a packet gives the words it was packed from, and ends where it ends.
LEMMA PacketRead ==
  ASSUME NEW words \in Seq(ByteWord), NEW i \in 1..Len(words), NEW n, n = RunLength(words, i)
  PROVE  /\ Packet(words, i) \in Seq(Nat) /\ Len(Packet(words, i)) \in Nat \ {0}
         /\ \A bytes \in Seq(Nat), a \in Position :
              LiesAt(Packet(words, i), bytes, a) =>
                /\ PacketWords(bytes, a) = SubSeq(words, i, i + n)
                /\ NextPacket(bytes, a) = a + Len(Packet(words, i))
                /\ CountedWords(bytes, a) = n + 1
<1>1. /\ n \in 0..MaxRun /\ n \in Nat /\ i + n <= Len(words)
      /\ \A k \in 1..n : Continues(TagByte(words[i]), words[i + k])
      /\ CountByte(n) = n
  BY RunLengthIs, LenProperties, CountFits, PackingAssumption
<1>2. Len(words) \in Nat /\ \A k \in 1..Len(words) : words[k] \in ByteWord
  BY LenProperties, ElementOfSeq
<1>3. PICK w \in ByteWord : w = words[i]
  BY <1>2
<1>4. PICK tag \in Nat : tag = TagByte(w)
  <2>1. TagByte(w) \in 0..255
    BY TagOfWord
  <2> QED BY <2>1
<1>5. PICK p \in Seq(Nat) : p = NonzeroBytes(w)
  <2>1. PICK S : S = 1..255
    OBVIOUS
  <2>2. NonzeroBytes(w) \in Seq(S) /\ S \subseteq Nat
    BY <2>1, NonzeroBytesOfWord
  <2> QED BY <2>2, NumbersOf
<1>6. PICK r \in Seq(ByteWord) : r = SubSeq(words, i + 1, i + n)
  BY <1>1, RunOfWords
<1>7. /\ SubSeq(words, i, i + n) = <<w>> \o r /\ Len(r) = n
      /\ \A k \in 1..n : r[k] = words[i + k]
  BY <1>1, <1>3, <1>6, RunOfWords, ZenonT(60)
<1>8. Len(p) \in Nat
  BY LenProperties
<1>9. PICK packet : packet = Packet(words, i)
  OBVIOUS
<1> DEFINE IsRead == /\ packet \in Seq(Nat) /\ Len(packet) \in Nat \ {0}
                   /\ \A bytes \in Seq(Nat), a \in Position :
                        LiesAt(packet, bytes, a) =>
                          /\ PacketWords(bytes, a) = SubSeq(words, i, i + n)
                          /\ NextPacket(bytes, a) = a + Len(packet)
                          /\ CountedWords(bytes, a) = n + 1
<1>10. ASSUME tag = ZeroTag PROVE IsRead
  <2>1. PICK q \in Seq(Nat) : q = <<n>> /\ Len(q) = 1 /\ q[1] = n
    <3>1. <<n>> \in Seq(Nat) /\ Len(<<n>>) = 1 /\ <<n>>[1] = n
      BY <1>1
    <3> QED BY <3>1
  <2>2. packet = <<tag>> \o p \o q
    BY <1>1, <1>3, <1>4, <1>5, <1>9, <1>10, <2>1 DEF Packet, ZeroTag, SpanTag
  <2>3. Splits(packet, tag, p, q)
    BY <2>2, PacketParts
  <2>4. r = [k \in 1..n |-> ZeroWord]
    <3>1. ASSUME NEW k \in 1..n PROVE r[k] = ZeroWord
      <4>1. PICK x \in ByteWord : x = words[i + k]
        BY <1>1, <1>2
      <4>2. TagByte(x) = ZeroTag
        BY <1>1, <1>3, <1>4, <1>10, <4>1 DEF Continues, ZeroTag, SpanTag
      <4>3. \A j \in 1..8 : x[j] = 0
        BY <4>2, TagOfWord
      <4>4. x = [j \in 1..8 |-> 0]
        BY ONLY x \in ByteWord, <4>3 DEF ByteWord
      <4> QED BY ONLY <1>7, k \in 1..n, <4>1, <4>4 DEF ZeroWord
    <3>2. r = [k \in 1..n |-> r[k]]
      BY <1>7, LenProperties
    <3> QED BY <3>1, <3>2
  <2>5. Len(packet) = 1 + Len(p) + 1
    BY <2>1, <2>3 DEF Splits
  <2>6. ASSUME NEW bytes \in Seq(Nat), NEW a \in Position, LiesAt(packet, bytes, a)
        PROVE  /\ PacketWords(bytes, a) = SubSeq(words, i, i + n)
               /\ NextPacket(bytes, a) = a + Len(packet)
               /\ CountedWords(bytes, a) = n + 1
    <3>1. /\ bytes[a] = tag /\ LiesAt(p, bytes, a + 1)
          /\ LiesAt(q, bytes, a + 1 + Len(p)) /\ a + 1 + Len(p) \in Position
      BY <2>3, <2>6 DEF Splits
    <3>2. TaggedWord(bytes, a) = w /\ AfterTag(bytes, a) = a + 1 + Len(p)
      BY <1>4, <1>5, <3>1, TaggedWordRead
    <3>3. CountAfter(bytes, a) = n
      <4>1. PICK c \in Position : c = a + 1 + Len(p)
        BY <3>1
      <4>2. c + 1 <= Len(bytes) + 1 /\ bytes[c + 1 - 1] = n
        BY <2>1, <3>1, <4>1 DEF LiesAt
      <4>3. c <= Len(bytes) /\ bytes[c] = n
        BY <4>2, LenProperties DEF Position
      <4> QED BY <3>2, <4>1, <4>3, LenProperties DEF CountAfter, Position
    <3>4. PacketWords(bytes, a) = SubSeq(words, i, i + n)
      <4>1. PacketWords(bytes, a) =
              <<TaggedWord(bytes, a)>> \o [k \in 1..CountAfter(bytes, a) |-> ZeroWord]
        <5>1. PICK zeros : zeros = [k \in 1..CountAfter(bytes, a) |-> ZeroWord]
          OBVIOUS
        <5>2. bytes[a] = ZeroTag /\ ZeroTag # SpanTag
          BY <1>10, <3>1 DEF ZeroTag, SpanTag
        <5>3. PacketWords(bytes, a) = <<TaggedWord(bytes, a)>> \o zeros
          BY <5>1, <5>2, Zenon DEF PacketWords
        <5> QED BY <5>1, <5>3
      <4> QED BY <1>7, <2>4, <3>2, <3>3, <4>1
    <3>5. NextPacket(bytes, a) = a + 1 + Len(p) + 1
      BY <1>10, <3>1, <3>2 DEF NextPacket, ZeroTag, SpanTag
    <3>6. NextPacket(bytes, a) = a + Len(packet)
      BY <1>8, <2>5, <3>5 DEF Position
    <3>7. CountedWords(bytes, a) = n + 1
      BY <1>1, <1>10, <3>1, <3>3 DEF CountedWords
    <3> QED BY <3>4, <3>6, <3>7
  <2>7. packet \in Seq(Nat) /\ Len(packet) \in Nat \ {0}
    BY <1>8, <2>3, <2>5 DEF Splits
  <2> QED BY <2>6, <2>7
<1>11. ASSUME tag = SpanTag PROVE IsRead
  <2>1. PICK b \in Seq(Nat) : b = BytesOf(r) /\ Len(b) = 8 * n
    <3>1. PICK S : S = 0..255
      OBVIOUS
    <3>2. BytesOf(r) \in Seq(0..255) /\ Len(BytesOf(r)) = 8 * Len(r)
      BY BytesOfWords
    <3>3. BytesOf(r) \in Seq(S) /\ S \subseteq Nat
      BY <3>1, <3>2
    <3>4. BytesOf(r) \in Seq(Nat)
      BY <3>3, NumbersOf
    <3> QED BY <1>7, <3>2, <3>4
  <2>2. PICK q \in Seq(Nat) : q = <<n>> \o b /\ Len(q) = 1 + 8 * n
    <3>1. <<n>> \in Seq(Nat) /\ Len(<<n>>) = 1
      BY <1>1
    <3>2. PICK s \in Seq(Nat) : s = <<n>> /\ Len(s) = 1
      BY <3>1
    <3>3. s \o b \in Seq(Nat) /\ Len(s \o b) = Len(s) + Len(b)
      BY ConcatProperties
    <3> QED BY <2>1, <3>2, <3>3
  <2>3. packet = <<tag>> \o p \o q
    <3>1. TagByte(words[i]) = SpanTag /\ SpanTag # ZeroTag
      BY <1>3, <1>4, <1>11 DEF ZeroTag, SpanTag
    <3>2. Packet(words, i) = <<TagByte(words[i])>> \o NonzeroBytes(words[i])
              \o (<<CountByte(n)>> \o BytesOf(SubSeq(words, i + 1, i + n)))
      BY <3>1 DEF Packet
    <3> QED BY <1>1, <1>3, <1>4, <1>5, <1>6, <1>9, <2>1, <2>2, <3>2
  <2>4. Splits(packet, tag, p, q)
    BY <2>3, PacketParts
  <2>5. Len(packet) = 1 + Len(p) + (1 + 8 * n)
    BY <2>2, <2>4 DEF Splits
  <2>6. ASSUME NEW bytes \in Seq(Nat), NEW a \in Position, LiesAt(packet, bytes, a)
        PROVE  /\ PacketWords(bytes, a) = SubSeq(words, i, i + n)
               /\ NextPacket(bytes, a) = a + Len(packet)
               /\ CountedWords(bytes, a) = n + 1
    <3>1. /\ bytes[a] = tag /\ LiesAt(p, bytes, a + 1)
          /\ LiesAt(q, bytes, a + 1 + Len(p)) /\ a + 1 + Len(p) \in Position
      BY <2>4, <2>6 DEF Splits
    <3>2. TaggedWord(bytes, a) = w /\ AfterTag(bytes, a) = a + 1 + Len(p)
      BY <1>4, <1>5, <3>1, TaggedWordRead
    <3>3. PICK c \in Position : c = a + 1 + Len(p)
      BY <3>1
    <3>4. bytes[c] = n /\ LiesAt(b, bytes, c + 1) /\ c + 1 \in Position /\ c <= Len(bytes)
      <4>1. LiesAt(<<n>> \o b, bytes, c)
        BY <2>2, <3>1, <3>3
      <4> QED BY <1>1, <4>1, ByteThenRest
    <3>5. CountAfter(bytes, a) = n
      BY <3>2, <3>3, <3>4, LenProperties DEF CountAfter, Position
    <3>6. WordsAt(bytes, c + 1, n) = r
      BY <1>7, <2>1, <3>4, WordsRead
    <3>7. PacketWords(bytes, a) = SubSeq(words, i, i + n)
      <4>1. PacketWords(bytes, a) = <<TaggedWord(bytes, a)>>
                \o WordsAt(bytes, AfterTag(bytes, a) + 1, CountAfter(bytes, a))
        BY <1>11, <3>1 DEF PacketWords, ZeroTag, SpanTag
      <4> QED BY <1>7, <3>2, <3>3, <3>5, <3>6, <4>1
    <3>8. NextPacket(bytes, a) = a + 1 + Len(p) + 1 + 8 * n
      BY <1>11, <3>1, <3>2, <3>5 DEF NextPacket, ZeroTag, SpanTag
    <3>9. NextPacket(bytes, a) = a + Len(packet)
      <4>1. n \in Nat /\ a \in Nat
        BY <1>1 DEF Position
      <4> QED BY ONLY <4>1, <1>8, <2>5, <3>8
    <3>10. CountedWords(bytes, a) = n + 1
      BY <1>1, <1>11, <3>1, <3>5 DEF CountedWords
    <3> QED BY <3>7, <3>9, <3>10
  <2>7. packet \in Seq(Nat) /\ Len(packet) \in Nat \ {0}
    BY <1>1, <1>8, <2>4, <2>5 DEF Splits
  <2> QED BY <2>6, <2>7
<1>12. ASSUME tag \notin {ZeroTag, SpanTag} PROVE IsRead
  <2>1. n = 0
    <3>1. ~ Continues(TagByte(words[i]), words[i + 1])
      BY <1>3, <1>4, <1>12 DEF Continues
    <3> QED BY <1>1, <3>1
  <2>2. PICK q \in Seq(Nat) : q = <<>> /\ Len(q) = 0
    <3>1. <<>> \in Seq(Nat) /\ Len(<<>>) = 0
      OBVIOUS
    <3> QED BY <3>1
  <2>3. packet = <<tag>> \o p \o q
    BY <1>3, <1>4, <1>5, <1>9, <1>12, <2>2 DEF Packet
  <2>4. Splits(packet, tag, p, q)
    BY <2>3, PacketParts
  <2>5. Len(packet) = 1 + Len(p)
    BY <1>8, <2>2, <2>4 DEF Splits
  <2>6. r = <<>>
    BY <1>7, <2>1, EmptySeq
  <2>7. ASSUME NEW bytes \in Seq(Nat), NEW a \in Position, LiesAt(packet, bytes, a)
        PROVE  /\ PacketWords(bytes, a) = SubSeq(words, i, i + n)
               /\ NextPacket(bytes, a) = a + Len(packet)
               /\ CountedWords(bytes, a) = n + 1
    <3>1. bytes[a] = tag /\ LiesAt(p, bytes, a + 1)
      BY <2>4, <2>7 DEF Splits
    <3>2. TaggedWord(bytes, a) = w /\ AfterTag(bytes, a) = a + 1 + Len(p)
      BY <1>4, <1>5, <3>1, TaggedWordRead
    <3>3. PacketWords(bytes, a) = SubSeq(words, i, i + n)
      BY <1>7, <1>12, <2>6, <3>1, <3>2 DEF PacketWords
    <3>4. NextPacket(bytes, a) = a + 1 + Len(p)
      BY <1>12, <3>1, <3>2 DEF NextPacket
    <3>5. NextPacket(bytes, a) = a + Len(packet)
      BY <1>8, <2>5, <3>4 DEF Position
    <3>6. CountedWords(bytes, a) = n + 1
      BY <1>12, <2>1, <3>1 DEF CountedWords
    <3> QED BY <3>3, <3>5, <3>6
  <2>8. packet \in Seq(Nat) /\ Len(packet) \in Nat \ {0}
    BY <1>8, <2>4, <2>5 DEF Splits
  <2> QED BY <2>7, <2>8
<1>13. IsRead
  BY <1>4, <1>10, <1>11, <1>12
<1> QED BY <1>9, <1>13

-----------------------------------------------------------------------------
(* Whole streams.  A recursive definition that steps forward and ends past a   *)
(* last place n has the values its equations say.                              *)

\* f puts pieces together, from each place on, or adds up what they count.
Joins(f, n, P, N) == f = [i \in Position |-> IF i > n THEN <<>> ELSE P[i] \o f[N[i]]]
Counts(f, n, P, N) == f = [i \in Position |-> IF i > n THEN 0 ELSE P[i] + f[N[i]]]

\* Where every step goes forward, the pieces can be put together.
LEMMA PiecesExist ==
  ASSUME NEW n \in Nat, NEW P, NEW N, \A i \in 1..n : N[i] \in Nat /\ i < N[i]
  PROVE  \E f : Joins(f, n, P, N)
<1> DEFINE Value(f, i) == IF i > n THEN <<>> ELSE P[i] \o f[N[i]]
           Above(m) == \E f : /\ f = [i \in Position |-> f[i]]
                              /\ \A i \in Position : n - m < i => f[i] = Value(f, i)
           T == {m \in 0..n : ~ Above(m)}
<1>1. Above(0)
  <2>1. PICK f : f = [i \in Position |-> <<>>]
    OBVIOUS
  <2>2. f = [i \in Position |-> f[i]] /\ \A i \in Position : n - 0 < i => f[i] = Value(f, i)
    BY <2>1 DEF Position
  <2> QED BY <2>2
<1>2. ASSUME NEW m \in 0..n, m # 0, Above(m - 1) PROVE Above(m)
  <2>1. PICK f : /\ f = [i \in Position |-> f[i]]
                 /\ \A i \in Position : n - (m - 1) < i => f[i] = Value(f, i)
    BY <1>2
  <2>2. PICK k \in 1..n : k = n - (m - 1)
    BY <1>2
  <2>3. PICK g : g = [i \in Position |-> IF i = k THEN Value(f, k) ELSE f[i]]
    OBVIOUS
  <2>4. k \in Position /\ \A i \in Position : g[i] = IF i = k THEN Value(f, k) ELSE f[i]
    BY <2>3 DEF Position
  <2>5. g = [i \in Position |-> g[i]]
    BY <2>3
  <2>6. ASSUME NEW i \in Position, n - m < i PROVE g[i] = Value(g, i)
    <3>1. i = k \/ n - (m - 1) < i
      BY <2>2, <2>6 DEF Position
    <3>2. ASSUME i <= n PROVE g[N[i]] = f[N[i]]
      <4>1. N[i] \in Position /\ k < N[i]
        BY <2>2, <3>1, <3>2 DEF Position
      <4> QED BY <2>4, <4>1 DEF Position
    <3>3. Value(g, i) = Value(f, i)
      BY <3>2 DEF Position
    <3>4. CASE i = k
      BY <2>4, <3>3, <3>4
    <3>5. CASE i # k
      <4>1. g[i] = f[i] /\ f[i] = Value(f, i)
        BY <2>1, <2>4, <3>1, <3>5
      <4> QED BY <3>3, <4>1
    <3> QED BY <3>4, <3>5
  <2> QED BY <2>5, <2>6
<1>3. ASSUME T # {} PROVE FALSE
  <2>1. T \subseteq Nat
    OBVIOUS
  <2>2. PICK m \in T : \A k \in T : m <= k
    BY <1>3, <2>1, LeastNumber
  <2>3. m \in 0..n /\ ~ Above(m)
    OBVIOUS
  <2> HIDE DEF Above
  <2>4. m # 0
    BY <1>1, <2>3
  <2>5. m - 1 \in 0..n /\ m - 1 \notin T
    BY <2>2, <2>3, <2>4
  <2> QED BY <1>2, <2>3, <2>4, <2>5
<1>4. Above(n)
  <2> HIDE DEF Above
  <2> QED BY <1>3
<1>5. PICK f : /\ f = [i \in Position |-> f[i]]
               /\ \A i \in Position : n - n < i => f[i] = Value(f, i)
  BY <1>4
<1>6. \A i \in Position : f[i] = Value(f, i)
  <2>1. n - n = 0 /\ \A i \in Position : 0 < i
    BY DEF Position
  <2> HIDE DEF Value
  <2> QED BY <1>5, <2>1
<1>7. f = [i \in Position |-> Value(f, i)]
  BY <1>5, <1>6
<1> QED BY <1>7 DEF Joins

\* And so can what they count.
LEMMA CountsExist ==
  ASSUME NEW n \in Nat, NEW P, NEW N, \A i \in 1..n : N[i] \in Nat /\ i < N[i]
  PROVE  \E f : Counts(f, n, P, N)
<1> DEFINE Value(f, i) == IF i > n THEN 0 ELSE P[i] + f[N[i]]
           Above(m) == \E f : /\ f = [i \in Position |-> f[i]]
                              /\ \A i \in Position : n - m < i => f[i] = Value(f, i)
           T == {m \in 0..n : ~ Above(m)}
<1>1. Above(0)
  <2>1. PICK f : f = [i \in Position |-> 0]
    OBVIOUS
  <2>2. f = [i \in Position |-> f[i]] /\ \A i \in Position : n - 0 < i => f[i] = Value(f, i)
    BY <2>1 DEF Position
  <2> QED BY <2>2
<1>2. ASSUME NEW m \in 0..n, m # 0, Above(m - 1) PROVE Above(m)
  <2>1. PICK f : /\ f = [i \in Position |-> f[i]]
                 /\ \A i \in Position : n - (m - 1) < i => f[i] = Value(f, i)
    BY <1>2
  <2>2. PICK k \in 1..n : k = n - (m - 1)
    BY <1>2
  <2>3. PICK g : g = [i \in Position |-> IF i = k THEN Value(f, k) ELSE f[i]]
    OBVIOUS
  <2>4. k \in Position /\ \A i \in Position : g[i] = IF i = k THEN Value(f, k) ELSE f[i]
    BY <2>3 DEF Position
  <2>5. g = [i \in Position |-> g[i]]
    BY <2>3
  <2>6. ASSUME NEW i \in Position, n - m < i PROVE g[i] = Value(g, i)
    <3>1. i = k \/ n - (m - 1) < i
      BY <2>2, <2>6 DEF Position
    <3>2. ASSUME i <= n PROVE g[N[i]] = f[N[i]]
      <4>1. N[i] \in Position /\ k < N[i]
        BY <2>2, <3>1, <3>2 DEF Position
      <4> QED BY <2>4, <4>1 DEF Position
    <3>3. Value(g, i) = Value(f, i)
      BY <3>2 DEF Position
    <3>4. CASE i = k
      BY <2>4, <3>3, <3>4
    <3>5. CASE i # k
      <4>1. g[i] = f[i] /\ f[i] = Value(f, i)
        BY <2>1, <2>4, <3>1, <3>5
      <4> QED BY <3>3, <4>1
    <3> QED BY <3>4, <3>5
  <2> QED BY <2>5, <2>6
<1>3. ASSUME T # {} PROVE FALSE
  <2>1. T \subseteq Nat
    OBVIOUS
  <2>2. PICK m \in T : \A k \in T : m <= k
    BY <1>3, <2>1, LeastNumber
  <2>3. m \in 0..n /\ ~ Above(m)
    OBVIOUS
  <2> HIDE DEF Above
  <2>4. m # 0
    BY <1>1, <2>3
  <2>5. m - 1 \in 0..n /\ m - 1 \notin T
    BY <2>2, <2>3, <2>4
  <2> QED BY <1>2, <2>3, <2>4, <2>5
<1>4. Above(n)
  <2> HIDE DEF Above
  <2> QED BY <1>3
<1>5. PICK f : /\ f = [i \in Position |-> f[i]]
               /\ \A i \in Position : n - n < i => f[i] = Value(f, i)
  BY <1>4
<1>6. \A i \in Position : f[i] = Value(f, i)
  <2>1. n - n = 0 /\ \A i \in Position : 0 < i
    BY DEF Position
  <2> HIDE DEF Value
  <2> QED BY <1>5, <2>1
<1>7. f = [i \in Position |-> Value(f, i)]
  BY <1>5, <1>6
<1> QED BY <1>7 DEF Counts

\* The bytes for the words from the i-th on, the words read and the words
\* counted from byte i on.
PackFrom(words) ==
  CHOOSE f : f = [i \in Nat \ {0} |->
    IF i > Len(words) THEN <<>> ELSE Packet(words, i) \o f[i + RunLength(words, i) + 1]]
UnpackFrom(bytes) ==
  CHOOSE f : f = [i \in Nat \ {0} |->
    IF i > Len(bytes) THEN <<>> ELSE PacketWords(bytes, i) \o f[NextPacket(bytes, i)]]
CountFrom(bytes) ==
  CHOOSE f : f = [i \in Nat \ {0} |->
    IF i > Len(bytes) THEN 0 ELSE CountedWords(bytes, i) + f[NextPacket(bytes, i)]]

\* pack() works through the words, packet by packet.
LEMMA PackInSteps ==
  ASSUME NEW words \in Seq(ByteWord)
  PROVE  /\ Pack(words) = PackFrom(words)[1]
         /\ \A i \in Position : i > Len(words) => PackFrom(words)[i] = <<>>
         /\ \A i \in 1..Len(words) :
              PackFrom(words)[i] = Packet(words, i) \o PackFrom(words)[i + RunLength(words, i) + 1]
<1>1. Len(words) \in Nat
  BY LenProperties
<1>2. PICK P, N : /\ P = [i \in Position |-> Packet(words, i)]
                  /\ N = [i \in Position |-> i + RunLength(words, i) + 1]
  OBVIOUS
<1>3. \A i \in Position : P[i] = Packet(words, i) /\ N[i] = i + RunLength(words, i) + 1
  BY <1>2
<1>4. \A i \in 1..Len(words) : N[i] \in Nat /\ i < N[i]
  <2> SUFFICES ASSUME NEW i \in 1..Len(words) PROVE N[i] \in Nat /\ i < N[i]
    OBVIOUS
  <2>1. RunLength(words, i) \in 0..MaxRun /\ i \in Position
    BY <1>1, RunLengthIs DEF Position
  <2> QED BY <1>3, <2>1
<1>5. PICK n \in Nat : n = Len(words)
  BY <1>1
<1>6. PICK h : h = [i \in Position |-> IF i > n THEN <<>> ELSE P[i] \o h[N[i]]]
  <2>1. \A i \in 1..n : N[i] \in Nat /\ i < N[i]
    BY <1>4, <1>5
  <2>2. \E f : Joins(f, n, P, N)
    BY <2>1, PiecesExist
  <2> QED BY <2>2 DEF Joins
<1>7. h = [i \in Nat \ {0} |->
            IF i > Len(words) THEN <<>> ELSE Packet(words, i) \o h[i + RunLength(words, i) + 1]]
  BY <1>3, <1>5, <1>6 DEF Position
<1> DEFINE f == PackFrom(words)
<1>8. f = [i \in Nat \ {0} |->
            IF i > Len(words) THEN <<>> ELSE Packet(words, i) \o f[i + RunLength(words, i) + 1]]
  BY <1>7 DEF PackFrom
<1>9. Pack(words) = f[1]
  BY DEF Pack, PackFrom
<1> HIDE DEF f
<1>10. \A i \in Position :
         f[i] = IF i > Len(words) THEN <<>> ELSE Packet(words, i) \o f[i + RunLength(words, i) + 1]
  BY <1>8 DEF Position
<1>11. \A i \in 1..Len(words) : i \in Position /\ ~ (i > Len(words))
  BY <1>1 DEF Position
<1> QED BY <1>9, <1>10, <1>11 DEF f

\* A packet ends behind its tag.
LEMMA PacketEnds ==
  ASSUME NEW bytes \in Seq(Nat), NEW a \in 1..Len(bytes)
  PROVE  NextPacket(bytes, a) \in Nat /\ a < NextPacket(bytes, a)
<1>1. Len(bytes) \in Nat /\ \A i \in 1..Len(bytes) : bytes[i] \in Nat
  BY LenProperties, ElementOfSeq
<1>2. Following(bytes[a]) \in Nat
  BY SetBitsInSteps DEF Following
<1>3. AfterTag(bytes, a) \in Nat /\ a < AfterTag(bytes, a)
  BY <1>1, <1>2 DEF AfterTag
<1>4. CountAfter(bytes, a) \in Nat
  <2>1. CASE AfterTag(bytes, a) > Len(bytes)
    BY <2>1 DEF CountAfter
  <2>2. CASE ~ (AfterTag(bytes, a) > Len(bytes))
    <3>1. AfterTag(bytes, a) \in 1..Len(bytes)
      BY <1>1, <1>3, <2>2
    <3> QED BY <1>1, <2>2, <3>1 DEF CountAfter
  <2> QED BY <2>1, <2>2
<1> QED BY <1>1, <1>3, <1>4 DEF NextPacket, ZeroTag, SpanTag

\* unpack() and getUnpackedByteLength() work through the bytes, packet by packet.
LEMMA UnpackInSteps ==
  ASSUME NEW bytes \in Seq(Nat)
  PROVE  /\ Unpack(bytes) = UnpackFrom(bytes)[1] /\ UnpackedWords(bytes) = CountFrom(bytes)[1]
         /\ \A i \in Position : i > Len(bytes) =>
              UnpackFrom(bytes)[i] = <<>> /\ CountFrom(bytes)[i] = 0
         /\ \A i \in 1..Len(bytes) :
              /\ UnpackFrom(bytes)[i] = PacketWords(bytes, i) \o UnpackFrom(bytes)[NextPacket(bytes, i)]
              /\ CountFrom(bytes)[i] = CountedWords(bytes, i) + CountFrom(bytes)[NextPacket(bytes, i)]
<1>1. PICK n \in Nat : n = Len(bytes)
  BY LenProperties
<1>2. PICK P, N, C : /\ P = [i \in Position |-> PacketWords(bytes, i)]
                     /\ N = [i \in Position |-> NextPacket(bytes, i)]
                     /\ C = [i \in Position |-> CountedWords(bytes, i)]
  OBVIOUS
<1>3. \A i \in Position : /\ P[i] = PacketWords(bytes, i) /\ N[i] = NextPacket(bytes, i)
                          /\ C[i] = CountedWords(bytes, i)
  BY <1>2
<1>4. \A i \in 1..n : i \in Position /\ ~ (i > n) /\ N[i] \in Nat /\ i < N[i]
  <2> SUFFICES ASSUME NEW i \in 1..n PROVE i \in Position /\ ~ (i > n) /\ N[i] \in Nat /\ i < N[i]
    OBVIOUS
  <2>1. NextPacket(bytes, i) \in Nat /\ i < NextPacket(bytes, i)
    BY <1>1, PacketEnds
  <2>2. i \in Position /\ ~ (i > n)
    BY DEF Position
  <2> QED BY <1>3, <2>1, <2>2
<1>5. PICK g : g = [i \in Position |-> IF i > n THEN <<>> ELSE P[i] \o g[N[i]]]
  <2>1. \A i \in 1..n : N[i] \in Nat /\ i < N[i]
    BY <1>4
  <2>2. \E f : Joins(f, n, P, N)
    BY <2>1, PiecesExist
  <2> QED BY <2>2 DEF Joins
<1>6. PICK h : h = [i \in Position |-> IF i > n THEN 0 ELSE C[i] + h[N[i]]]
  <2>1. \A i \in 1..n : N[i] \in Nat /\ i < N[i]
    BY <1>4
  <2>2. \E f : Counts(f, n, C, N)
    BY <2>1, CountsExist
  <2> QED BY <2>2 DEF Counts
<1>7. g = [i \in Nat \ {0} |->
            IF i > Len(bytes) THEN <<>> ELSE PacketWords(bytes, i) \o g[NextPacket(bytes, i)]]
  BY <1>1, <1>3, <1>5 DEF Position
<1>8. h = [i \in Nat \ {0} |->
            IF i > Len(bytes) THEN 0 ELSE CountedWords(bytes, i) + h[NextPacket(bytes, i)]]
  BY <1>1, <1>3, <1>6 DEF Position
<1> DEFINE f == UnpackFrom(bytes)
           c == CountFrom(bytes)
<1>9. f = [i \in Nat \ {0} |->
            IF i > Len(bytes) THEN <<>> ELSE PacketWords(bytes, i) \o f[NextPacket(bytes, i)]]
  BY <1>7 DEF UnpackFrom
<1>10. c = [i \in Nat \ {0} |->
            IF i > Len(bytes) THEN 0 ELSE CountedWords(bytes, i) + c[NextPacket(bytes, i)]]
  BY <1>8 DEF CountFrom
<1>11. Unpack(bytes) = f[1] /\ UnpackedWords(bytes) = c[1]
  BY DEF Unpack, UnpackFrom, UnpackedWords, CountFrom
<1> HIDE DEF f, c
<1>12. \A i \in Position :
         f[i] = IF i > Len(bytes) THEN <<>> ELSE PacketWords(bytes, i) \o f[NextPacket(bytes, i)]
  BY <1>9 DEF Position
<1>13. \A i \in Position :
         c[i] = IF i > Len(bytes) THEN 0 ELSE CountedWords(bytes, i) + c[NextPacket(bytes, i)]
  BY <1>10 DEF Position
<1> QED BY <1>1, <1>4, <1>11, <1>12, <1>13 DEF f, c

\* What is packed is a sequence of numbers.
LEMMA PackedIsBytes ==
  ASSUME NEW words \in Seq(ByteWord)
  PROVE  \A i \in 1..(Len(words) + 1) : PackFrom(words)[i] \in Seq(Nat)
<1>1. PICK e \in Nat : e = Len(words)
  BY LenProperties
<1>2. PICK f : f = PackFrom(words)
  OBVIOUS
<1> DEFINE N == {m \in 0..e : f[e + 1 - m] \notin Seq(Nat)}
<1>3. ASSUME N # {} PROVE FALSE
  <2>1. N \subseteq Nat
    OBVIOUS
  <2>2. PICK m \in N : \A k \in N : m <= k
    BY <1>3, <2>1, LeastNumber
  <2>3. m \in 0..e /\ f[e + 1 - m] \notin Seq(Nat)
    OBVIOUS
  <2>4. PICK i \in 1..(e + 1) : i = e + 1 - m
    <3>1. e + 1 - m \in 1..(e + 1)
      BY <2>3
    <3> QED BY <3>1
  <2>5. CASE i = e + 1
    <3>1. f[i] = <<>>
      BY <1>1, <1>2, <2>5, PackInSteps DEF Position
    <3> QED BY <2>3, <2>4, <3>1
  <2>6. CASE i # e + 1
    <3>0. i \in 1..Len(words) /\ i \in Nat
      BY <1>1, <2>6
    <3>1. PICK n \in Nat : n = RunLength(words, i) /\ i + n <= e
      <4>1. RunLength(words, i) \in 0..MaxRun /\ i + RunLength(words, i) \in 1..Len(words)
        BY <3>0, RunLengthIs
      <4> QED BY <1>1, <4>1
    <3>2. f[i] = Packet(words, i) \o f[i + n + 1]
      BY <1>2, <3>0, <3>1, PackInSteps
    <3>3. Packet(words, i) \in Seq(Nat)
      BY <3>0, PacketRead
    <3>4. PICK k \in 0..e : k < m /\ e + 1 - k = i + n + 1
      <4>1. m - (n + 1) \in 0..e /\ m - (n + 1) < m /\ e + 1 - (m - (n + 1)) = i + n + 1
        BY <2>3, <2>4, <3>1
      <4> QED BY <4>1
    <3>5. k \notin N
      <4> HIDE DEF N
      <4> QED BY <2>2, <2>3, <3>4
    <3>6. f[i + n + 1] \in Seq(Nat)
      BY <3>4, <3>5
    <3> QED BY <2>3, <2>4, <3>2, <3>3, <3>6, ConcatProperties
  <2> QED BY <2>5, <2>6
<1>4. ASSUME NEW i \in 1..(e + 1) PROVE f[i] \in Seq(Nat)
  <2>1. PICK m \in 0..e : e + 1 - m = i
    <3>1. e + 1 - i \in 0..e /\ e + 1 - (e + 1 - i) = i
      OBVIOUS
    <3> QED BY <3>1
  <2> QED BY <1>3, <2>1
<1> QED BY <1>1, <1>2, <1>4

\* Words behind words.
LEMMA RestOfWords ==
  ASSUME NEW words \in Seq(ByteWord), NEW i \in 1..Len(words), NEW n \in Nat,
         i + n <= Len(words)
  PROVE  /\ SubSeq(words, i, i + n) \in Seq(ByteWord)
         /\ SubSeq(words, i + n + 1, Len(words)) \in Seq(ByteWord)
         /\ SubSeq(words, i, i + n) \o SubSeq(words, i + n + 1, Len(words))
              = SubSeq(words, i, Len(words))
<1>1. PICK e \in Nat : e = Len(words) /\ \A k \in 1..e : words[k] \in ByteWord
  BY LenProperties, ElementOfSeq
<1>2. PICK m \in Nat : m = i + n /\ i <= m /\ m <= e
  BY <1>1
<1>3. PICK x, y, z : x = SubSeq(words, i, m) /\ y = SubSeq(words, m + 1, e) /\ z = SubSeq(words, i, e)
  OBVIOUS
<1>4. x \in Seq(ByteWord) /\ Len(x) = m - i + 1 /\ \A k \in 1..(m - i + 1) : x[k] = words[i + k - 1]
  <2>1. \A k \in i..m : words[k] \in ByteWord
    BY <1>1, <1>2
  <2> QED BY <1>2, <1>3, <2>1, SubSeqProperties
<1>5. y \in Seq(ByteWord) /\ Len(y) = e - m /\ \A k \in 1..(e - m) : y[k] = words[m + k]
  <2>1. \A k \in (m + 1)..e : words[k] \in ByteWord
    BY <1>1, <1>2
  <2>2. /\ y \in Seq(ByteWord) /\ Len(y) = IF m + 1 <= e THEN e - (m + 1) + 1 ELSE 0
        /\ \A k \in 1..(e - (m + 1) + 1) : y[k] = words[m + 1 + k - 1]
    BY <1>2, <1>3, <2>1, SubSeqProperties
  <2> QED BY <1>2, <2>2
<1>6. z \in Seq(ByteWord) /\ Len(z) = e - i + 1 /\ \A k \in 1..(e - i + 1) : z[k] = words[i + k - 1]
  <2>1. \A k \in i..e : words[k] \in ByteWord
    BY <1>1
  <2>2. i <= e
    BY <1>2
  <2> QED BY <1>2, <1>3, <2>1, <2>2, SubSeqProperties
<1>7. PICK t \in Seq(ByteWord) : /\ t = x \o y /\ Len(t) = e - i + 1
                                 /\ \A k \in 1..(e - i + 1) :
                                      t[k] = IF k <= m - i + 1 THEN x[k] ELSE y[k - (m - i + 1)]
  <2>1. /\ x \o y \in Seq(ByteWord) /\ Len(x \o y) = Len(x) + Len(y)
        /\ \A k \in 1..(Len(x) + Len(y)) : (x \o y)[k] = IF k <= Len(x) THEN x[k] ELSE y[k - Len(x)]
    BY <1>4, <1>5, ConcatProperties
  <2>2. Len(x) + Len(y) = e - i + 1
    BY <1>2, <1>4, <1>5
  <2> QED BY <1>4, <2>1, <2>2
<1>8. \A k \in 1..(e - i + 1) : t[k] = z[k]
  <2> SUFFICES ASSUME NEW k \in 1..(e - i + 1) PROVE t[k] = z[k]
    OBVIOUS
  <2>1. CASE k <= m - i + 1
    <3>1. k \in 1..(m - i + 1)
      BY <1>2, <2>1
    <3> QED BY <1>4, <1>6, <1>7, <2>1, <3>1
  <2>2. CASE ~ (k <= m - i + 1)
    <3>1. PICK j \in 1..(e - m) : j = k - (m - i + 1) /\ m + j = i + k - 1
      BY <1>2, <2>2
    <3> QED BY <1>5, <1>6, <1>7, <2>2, <3>1
  <2> QED BY <2>1, <2>2
<1>9. t = z
  BY <1>6, <1>7, <1>8, SeqEqual
<1> QED BY <1>1, <1>2, <1>3, <1>4, <1>5, <1>7, <1>9

\* Concatenation, with the definition folded: it matters not which is done first.
Regroups(x, y, z) == x \o (y \o z) = (x \o y) \o z
LEMMA ConcatRegroups ==
  ASSUME NEW S, NEW x \in Seq(S), NEW y \in Seq(S), NEW z \in Seq(S)
  PROVE  Regroups(x, y, z)
BY ONLY x \in Seq(S), y \in Seq(S), z \in Seq(S), ConcatAssociative DEF Regroups

\* The bytes p lie before a place from which the rest and its count are read, and
\* from byte a on the words and this rest are.
Before(p, bytes, a, rest, count) ==
  /\ LiesAt(p, bytes, a)
  /\ rest = UnpackFrom(bytes)[a + Len(p)] /\ count = CountFrom(bytes)[a + Len(p)]
ReadsAs(words, bytes, a, rest, count) ==
  UnpackFrom(bytes)[a] = words \o rest /\ CountFrom(bytes)[a] = Len(words) + count

\* Packed words that lie in a stream are read back there, whatever comes behind
\* them, and are counted as many as they are.
LEMMA PackedIsRead ==
  ASSUME NEW words \in Seq(ByteWord), NEW bytes \in Seq(Nat), NEW a \in Position,
         NEW rest \in Seq(ByteWord), NEW count \in Nat, Before(Pack(words), bytes, a, rest, count)
  PROVE  ReadsAs(words, bytes, a, rest, count)
<1>1. PICK e \in Nat : e = Len(words)
  BY LenProperties
<1>2. PICK f, u, c : f = PackFrom(words) /\ u = UnpackFrom(bytes) /\ c = CountFrom(bytes)
  OBVIOUS
<1>3. /\ Pack(words) = f[1]
      /\ \A i \in 1..(e + 1) : f[i] \in Seq(Nat)
  BY <1>1, <1>2, PackInSteps, PackedIsBytes
<1>4. PICK z \in Nat : z = a + Len(Pack(words))
  <2>1. 1 \in 1..(e + 1)
    OBVIOUS
  <2>2. Len(f[1]) \in Nat
    BY <1>3, <2>1, LenProperties
  <2>3. a + Len(f[1]) \in Nat
    BY <2>2 DEF Position
  <2> QED BY <1>3, <2>3
<1>5. u[z] = rest /\ c[z] = count
  BY <1>2, <1>4 DEF Before
<1> DEFINE IsRead(i) == \A b \in Position :
                        LiesAt(f[i], bytes, b) /\ b + Len(f[i]) = z =>
                          /\ u[b] = SubSeq(words, i, e) \o rest
                          /\ c[b] = e + 1 - i + count
           N == {m \in 0..e : ~ IsRead(e + 1 - m)}
<1>6. ASSUME NEW i, i = e + 1 PROVE IsRead(i)
  <2>1. f[i] = <<>> /\ Len(<<>>) = 0
    BY <1>1, <1>2, <1>6, PackInSteps DEF Position
  <2>2. SubSeq(words, i, e) = <<>>
    BY <1>6, SubSeqEmpty
  <2>3. <<>> \o rest = rest
    BY ConcatEmptySeq
  <2>4. e + 1 - i + count = count
    BY <1>6
  <2>5. ASSUME NEW b \in Position, b + Len(f[i]) = z PROVE b = z
    BY <2>1, <2>5 DEF Position
  <2> QED BY <1>5, <2>2, <2>3, <2>4, <2>5
<1>7. ASSUME NEW i \in 1..e, NEW n, n = RunLength(words, i), IsRead(i + n + 1) PROVE IsRead(i)
  <2>0. i \in 1..Len(words)
    BY <1>1
  <2>1. n \in Nat /\ i + n <= e /\ i + n \in Nat /\ i + n + 1 \in 1..(e + 1)
    <3>1. n \in 0..MaxRun /\ i + n \in 1..e
      BY <1>1, <1>7, <2>0, RunLengthIs
    <3> QED BY <3>1
  <2>2. PICK p, q : p = Packet(words, i) /\ q = f[i + n + 1]
    OBVIOUS
  <2>3. p \in Seq(Nat) /\ q \in Seq(Nat) /\ Len(p) \in Nat \ {0} /\ f[i] = p \o q
    BY <1>1, <1>2, <1>3, <1>7, <2>0, <2>1, <2>2, PackInSteps, PacketRead
  <2>4. PICK r, s : r = SubSeq(words, i, i + n) /\ s = SubSeq(words, i + n + 1, e)
    OBVIOUS
  <2>5. r \in Seq(ByteWord) /\ s \in Seq(ByteWord) /\ r \o s = SubSeq(words, i, e)
    BY <1>1, <2>0, <2>1, <2>4, RestOfWords
  <2>6. ASSUME NEW b \in Position, LiesAt(f[i], bytes, b), b + Len(f[i]) = z
        PROVE  u[b] = SubSeq(words, i, e) \o rest /\ c[b] = e + 1 - i + count
    <3>1. LiesAt(p \o q, bytes, b)
      BY <2>3, <2>6
    <3>2. LiesAt(p, bytes, b) /\ LiesAt(q, bytes, b + Len(p)) /\ b + Len(p) \in Position
      BY <2>3, <3>1, PartsLie
    <3>3. PacketWords(bytes, b) = r /\ NextPacket(bytes, b) = b + Len(p) /\ CountedWords(bytes, b) = n + 1
      BY <1>7, <2>0, <2>2, <2>4, <3>2, PacketRead
    <3>4. b \in 1..Len(bytes)
      <4>1. b + Len(p) <= Len(bytes) + 1
        BY <3>2 DEF LiesAt
      <4>2. b \in Nat \ {0} /\ Len(bytes) \in Nat
        BY LenProperties DEF Position
      <4> QED BY ONLY <4>1, <4>2, <2>3
    <3>5. u[b] = r \o u[b + Len(p)] /\ c[b] = n + 1 + c[b + Len(p)]
      BY <1>2, <3>3, <3>4, UnpackInSteps
    <3>6. b + Len(p) + Len(q) = z
      <4>1. Len(p \o q) = Len(p) + Len(q) /\ Len(q) \in Nat
        BY <2>3, ConcatProperties, LenProperties
      <4> QED BY <2>3, <2>6, <4>1 DEF Position
    <3>7. u[b + Len(p)] = s \o rest /\ c[b + Len(p)] = e + 1 - (i + n + 1) + count
      BY <1>7, <2>2, <2>4, <3>2, <3>6
    <3>8. r \o (s \o rest) = (r \o s) \o rest
      <4>1. Regroups(r, s, rest)
        BY <2>5, ConcatRegroups
      <4> QED BY <4>1 DEF Regroups
    <3>9. n + 1 + (e + 1 - (i + n + 1) + count) = e + 1 - i + count
      BY ONLY <2>1, i \in 1..e, e \in Nat, count \in Nat
    <3> QED BY <2>5, <3>5, <3>7, <3>8, <3>9
  <2> QED BY <2>6
<1>8. ASSUME N # {} PROVE FALSE
  <2>1. N \subseteq Nat
    OBVIOUS
  <2>2. PICK m \in N : \A k \in N : m <= k
    BY <1>8, <2>1, LeastNumber
  <2>3. m \in 0..e /\ ~ IsRead(e + 1 - m)
    OBVIOUS
  <2> HIDE DEF IsRead
  <2>4. PICK i \in Nat : i = e + 1 - m
    <3>1. e + 1 - m \in Nat
      BY <2>3
    <3> QED BY <3>1
  <2>5. i # e + 1
    BY <1>6, <2>3, <2>4
  <2>6. i \in 1..e /\ i \in 1..Len(words)
    BY <1>1, <2>3, <2>4, <2>5
  <2>7. PICK n \in Nat : n = RunLength(words, i) /\ i + n <= e
    <3>1. RunLength(words, i) \in 0..MaxRun /\ i + RunLength(words, i) \in 1..Len(words)
      BY <2>6, RunLengthIs
    <3> QED BY <1>1, <3>1
  <2>8. PICK k \in 0..e : k < m /\ e + 1 - k = i + n + 1
    <3>1. PICK j \in 0..e : j = m /\ i = e + 1 - j /\ i + n <= e
      BY <2>3, <2>4, <2>7
    <3>2. j - (n + 1) \in 0..e /\ j - (n + 1) < j /\ e + 1 - (j - (n + 1)) = i + n + 1
      BY ONLY e \in Nat, n \in Nat, i \in Nat, j \in 0..e, <3>1
    <3> QED BY <3>1, <3>2
  <2>9. k \notin N
    <3> HIDE DEF N
    <3> QED BY <2>2, <2>3, <2>8
  <2>10. IsRead(i + n + 1)
    BY <2>8, <2>9
  <2> QED BY <1>7, <2>3, <2>4, <2>6, <2>7, <2>10
<1>9. IsRead(1)
  <2>1. e \in 0..e /\ e + 1 - e = 1
    OBVIOUS
  <2> HIDE DEF IsRead
  <2> QED BY <1>8, <2>1
<1>10. u[a] = SubSeq(words, 1, e) \o rest /\ c[a] = e + 1 - 1 + count
  BY <1>3, <1>4, <1>9 DEF Before
<1>11. SubSeq(words, 1, e) = words
  BY <1>1, SubSeqFull
<1>12. e + 1 - 1 + count = e + count
  OBVIOUS
<1> QED BY <1>1, <1>2, <1>10, <1>11, <1>12 DEF ReadsAs

\* Bytes lie in themselves.
LEMMA LiesInItself ==
  ASSUME NEW bytes \in Seq(Nat)
  PROVE  LiesAt(bytes, bytes, 1)
<1>1. Len(bytes) \in Nat
  BY LenProperties
<1>2. 1 + Len(bytes) <= Len(bytes) + 1 /\ \A j \in 1..Len(bytes) : 1 + j - 1 = j
  BY <1>1
<1> QED BY <1>2 DEF LiesAt

\* pack() loses nothing: unpack() of packed words are these words, whatever they
\* hold, and getUnpackedByteLength() has counted as many as are written to the
\* buffer it sized.
THEOREM UnpackReversesPack ==
  ASSUME NEW words \in Seq(ByteWord)
  PROVE  Unpack(Pack(words)) = words /\ UnpackedWords(Pack(words)) = Len(words)
<1>1. PICK bytes \in Seq(Nat) : bytes = Pack(words)
  <2>1. 1 \in 1..(Len(words) + 1)
    BY LenProperties
  <2> QED BY <2>1, PackInSteps, PackedIsBytes
<1>2. PICK rest \in Seq(ByteWord), z \in Position :
        z = 1 + Len(bytes) /\ rest = <<>> /\ rest = UnpackFrom(bytes)[z] /\ CountFrom(bytes)[z] = 0
  <2>1. 1 + Len(bytes) \in Position /\ 1 + Len(bytes) > Len(bytes)
    BY LenProperties DEF Position
  <2>2. UnpackFrom(bytes)[1 + Len(bytes)] = <<>> /\ CountFrom(bytes)[1 + Len(bytes)] = 0
    BY <2>1, UnpackInSteps
  <2>3. <<>> \in Seq(ByteWord)
    OBVIOUS
  <2> QED BY <2>1, <2>2, <2>3
<1>3. 1 \in Position /\ 0 \in Nat /\ LiesAt(Pack(words), bytes, 1)
  BY <1>1, LiesInItself DEF Position
<1>4. Before(Pack(words), bytes, 1, rest, 0)
  BY <1>1, <1>2, <1>3 DEF Before
<1>5. ReadsAs(words, bytes, 1, rest, 0)
  BY <1>3, <1>4, PackedIsRead
<1>6. words \o rest = words /\ Len(words) + 0 = Len(words)
  BY <1>2, ConcatEmptySeq, LenProperties
<1> QED BY <1>1, <1>5, <1>6, UnpackInSteps DEF ReadsAs

-----------------------------------------------------------------------------
(* A message: its segments one after the other.                               *)

\* g[k] is what the first k sequences are together.
Flattens(seqs, n, g) ==
  g = [k \in 1..n |-> IF k = 1 THEN seqs[k] ELSE g[k - 1] \o seqs[k]]

LEMMA FlatteningExists ==
  ASSUME NEW seqs, NEW n \in Nat
  PROVE  \E g : Flattens(seqs, n, g)
<1> DEFINE N == {m \in Nat : ~ \E g : Flattens(seqs, m, g)}
<1>1. ASSUME N # {} PROVE FALSE
  <2>1. PICK m \in N : \A k \in N : m <= k
    BY <1>1, LeastNumber
  <2>2. m \in Nat /\ ~ \E g : Flattens(seqs, m, g)
    OBVIOUS
  <2> HIDE DEF N
  <2>3. CASE m = 0
    <3>1. PICK g : g = [k \in 1..0 |-> seqs[k]]
      OBVIOUS
    <3>2. g = [k \in 1..0 |-> IF k = 1 THEN seqs[k] ELSE g[k - 1] \o seqs[k]]
      BY <3>1
    <3> QED BY <2>2, <2>3, <3>2 DEF Flattens
  <2>4. CASE m # 0
    <3>1. m - 1 \in Nat /\ m - 1 \notin N
      BY <2>1, <2>2, <2>4
    <3>2. PICK g : Flattens(seqs, m - 1, g)
      BY <3>1 DEF N
    <3>3. \A k \in 1..(m - 1) : g[k] = IF k = 1 THEN seqs[k] ELSE g[k - 1] \o seqs[k]
      BY <3>2 DEF Flattens
    <3>4. PICK h : h = [k \in 1..m |-> IF k = m
                                       THEN IF k = 1 THEN seqs[k] ELSE g[k - 1] \o seqs[k]
                                       ELSE g[k]]
      OBVIOUS
    <3>5. ASSUME NEW k \in 1..m PROVE h[k] = IF k = 1 THEN seqs[k] ELSE h[k - 1] \o seqs[k]
      <4>1. CASE k = m
        <5>1. k # 1 => k - 1 \in 1..m /\ k - 1 # m
          BY <2>2, <4>1
        <5> QED BY <3>4, <4>1, <5>1
      <4>2. CASE k # m
        <5>1. k \in 1..(m - 1) /\ (k # 1 => k - 1 \in 1..m /\ k - 1 # m)
          BY <2>2, <4>2
        <5> QED BY <3>3, <3>4, <4>2, <5>1
      <4> QED BY <4>1, <4>2
    <3>6. h = [k \in 1..m |-> IF k = 1 THEN seqs[k] ELSE h[k - 1] \o seqs[k]]
      BY <3>4, <3>5
    <3> QED BY <2>2, <3>6 DEF Flattens
  <2> QED BY <2>3, <2>4
<1> QED BY <1>1

\* FlattenSeq, one sequence at a time.
Grows(S, seqs, g) ==
  /\ g[1] = seqs[1] /\ FlattenSeq(seqs) = g[Len(seqs)]
  /\ \A k \in 1..Len(seqs) : g[k] \in Seq(S)
  /\ \A k \in 1..Len(seqs) : k # 1 => g[k] = g[k - 1] \o seqs[k]

LEMMA FlattenInSteps ==
  ASSUME NEW S, NEW seqs \in Seq(Seq(S)), seqs # <<>>
  PROVE  \E g : Grows(S, seqs, g)
<1>1. PICK n \in Nat \ {0} : n = Len(seqs)
  BY EmptySeq
<1>2. \A k \in 1..n : seqs[k] \in Seq(S)
  BY <1>1, ElementOfSeq
<1>3. \E h : Flattens(seqs, n, h)
  BY FlatteningExists
<1> DEFINE g == CHOOSE f : f = [k \in 1..Len(seqs) |->
                                  IF k = 1 THEN seqs[k] ELSE f[k - 1] \o seqs[k]]
<1>4. g = [k \in 1..Len(seqs) |-> IF k = 1 THEN seqs[k] ELSE g[k - 1] \o seqs[k]]
  BY <1>1, <1>3 DEF Flattens
<1>5. FlattenSeq(seqs) = g[Len(seqs)]
  BY <1>1 DEF FlattenSeq
<1> HIDE DEF g
<1>6. \A k \in 1..n : g[k] = IF k = 1 THEN seqs[k] ELSE g[k - 1] \o seqs[k]
  BY <1>1, <1>4
<1> DEFINE N == {k \in 1..n : g[k] \notin Seq(S)}
<1>7. ASSUME N # {} PROVE FALSE
  <2>1. N \subseteq Nat
    OBVIOUS
  <2>2. PICK m \in N : \A k \in N : m <= k
    BY <1>7, <2>1, LeastNumber
  <2>3. m \in 1..n /\ g[m] \notin Seq(S)
    OBVIOUS
  <2>4. m # 1
    BY <1>2, <1>6, <2>3
  <2>5. m - 1 \in 1..n /\ m - 1 < m
    BY <2>3, <2>4
  <2>6. m - 1 \notin N
    <3> HIDE DEF N
    <3> QED BY <2>2, <2>3, <2>5
  <2>7. g[m - 1] \in Seq(S) /\ g[m] = g[m - 1] \o seqs[m] /\ seqs[m] \in Seq(S)
    BY <1>2, <1>6, <2>3, <2>4, <2>5, <2>6
  <2> QED BY <2>3, <2>7, ConcatProperties
<1>8. \A k \in 1..n : g[k] \in Seq(S)
  BY <1>7
<1>9. 1 \in 1..n
  OBVIOUS
<1>10. Grows(S, seqs, g)
  BY <1>1, <1>5, <1>6, <1>8, <1>9 DEF Grows
<1> QED BY <1>10

\* pack() returns bytes.
LEMMA PackIsBytes ==
  ASSUME NEW words \in Seq(ByteWord)
  PROVE  Pack(words) \in Seq(Nat)
<1>1. 1 \in 1..(Len(words) + 1)
  BY LenProperties
<1> QED BY <1>1, PackInSteps, PackedIsBytes

\* Segments that were packed one by one are read as one stream.
LEMMA SegmentsAreRead ==
  ASSUME NEW segments \in Seq(Seq(ByteWord)), segments # <<>>,
         NEW packed, packed = [i \in 1..Len(segments) |-> Pack(segments[i])],
         NEW bytes \in Seq(Nat), NEW a \in Position, NEW rest \in Seq(ByteWord), NEW count \in Nat,
         Before(FlattenSeq(packed), bytes, a, rest, count)
  PROVE  ReadsAs(FlattenSeq(segments), bytes, a, rest, count)
<1>1. PICK n \in Nat \ {0} : n = Len(segments)
  BY EmptySeq
<1>2. \A k \in 1..n : segments[k] \in Seq(ByteWord) /\ packed[k] = Pack(segments[k])
                      /\ packed[k] \in Seq(Nat)
  BY <1>1, ElementOfSeq, PackIsBytes
<1>3. packed \in Seq(Seq(Nat)) /\ Len(packed) = n /\ packed # <<>>
  <2>1. packed \in [1..n -> Seq(Nat)]
    BY <1>1, <1>2
  <2>2. packed \in Seq(Seq(Nat)) /\ Len(packed) = n
    BY <2>1, SeqOfFunction
  <2> QED BY <2>2
<1>4. PICK g : /\ g[1] = packed[1] /\ FlattenSeq(packed) = g[n]
               /\ \A k \in 1..n : g[k] \in Seq(Nat)
               /\ \A k \in 1..n : k # 1 => g[k] = g[k - 1] \o packed[k]
  <2>1. \E g : Grows(Nat, packed, g)
    BY <1>3, FlattenInSteps
  <2> QED BY <1>3, <2>1 DEF Grows
<1>5. PICK h : /\ h[1] = segments[1] /\ FlattenSeq(segments) = h[n]
               /\ \A k \in 1..n : h[k] \in Seq(ByteWord)
               /\ \A k \in 1..n : k # 1 => h[k] = h[k - 1] \o segments[k]
  <2>1. \E h : Grows(ByteWord, segments, h)
    BY FlattenInSteps
  <2> QED BY <1>1, <2>1 DEF Grows
<1>6. PICK u, c : u = UnpackFrom(bytes) /\ c = CountFrom(bytes)
  OBVIOUS
<1> DEFINE IsRead(k) == \A b \in Position, r \in Seq(ByteWord), t \in Nat :
                        LiesAt(g[k], bytes, b) /\ r = u[b + Len(g[k])] /\ t = c[b + Len(g[k])] =>
                          u[b] = h[k] \o r /\ c[b] = Len(h[k]) + t
           N == {k \in 1..n : ~ IsRead(k)}
<1>7. IsRead(1)
  <2>1. 1 \in 1..n
    OBVIOUS
  <2>2. g[1] = Pack(segments[1]) /\ h[1] = segments[1] /\ segments[1] \in Seq(ByteWord)
    BY <1>2, <1>4, <1>5, <2>1
  <2>3. ASSUME NEW b \in Position, NEW r \in Seq(ByteWord), NEW t \in Nat,
               LiesAt(g[1], bytes, b), r = u[b + Len(g[1])], t = c[b + Len(g[1])]
        PROVE  u[b] = h[1] \o r /\ c[b] = Len(h[1]) + t
    <3>1. PICK w \in Seq(ByteWord) : w = segments[1]
      BY <2>2
    <3>2. Before(Pack(w), bytes, b, r, t)
      BY <1>6, <2>2, <2>3, <3>1 DEF Before
    <3>3. ReadsAs(w, bytes, b, r, t)
      BY <3>2, PackedIsRead
    <3> QED BY <1>6, <2>2, <3>1, <3>3 DEF ReadsAs
  <2> QED BY <2>3
<1>8. ASSUME NEW k \in 2..n, IsRead(k - 1) PROVE IsRead(k)
  <2>1. k \in 1..n /\ k - 1 \in 1..n /\ k # 1
    OBVIOUS
  <2>2. PICK p, q, x, y : p = g[k - 1] /\ q = packed[k] /\ x = h[k - 1] /\ y = segments[k]
    OBVIOUS
  <2>3. /\ p \in Seq(Nat) /\ q \in Seq(Nat) /\ x \in Seq(ByteWord) /\ y \in Seq(ByteWord)
        /\ g[k] = p \o q /\ h[k] = x \o y /\ q = Pack(y)
    BY <1>2, <1>4, <1>5, <2>1, <2>2
  <2>4. ASSUME NEW b \in Position, NEW r \in Seq(ByteWord), NEW t \in Nat,
               LiesAt(g[k], bytes, b), r = u[b + Len(g[k])], t = c[b + Len(g[k])]
        PROVE  u[b] = h[k] \o r /\ c[b] = Len(h[k]) + t
    <3>1. LiesAt(p \o q, bytes, b)
      BY <2>3, <2>4
    <3>2. LiesAt(p, bytes, b) /\ LiesAt(q, bytes, b + Len(p)) /\ b + Len(p) \in Position
      BY <2>3, <3>1, PartsLie
    <3>3. PICK m \in Position : m = b + Len(p)
      BY <3>2
    <3>4. m + Len(q) = b + Len(g[k])
      <4>1. Len(p \o q) = Len(p) + Len(q) /\ Len(p) \in Nat /\ Len(q) \in Nat
        BY <2>3, ConcatProperties, LenProperties
      <4>2. b \in Nat
        BY DEF Position
      <4> QED BY ONLY <2>3, <3>3, <4>1, <4>2
    <3>5. u[m] = y \o r /\ c[m] = Len(y) + t
      <4>0. PICK w \in Seq(ByteWord) : w = y
        BY <2>3
      <4>1. Before(Pack(w), bytes, m, r, t)
        BY <1>6, <2>3, <2>4, <3>2, <3>3, <3>4, <4>0 DEF Before
      <4>2. ReadsAs(w, bytes, m, r, t)
        BY <4>1, PackedIsRead
      <4> QED BY <1>6, <4>0, <4>2 DEF ReadsAs
    <3>6. y \o r \in Seq(ByteWord) /\ Len(y) + t \in Nat
      BY <2>3, ConcatProperties, LenProperties
    <3>7. u[b] = x \o (y \o r) /\ c[b] = Len(x) + (Len(y) + t)
      BY <1>8, <2>2, <3>2, <3>3, <3>5, <3>6
    <3>8. u[b] = h[k] \o r
      <4>1. Regroups(x, y, r)
        BY <2>3, ConcatRegroups
      <4> QED BY <2>3, <3>7, <4>1 DEF Regroups
    <3>9. Len(h[k]) = Len(x) + Len(y) /\ Len(x) \in Nat /\ Len(y) \in Nat
      BY <2>3, ConcatProperties, LenProperties
    <3> QED BY <3>7, <3>8, <3>9
  <2> QED BY <2>4
<1>9. ASSUME N # {} PROVE FALSE
  <2>1. N \subseteq Nat
    OBVIOUS
  <2>2. PICK m \in N : \A k \in N : m <= k
    BY <1>9, <2>1, LeastNumber
  <2>3. m \in 1..n /\ ~ IsRead(m)
    OBVIOUS
  <2> HIDE DEF IsRead
  <2>4. m # 1
    BY <1>7, <2>3
  <2>5. m - 1 \in 1..n /\ m - 1 < m /\ m \in 2..n
    BY <2>3, <2>4
  <2>6. m - 1 \notin N
    <3> HIDE DEF N
    <3> QED BY <2>2, <2>3, <2>5
  <2>7. IsRead(m - 1)
    BY <2>5, <2>6
  <2> QED BY <1>8, <2>3, <2>5, <2>7
<1>10. IsRead(n)
  <2>1. n \in 1..n
    OBVIOUS
  <2> HIDE DEF IsRead
  <2> QED BY <1>9, <2>1
<1> QED BY <1>4, <1>5, <1>6, <1>10 DEF Before, ReadsAs

\* The numbers that fit four bytes.
Fits(n) == n < 4294967296

\* A number that fits is what its four bytes say.
LEMMA BytesOfNumber ==
  ASSUME NEW n \in Nat
  PROVE  /\ Uint32(n) \in Seq(0..255) /\ Len(Uint32(n)) = 4
         /\ Fits(n) => Uint32At(Uint32(n), 1) = n
<1>1. PICK x, y, z : x = n \div 256 /\ y = x \div 256 /\ z = y \div 256
  OBVIOUS
<1>2. PICK a, b, c, d : a = n % 256 /\ b = x % 256 /\ c = y % 256 /\ d = z % 256
  OBVIOUS
<1>3. /\ x \in Nat /\ y \in Nat /\ z \in Nat
      /\ a \in 0..255 /\ b \in 0..255 /\ c \in 0..255 /\ d \in 0..255
      /\ n = 256 * x + a /\ x = 256 * y + b /\ y = 256 * z + c
  BY <1>1, <1>2
<1>4. n \div 65536 = y /\ n \div 16777216 = z
  BY <1>1, <1>3, SMT
<1>5. Uint32(n) = <<a, b, c, d>>
  BY <1>1, <1>2, <1>4, SMT DEF Uint32
<1>6. <<a, b, c, d>> \in Seq(0..255) /\ Len(<<a, b, c, d>>) = 4
  BY <1>3
<1>7. Uint32At(<<a, b, c, d>>, 1) = a + 256 * b + 65536 * c + 16777216 * d
  BY <1>3, SMT DEF Uint32At
<1>8. ASSUME Fits(n) PROVE d = z
  BY <1>2, <1>3, <1>8, SMT DEF Fits
<1>9. ASSUME Fits(n) PROVE Uint32At(<<a, b, c, d>>, 1) = n
  BY <1>3, <1>7, <1>8, <1>9, SMT
<1> QED BY <1>5, <1>6, <1>9

\* A word of two numbers.
LEMMA WordOfNumbers ==
  ASSUME NEW m \in Nat, NEW n \in Nat, NEW w, w = Uint32(m) \o Uint32(n)
  PROVE  /\ w \in ByteWord
         /\ Fits(m) => Uint32At(w, 1) = m
         /\ Fits(n) => Uint32At(w, 5) = n
<1>1. PICK S : S = 0..255
  OBVIOUS
<1>2. PICK x \in Seq(S), y \in Seq(S) : x = Uint32(m) /\ y = Uint32(n) /\ Len(x) = 4 /\ Len(y) = 4
  <2>1. /\ Uint32(m) \in Seq(S) /\ Len(Uint32(m)) = 4
        /\ Uint32(n) \in Seq(S) /\ Len(Uint32(n)) = 4
    BY <1>1, BytesOfNumber
  <2> QED BY <2>1
<1>3. /\ w \in Seq(S) /\ Len(w) = 8
      /\ \A i \in 1..8 : w[i] = IF i <= 4 THEN x[i] ELSE y[i - 4]
  <2>1. /\ x \o y \in Seq(S) /\ Len(x \o y) = Len(x) + Len(y)
        /\ \A i \in 1..(Len(x) + Len(y)) : (x \o y)[i] = IF i <= Len(x) THEN x[i] ELSE y[i - Len(x)]
    BY ConcatProperties
  <2> QED BY <1>2, <2>1
<1>4. w \in ByteWord
  <2>1. w \in [1..8 -> S]
    BY <1>3, LenProperties
  <2> QED BY <1>1, <2>1 DEF ByteWord
<1>5. /\ w[1] = x[1] /\ w[2] = x[2] /\ w[3] = x[3] /\ w[4] = x[4]
      /\ w[5] = y[1] /\ w[6] = y[2] /\ w[7] = y[3] /\ w[8] = y[4]
  <2>1. \A i \in 1..4 : w[i] = x[i] /\ w[4 + i] = y[i]
    <3> SUFFICES ASSUME NEW i \in 1..4 PROVE w[i] = x[i] /\ w[4 + i] = y[i]
      OBVIOUS
    <3>1. i \in 1..8 /\ 4 + i \in 1..8 /\ (4 + i) - 4 = i /\ i <= 4 /\ ~ (4 + i <= 4)
      OBVIOUS
    <3> QED BY <1>3, <3>1
  <2>2. 4 + 1 = 5 /\ 4 + 2 = 6 /\ 4 + 3 = 7 /\ 4 + 4 = 8
    OBVIOUS
  <2>3. 1 \in 1..4 /\ 2 \in 1..4 /\ 3 \in 1..4 /\ 4 \in 1..4
    OBVIOUS
  <2> QED BY <2>1, <2>2, <2>3
<1>6. Uint32At(w, 1) = Uint32At(x, 1) /\ Uint32At(w, 5) = Uint32At(y, 1)
  <2>1. /\ Uint32At(w, 1) = w[1] + 256 * w[2] + 65536 * w[3] + 16777216 * w[4]
        /\ Uint32At(w, 5) = w[5] + 256 * w[6] + 65536 * w[7] + 16777216 * w[8]
    BY SMT DEF Uint32At
  <2>2. /\ Uint32At(x, 1) = x[1] + 256 * x[2] + 65536 * x[3] + 16777216 * x[4]
        /\ Uint32At(y, 1) = y[1] + 256 * y[2] + 65536 * y[3] + 16777216 * y[4]
    BY SMT DEF Uint32At
  <2> QED BY <1>5, <2>1, <2>2, SMT
<1> QED BY <1>2, <1>4, <1>6, BytesOfNumber

\* The header holds the number of segments less one and their lengths, which
\* are read where getFramedSegments() looks for them.
LEMMA HeaderIs ==
  ASSUME NEW segments \in Seq(Seq(ByteWord)), segments # <<>>,
         NEW header, header = FrameHeader(segments)
  PROVE  /\ header \in Seq(ByteWord) /\ Len(header) = Len(segments) \div 2 + 1
         /\ Fits(Len(segments) - 1) => Uint32At(header[1], 1) = Len(segments) - 1
         /\ \A i \in 1..Len(segments) : Fits(Len(segments[i])) =>
              Len(segments[i]) = IF i % 2 = 0 THEN Uint32At(header[i \div 2 + 1], 1)
                                 ELSE Uint32At(header[i \div 2 + 1], 5)
<1>1. PICK n \in Nat \ {0} : n = Len(segments)
  BY EmptySeq
<1>2. PICK numbers : numbers = <<n - 1>> \o [i \in 1..n |-> Len(segments[i])]
  OBVIOUS
<1>3. /\ numbers \in Seq(Nat) /\ Len(numbers) = n + 1 /\ numbers[1] = n - 1
      /\ \A i \in 1..n : numbers[i + 1] = Len(segments[i])
  <2>1. \A i \in 1..n : Len(segments[i]) \in Nat
    BY <1>1, ElementOfSeq, LenProperties
  <2>2. PICK lengths : lengths = [i \in 1..n |-> Len(segments[i])]
    OBVIOUS
  <2>3. lengths \in Seq(Nat) /\ Len(lengths) = n /\ \A i \in 1..n : lengths[i] = Len(segments[i])
    <3>1. lengths \in [1..n -> Nat]
      BY <2>1, <2>2
    <3> QED BY <2>2, <3>1, SeqOfFunction
  <2>4. PICK first \in Seq(Nat) : first = <<n - 1>> /\ Len(first) = 1 /\ first[1] = n - 1
    <3>1. <<n - 1>> \in Seq(Nat) /\ Len(<<n - 1>>) = 1 /\ <<n - 1>>[1] = n - 1
      OBVIOUS
    <3> QED BY <3>1
  <2>5. numbers = first \o lengths
    BY <1>2, <2>2, <2>4
  <2>6. /\ numbers \in Seq(Nat) /\ Len(numbers) = Len(first) + Len(lengths)
        /\ \A i \in 1..(Len(first) + Len(lengths)) :
             numbers[i] = IF i <= Len(first) THEN first[i] ELSE lengths[i - Len(first)]
    BY <2>3, <2>4, <2>5, ConcatProperties
  <2>7. \A i \in 1..n : numbers[i + 1] = lengths[i]
    BY <2>3, <2>4, <2>6
  <2> QED BY <2>3, <2>4, <2>6, <2>7
<1>4. PICK padded : padded = IF Len(numbers) % 2 = 0 THEN numbers ELSE Append(numbers, 0)
  OBVIOUS
<1>5. PICK h \in Nat : h = n \div 2 + 1
  OBVIOUS
<1>6. padded \in Seq(Nat) /\ Len(padded) = 2 * h /\ \A i \in 1..(n + 1) : padded[i] = numbers[i]
  <2>1. CASE (n + 1) % 2 = 0
    <3>1. n + 1 = 2 * h
      BY <1>5, <2>1
    <3> QED BY <1>3, <1>4, <2>1, <3>1
  <2>2. CASE (n + 1) % 2 # 0
    <3>1. n + 2 = 2 * h
      BY <1>5, <2>2
    <3>2. padded = Append(numbers, 0)
      BY <1>3, <1>4, <2>2
    <3>3. padded \in Seq(Nat) /\ Len(padded) = n + 2 /\ \A i \in 1..(n + 1) : padded[i] = numbers[i]
      BY <1>3, <3>2, AppendProperties
    <3> QED BY <3>1, <3>3
  <2> QED BY <2>1, <2>2
<1>7. header = [i \in 1..h |-> Uint32(padded[2 * i - 1]) \o Uint32(padded[2 * i])]
  <2>1. Len(padded) \div 2 = h
    BY <1>6
  <2> QED BY <1>1, <1>2, <1>4, <2>1 DEF FrameHeader
<1>8. ASSUME NEW i \in 1..h
      PROVE  /\ header[i] \in ByteWord
             /\ Fits(padded[2 * i - 1]) => Uint32At(header[i], 1) = padded[2 * i - 1]
             /\ Fits(padded[2 * i]) => Uint32At(header[i], 5) = padded[2 * i]
  <2>1. 2 * i - 1 \in 1..Len(padded) /\ 2 * i \in 1..Len(padded)
    BY <1>6
  <2>2. PICK x \in Nat, y \in Nat : x = padded[2 * i - 1] /\ y = padded[2 * i]
    BY <1>6, <2>1, ElementOfSeq
  <2>3. header[i] = Uint32(x) \o Uint32(y)
    BY <1>7, <2>2
  <2>4. PICK w : w = header[i] /\ w = Uint32(x) \o Uint32(y)
    BY <2>3
  <2>5. w \in ByteWord /\ (Fits(x) => Uint32At(w, 1) = x) /\ (Fits(y) => Uint32At(w, 5) = y)
    BY <2>4, WordOfNumbers
  <2> QED BY <2>2, <2>4, <2>5
<1>9. header \in Seq(ByteWord) /\ Len(header) = h
  <2>1. header \in [1..h -> ByteWord]
    BY <1>7, <1>8
  <2> QED BY <2>1, SeqOfFunction
<1>10. ASSUME Fits(n - 1) PROVE Uint32At(header[1], 1) = n - 1
  <2>1. PICK i \in 1..h : i = 1 /\ 2 * i - 1 = 1 /\ 1 \in 1..(n + 1)
    <3>1. 1 \in 1..h /\ 2 * 1 - 1 = 1
      BY <1>5
    <3> QED BY <3>1
  <2>2. padded[1] = n - 1
    BY <1>3, <1>6, <1>10, <2>1
  <2>3. padded[2 * i - 1] = n - 1 /\ Fits(padded[2 * i - 1])
    BY <1>10, <2>1, <2>2
  <2>4. Uint32At(header[i], 1) = padded[2 * i - 1]
    BY <1>8, <2>3
  <2> QED BY <2>1, <2>3, <2>4
<1>11. ASSUME NEW i \in 1..n, Fits(Len(segments[i]))
       PROVE  Len(segments[i]) = IF i % 2 = 0 THEN Uint32At(header[i \div 2 + 1], 1)
                                 ELSE Uint32At(header[i \div 2 + 1], 5)
  <2>1. PICK j \in 1..h : j = i \div 2 + 1
    BY <1>5
  <2>2. i + 1 \in 1..(n + 1) /\ padded[i + 1] = Len(segments[i])
    <3>1. PICK k \in 1..(n + 1) : k = i + 1
      BY ONLY <1>1, i \in 1..n
    <3>2. k # 1 /\ k - 1 = i /\ k <= n + 1
      BY ONLY <1>1, <3>1, i \in 1..n
    <3> QED BY <1>3, <1>6, <3>1, <3>2
  <2>3. CASE i % 2 = 0
    <3>1. i + 1 = 2 * j - 1
      BY <2>1, <2>3
    <3> QED BY <1>8, <1>11, <2>1, <2>2, <2>3, <3>1
  <2>4. CASE i % 2 # 0
    <3>1. i + 1 = 2 * j
      BY <2>1, <2>4
    <3> QED BY <1>8, <1>11, <2>1, <2>2, <2>4, <3>1
  <2> QED BY <2>3, <2>4
<1> QED BY <1>1, <1>5, <1>9, <1>10, <1>11

\* toPackedArrayBuffer() packs the header and each segment on its own: what is
\* read are the words that toArrayBuffer() writes, and the space that is counted
\* is the space they take.
THEOREM PackedStreamIsStream ==
  ASSUME NEW segments \in Seq(Seq(ByteWord)), segments # <<>>
  PROVE  /\ Unpack(PackedStream(segments)) = Stream(segments)
         /\ UnpackedWords(PackedStream(segments)) = Len(Stream(segments))
<1>1. PICK n \in Nat \ {0} : n = Len(segments)
  BY EmptySeq
<1>2. PICK header \in Seq(ByteWord) : header = FrameHeader(segments)
  BY HeaderIs
<1>3. PICK packed : packed = [i \in 1..Len(segments) |-> Pack(segments[i])]
  OBVIOUS
<1>4. packed \in Seq(Seq(Nat)) /\ Len(packed) = n /\ packed # <<>>
  <2>1. \A k \in 1..n : Pack(segments[k]) \in Seq(Nat)
    BY <1>1, ElementOfSeq, PackIsBytes
  <2>2. packed \in [1..n -> Seq(Nat)]
    BY <1>1, <1>3, <2>1
  <2>3. packed \in Seq(Seq(Nat)) /\ Len(packed) = n
    BY <2>2, SeqOfFunction
  <2> QED BY <2>3
<1>5. PICK p \in Seq(Nat), q \in Seq(Nat) : p = Pack(header) /\ q = FlattenSeq(packed)
  <2>1. \E g : Grows(Nat, packed, g)
    BY <1>4, FlattenInSteps
  <2>2. n \in 1..n
    OBVIOUS
  <2>3. FlattenSeq(packed) \in Seq(Nat)
    BY <1>4, <2>1, <2>2 DEF Grows
  <2> QED BY <2>3, PackIsBytes
<1>6. PICK flat \in Seq(ByteWord) : flat = FlattenSeq(segments)
  <2>1. \E h : Grows(ByteWord, segments, h)
    BY FlattenInSteps
  <2>2. n \in 1..n
    OBVIOUS
  <2> QED BY <1>1, <2>1, <2>2 DEF Grows
<1>7. PICK bytes \in Seq(Nat) : bytes = p \o q
  BY ConcatProperties
<1>8. PackedStream(segments) = bytes /\ Stream(segments) = header \o flat
  BY <1>2, <1>3, <1>5, <1>6, <1>7 DEF PackedStream, Stream
<1>9. /\ Len(bytes) = Len(p) + Len(q)
      /\ Len(p) \in Nat /\ Len(q) \in Nat /\ Len(header) \in Nat /\ Len(flat) \in Nat
  BY <1>7, ConcatProperties, LenProperties
<1>10. LiesAt(p, bytes, 1) /\ LiesAt(q, bytes, 1 + Len(p)) /\ 1 \in Position
  <2>1. 1 \in Position
    BY DEF Position
  <2>2. LiesAt(p \o q, bytes, 1)
    BY <1>7, LiesInItself
  <2> QED BY <2>1, <2>2, PartsLie
<1>11. PICK m \in Position, z \in Position : m = 1 + Len(p) /\ z = m + Len(q) /\ z > Len(bytes)
  <2>1. 1 + Len(p) \in Position /\ (1 + Len(p)) + Len(q) \in Position
        /\ (1 + Len(p)) + Len(q) > Len(bytes)
    BY <1>9 DEF Position
  <2> QED BY <2>1
<1>12. PICK rest \in Seq(ByteWord) : rest = <<>> /\ rest = UnpackFrom(bytes)[z] /\ 0 = CountFrom(bytes)[z]
  <2>1. UnpackFrom(bytes)[z] = <<>> /\ CountFrom(bytes)[z] = 0
    BY <1>11, UnpackInSteps
  <2>2. <<>> \in Seq(ByteWord)
    OBVIOUS
  <2> QED BY <2>1, <2>2
<1>13. ReadsAs(flat, bytes, m, rest, 0)
  <2>1. Before(FlattenSeq(packed), bytes, m, rest, 0)
    BY <1>5, <1>10, <1>11, <1>12 DEF Before
  <2>2. 0 \in Nat
    OBVIOUS
  <2> QED BY <1>3, <1>6, <2>1, <2>2, SegmentsAreRead
<1>14. UnpackFrom(bytes)[m] = flat /\ CountFrom(bytes)[m] = Len(flat)
  BY <1>9, <1>12, <1>13, ConcatEmptySeq DEF ReadsAs
<1>15. ReadsAs(header, bytes, 1, flat, Len(flat))
  <2>1. Before(Pack(header), bytes, 1, flat, Len(flat))
    BY <1>5, <1>10, <1>11, <1>14 DEF Before
  <2> QED BY <1>9, <1>10, <2>1, PackedIsRead
<1>16. Len(header \o flat) = Len(header) + Len(flat)
  BY ConcatProperties
<1> QED BY <1>8, <1>15, <1>16, UnpackInSteps DEF ReadsAs

\* How long the first k sequences are together.
LengthOf(seqs, k) == SumOf([j \in 1..k |-> Len(seqs[j])])

LEMMA LengthInSteps ==
  ASSUME NEW S, NEW seqs \in Seq(Seq(S))
  PROVE  /\ LengthOf(seqs, 0) = 0
         /\ \A k \in 0..Len(seqs) : LengthOf(seqs, k) \in Nat
         /\ \A k \in 1..Len(seqs) : LengthOf(seqs, k) = LengthOf(seqs, k - 1) + Len(seqs[k])
<1>1. PICK n \in Nat : n = Len(seqs)
  BY LenProperties
<1>2. \A k \in 1..n : Len(seqs[k]) \in Nat
  BY <1>1, ElementOfSeq, LenProperties
<1> DEFINE w(k) == [j \in 1..k |-> Len(seqs[j])]
<1>3. ASSUME NEW k \in 0..n
      PROVE  w(k) \in Seq(Nat) /\ Len(w(k)) = k /\ \A j \in 1..k : w(k)[j] = Len(seqs[j])
  <2>1. w(k) \in [1..k -> Nat]
    BY <1>2
  <2>2. k \in Nat
    OBVIOUS
  <2>3. \A j \in 1..k : w(k)[j] = Len(seqs[j])
    OBVIOUS
  <2>4. PICK s : s = w(k)
    OBVIOUS
  <2>5. s \in Seq(Nat) /\ Len(s) = k
    <3>1. s \in [1..k -> Nat]
      BY <2>1, <2>4
    <3> HIDE DEF w
    <3> QED BY <2>2, <3>1, SeqOfFunction
  <2> QED BY <2>3, <2>4, <2>5
<1>4. \A k : LengthOf(seqs, k) = SumOf(w(k))
  BY DEF LengthOf
<1>5. LengthOf(seqs, 0) = 0
  <2>1. w(0) = <<>>
    OBVIOUS
  <2> QED BY <1>4, <2>1, SumOfEmpty
<1> HIDE DEF w
<1>6. \A k \in 0..n : LengthOf(seqs, k) \in Nat
  BY <1>3, <1>4, SumOfBounds
<1>7. ASSUME NEW k \in 1..n PROVE LengthOf(seqs, k) = LengthOf(seqs, k - 1) + Len(seqs[k])
  <2>1. k \in 0..n /\ k - 1 \in 0..n /\ k = (k - 1) + 1
    OBVIOUS
  <2>2. PICK u \in Seq(Nat), v \in Seq(Nat) :
          /\ u = w(k) /\ v = w(k - 1) /\ Len(u) = k /\ Len(v) = k - 1
          /\ \A j \in 1..k : u[j] = Len(seqs[j])
          /\ \A j \in 1..(k - 1) : v[j] = Len(seqs[j])
    BY <1>3, <2>1
  <2>3. Len(u) = Len(v) + 1 /\ \A j \in 1..Len(v) : u[j] = v[j]
    <3>1. \A j \in 1..(k - 1) : j \in 1..k
      OBVIOUS
    <3>2. \A j \in 1..(k - 1) : u[j] = v[j]
      BY <2>2, <3>1
    <3>3. Len(v) = k - 1 /\ Len(u) = Len(v) + 1
      BY <2>1, <2>2
    <3> QED BY <3>2, <3>3
  <2>4. SumOf(u) = SumOf(v) + u[Len(u)]
    BY <2>3, SumOfExtended
  <2>5. u[Len(u)] = Len(seqs[k])
    <3>1. k \in 1..k
      OBVIOUS
    <3> QED BY <2>2, <3>1
  <2> QED BY <1>4, <2>2, <2>4, <2>5
<1> QED BY <1>1, <1>5, <1>6, <1>7

\* Each sequence lies behind those before it.
LEMMA PlacesInFlat ==
  ASSUME NEW S, NEW seqs \in Seq(Seq(S)), seqs # <<>>
  PROVE  /\ FlattenSeq(seqs) \in Seq(S) /\ Len(FlattenSeq(seqs)) = LengthOf(seqs, Len(seqs))
         /\ \A i \in 1..Len(seqs) :
              /\ LengthOf(seqs, i) <= Len(FlattenSeq(seqs))
              /\ \A j \in 1..Len(seqs[i]) :
                   FlattenSeq(seqs)[LengthOf(seqs, i - 1) + j] = seqs[i][j]
<1>1. PICK n \in Nat \ {0} : n = Len(seqs)
  BY EmptySeq
<1>2. PICK g : Grows(S, seqs, g)
  BY FlattenInSteps
<1>3. PICK l : l = [k \in 0..n |-> LengthOf(seqs, k)]
  OBVIOUS
<1>4. /\ l[0] = 0 /\ \A k \in 0..n : l[k] \in Nat /\ l[k] = LengthOf(seqs, k)
      /\ \A k \in 1..n : l[k] = l[k - 1] + Len(seqs[k])
  <2>1. 0 \in 0..n /\ \A k \in 1..n : k \in 0..n /\ k - 1 \in 0..n
    OBVIOUS
  <2>2. /\ LengthOf(seqs, 0) = 0
        /\ \A k \in 0..n : LengthOf(seqs, k) \in Nat
        /\ \A k \in 1..n : LengthOf(seqs, k) = LengthOf(seqs, k - 1) + Len(seqs[k])
    BY <1>1, LengthInSteps
  <2> QED BY <1>3, <2>1, <2>2
<1>5. \A k \in 1..n : seqs[k] \in Seq(S) /\ Len(seqs[k]) \in Nat
  BY <1>1, ElementOfSeq, LenProperties
<1> DEFINE Placed(k) == /\ Len(g[k]) = l[k]
                        /\ \A i \in 1..k : /\ l[i] <= l[k]
                                           /\ \A j \in 1..Len(seqs[i]) :
                                                g[k][l[i - 1] + j] = seqs[i][j]
           N == {k \in 1..n : ~ Placed(k)}
<1>6. Placed(1)
  <2>1. 1 \in 1..n /\ 1 - 1 = 0
    OBVIOUS
  <2>2. g[1] = seqs[1] /\ l[1] = Len(seqs[1])
    BY <1>2, <1>4, <1>5, <2>1 DEF Grows
  <2>3. \A i \in 1..1 : i = 1
    OBVIOUS
  <2>4. \A j \in 1..Len(seqs[1]) : l[0] + j = j
    BY <1>4, <1>5, <2>1
  <2> QED BY <1>4, <2>1, <2>2, <2>3, <2>4
<1>7. ASSUME NEW k \in 2..n, Placed(k - 1) PROVE Placed(k)
  <2>1. k \in 1..n /\ k - 1 \in 1..n /\ k # 1 /\ k \in 0..n /\ k - 1 \in 0..n
    OBVIOUS
  <2>2. PICK x \in Seq(S), y \in Seq(S) : x = g[k - 1] /\ y = seqs[k] /\ g[k] = x \o y
    BY <1>1, <1>2, <1>5, <2>1 DEF Grows
  <2>3. /\ Len(g[k]) = Len(x) + Len(y) /\ Len(x) \in Nat /\ Len(y) \in Nat
        /\ \A m \in 1..(Len(x) + Len(y)) : g[k][m] = IF m <= Len(x) THEN x[m] ELSE y[m - Len(x)]
    <3>1. /\ Len(x \o y) = Len(x) + Len(y)
          /\ \A m \in 1..(Len(x) + Len(y)) :
               (x \o y)[m] = IF m <= Len(x) THEN x[m] ELSE y[m - Len(x)]
      BY ConcatProperties
    <3>2. Len(x) \in Nat /\ Len(y) \in Nat
      BY LenProperties
    <3>3. PICK t : t = x \o y /\ t = g[k]
      BY <2>2
    <3> QED BY <3>1, <3>2, <3>3
  <2>4. Len(x) = l[k - 1] /\ l[k] = l[k - 1] + Len(y) /\ l[k] \in Nat /\ l[k - 1] \in Nat
    BY <1>4, <1>7, <2>1, <2>2
  <2>5. Len(g[k]) = l[k] /\ l[k - 1] <= l[k]
    BY <2>3, <2>4
  <2>6. ASSUME NEW i \in 1..k
        PROVE  l[i] <= l[k] /\ \A j \in 1..Len(seqs[i]) : g[k][l[i - 1] + j] = seqs[i][j]
    <3>0. i \in 1..n /\ i \in 0..n /\ i - 1 \in 0..n
      OBVIOUS
    <3>1. l[i] = l[i - 1] + Len(seqs[i]) /\ l[i] \in Nat /\ l[i - 1] \in Nat /\ Len(seqs[i]) \in Nat
      BY <1>4, <1>5, <3>0
    <3>2. CASE i = k
      <4>1. ASSUME NEW j \in 1..Len(y) PROVE g[k][l[k - 1] + j] = y[j]
        <5>1. l[k - 1] + j \in 1..(Len(x) + Len(y)) /\ ~ (l[k - 1] + j <= Len(x))
              /\ (l[k - 1] + j) - Len(x) = j
          BY <2>3, <2>4, SMTT(60)
        <5> QED BY <2>3, <5>1
      <4>2. l[k] <= l[k]
        BY <2>4
      <4> QED BY <2>2, <3>2, <4>1, <4>2
    <3>3. CASE i # k
      <4>1. i \in 1..(k - 1)
        BY <3>3
      <4>2. l[i] <= l[k - 1] /\ \A j \in 1..Len(seqs[i]) : x[l[i - 1] + j] = seqs[i][j]
        BY <1>7, <2>2, <4>1
      <4>3. ASSUME NEW j \in 1..Len(seqs[i]) PROVE g[k][l[i - 1] + j] = seqs[i][j]
        <5>1. PICK m \in Nat : m = l[i - 1] + j
          BY <3>1
        <5>2. m \in 1..(Len(x) + Len(y)) /\ m <= Len(x)
          <6>1. m <= l[i] /\ 1 <= m
            BY ONLY <3>1, <5>1, j \in 1..Len(seqs[i])
          <6>2. m <= Len(x)
            BY ONLY <2>4, <3>1, <4>2, <5>1, <6>1, SMTT(60)
          <6> QED BY <2>3, <6>1, <6>2
        <5> QED BY <2>3, <4>2, <5>1, <5>2
      <4>4. l[i] <= l[k]
        BY <2>4, <2>5, <3>1, <4>2
      <4> QED BY <4>3, <4>4
    <3> QED BY <3>2, <3>3
  <2> QED BY <2>5, <2>6
<1>8. ASSUME N # {} PROVE FALSE
  <2>1. N \subseteq Nat
    OBVIOUS
  <2>2. PICK m \in N : \A k \in N : m <= k
    BY <1>8, <2>1, LeastNumber
  <2>3. m \in 1..n /\ ~ Placed(m)
    OBVIOUS
  <2> HIDE DEF Placed
  <2>4. m # 1
    BY <1>6, <2>3
  <2>5. m - 1 \in 1..n /\ m - 1 < m /\ m \in 2..n
    BY <2>3, <2>4
  <2>6. m - 1 \notin N
    <3> HIDE DEF N
    <3> QED BY <2>2, <2>3, <2>5
  <2>7. Placed(m - 1)
    BY <2>5, <2>6
  <2> QED BY <1>7, <2>3, <2>5, <2>7
<1>9. n \in 1..n /\ Placed(n)
  <2>1. n \in 1..n
    OBVIOUS
  <2> HIDE DEF Placed
  <2> QED BY <1>8, <2>1
<1>10. FlattenSeq(seqs) = g[n] /\ g[n] \in Seq(S)
  BY <1>1, <1>2, <1>9 DEF Grows
<1>11. \A i \in 1..n : i \in 0..n /\ i - 1 \in 0..n
  OBVIOUS
<1> QED BY <1>1, <1>4, <1>9, <1>10, <1>11, ZenonT(60)

\* getFramedSegments() finds in a stream the segments it was written from, where
\* their number is accepted and their lengths fit the header.
THEOREM FramedSegmentsOfStream ==
  ASSUME NEW segments \in Seq(Seq(ByteWord)), segments # <<>>,
         Len(segments) <= MaxStreamSegments, \A i \in 1..Len(segments) : Fits(Len(segments[i]))
  PROVE  FramedSegments(Stream(segments)) = segments
<1>1. PICK n \in Nat \ {0} : n = Len(segments) /\ n <= 512
  BY EmptySeq DEF MaxStreamSegments
<1>2. PICK header \in Seq(ByteWord) : header = FrameHeader(segments)
  BY HeaderIs
<1>3. PICK flat \in Seq(ByteWord) : flat = FlattenSeq(segments)
  BY PlacesInFlat
<1>4. PICK words \in Seq(ByteWord) : words = header \o flat /\ words = Stream(segments)
  BY <1>2, <1>3, ConcatProperties DEF Stream
<1>5. PICK h \in Nat : h = n \div 2 + 1 /\ h = Len(header)
  BY <1>1, <1>2, HeaderIs
<1>6. /\ Len(words) = h + Len(flat) /\ Len(flat) \in Nat
      /\ \A k \in 1..h : words[k] = header[k]
      /\ \A k \in 1..Len(flat) : words[h + k] = flat[k]
  <2>1. /\ Len(header \o flat) = Len(header) + Len(flat)
        /\ \A k \in 1..(Len(header) + Len(flat)) :
             (header \o flat)[k] = IF k <= Len(header) THEN header[k] ELSE flat[k - Len(header)]
    BY ConcatProperties
  <2>2. Len(flat) \in Nat
    BY LenProperties
  <2>3. \A k \in 1..(h + Len(flat)) : words[k] = IF k <= h THEN header[k] ELSE flat[k - h]
    BY <1>4, <1>5, <2>1
  <2>4. ASSUME NEW k \in 1..Len(flat) PROVE words[h + k] = flat[k]
    <3>1. h + k \in 1..(h + Len(flat)) /\ ~ (h + k <= h) /\ (h + k) - h = k
      BY <2>2
    <3> QED BY <2>3, <3>1
  <2>5. ASSUME NEW k \in 1..h PROVE words[k] = header[k]
    <3>1. k \in 1..(h + Len(flat)) /\ k <= h
      BY <2>2
    <3> QED BY <2>3, <3>1
  <2> QED BY <1>4, <1>5, <2>1, <2>2, <2>4, <2>5
<1> DEFINE count == Uint32At(words[1], 1) + 1
           length(i) == IF i % 2 = 0 THEN Uint32At(words[i \div 2 + 1], 1)
                        ELSE Uint32At(words[i \div 2 + 1], 5)
           start(i) == count \div 2 + 1 + SumOf([j \in 1..(i - 1) |-> length(j)])
<1>7. count = n
  <2>1. Fits(n - 1)
    BY <1>1, SMT DEF Fits
  <2>2. Uint32At(header[1], 1) = n - 1
    BY <1>1, <1>2, <2>1, HeaderIs
  <2>3. 1 \in 1..h
    BY <1>5
  <2>4. words[1] = header[1] /\ (n - 1) + 1 = n
    BY <1>6, <2>3
  <2> QED BY <2>2, <2>4
<1>8. ASSUME NEW i \in 1..n PROVE length(i) = Len(segments[i])
  <2>1. i \div 2 + 1 \in 1..h
    BY <1>5
  <2>2. words[i \div 2 + 1] = header[i \div 2 + 1]
    BY <1>6, <2>1
  <2>3. Len(segments[i]) = IF i % 2 = 0 THEN Uint32At(header[i \div 2 + 1], 1)
                           ELSE Uint32At(header[i \div 2 + 1], 5)
    BY <1>1, <1>2, HeaderIs
  <2> QED BY <2>2, <2>3
<1> HIDE DEF length
<1>9. ASSUME NEW i \in 1..(n + 1) PROVE start(i) = h + LengthOf(segments, i - 1)
  <2>1. \A j \in 1..(i - 1) : j \in 1..n
    OBVIOUS
  <2>2. [j \in 1..(i - 1) |-> length(j)] = [j \in 1..(i - 1) |-> Len(segments[j])]
    BY <1>8, <2>1
  <2>3. PICK w : w = [j \in 1..(i - 1) |-> length(j)] /\ w = [j \in 1..(i - 1) |-> Len(segments[j])]
    BY <2>2
  <2>4. start(i) = count \div 2 + 1 + SumOf(w) /\ LengthOf(segments, i - 1) = SumOf(w)
    BY <2>3 DEF LengthOf
  <2> HIDE DEF count, start
  <2> QED BY <1>5, <1>7, <2>4
<1> HIDE DEF start
<1>10. start(n + 1) = Len(words)
  <2>1. n + 1 \in 1..(n + 1) /\ (n + 1) - 1 = n
    OBVIOUS
  <2>2. Len(flat) = LengthOf(segments, n)
    BY <1>1, <1>3, PlacesInFlat
  <2> QED BY <1>6, <1>9, <2>1, <2>2
<1>11. FramedSegments(words) = [i \in 1..count |-> SubSeq(words, start(i) + 1, start(i) + length(i))]
  <2>1. words # <<>>
    <3>1. Len(words) # 0
      BY <1>5, <1>6
    <3> QED BY <3>1, EmptySeq
  <2>2. ~ (words = <<>> \/ count > MaxStreamSegments \/ count \div 2 + 1 > Len(words))
    <3> HIDE DEF count
    <3> QED BY <1>1, <1>5, <1>6, <1>7, <2>1 DEF MaxStreamSegments
  <2>3. ~ (start(count + 1) > Len(words))
    <3> HIDE DEF count
    <3> QED BY <1>5, <1>6, <1>7, <1>10
  <2>4. FramedSegments(words) =
          IF words = <<>> \/ count > MaxStreamSegments \/ count \div 2 + 1 > Len(words)
          THEN <<>>
          ELSE IF start(count + 1) > Len(words) THEN <<>>
          ELSE [i \in 1..count |-> SubSeq(words, start(i) + 1, start(i) + length(i))]
    BY DEF FramedSegments, start, length
  <2> HIDE DEF count
  <2> QED BY <2>2, <2>3, <2>4
<1> HIDE DEF count
<1>12. ASSUME NEW i \in 1..n
       PROVE  SubSeq(words, start(i) + 1, start(i) + length(i)) = segments[i]
  <2>1. PICK s \in Seq(ByteWord) : s = segments[i] /\ Len(s) \in Nat
    BY <1>1, ElementOfSeq, LenProperties
  <2>2. PICK l \in Nat : l = LengthOf(segments, i - 1) /\ LengthOf(segments, i) = l + Len(s)
    <3>1. i - 1 \in 0..n
      OBVIOUS
    <3>2. LengthOf(segments, i - 1) \in Nat
      BY <1>1, <3>1, LengthInSteps
    <3>3. LengthOf(segments, i) = LengthOf(segments, i - 1) + Len(segments[i])
      BY <1>1, LengthInSteps
    <3> QED BY <2>1, <3>2, <3>3
  <2>3. l + Len(s) <= Len(flat) /\ \A j \in 1..Len(s) : flat[l + j] = s[j]
    <3>1. i \in 1..Len(segments)
      BY <1>1
    <3>2. /\ LengthOf(segments, i) <= Len(FlattenSeq(segments))
          /\ \A j \in 1..Len(segments[i]) :
               FlattenSeq(segments)[LengthOf(segments, i - 1) + j] = segments[i][j]
      BY <3>1, PlacesInFlat
    <3> QED BY <1>3, <2>1, <2>2, <3>2
  <2>4. PICK b \in Nat : b = h + l /\ start(i) = b /\ length(i) = Len(s)
    <3>1. i \in 1..(n + 1)
      OBVIOUS
    <3>2. h + l \in Nat
      OBVIOUS
    <3> QED BY <1>8, <1>9, <2>1, <2>2, <3>1, <3>2
  <2>5. ASSUME NEW j \in 1..Len(s) PROVE words[b + j] = s[j]
    <3>1. l + j \in 1..Len(flat) /\ b + j = h + (l + j)
      BY <1>6, <2>1, <2>3, <2>4
    <3> QED BY <1>6, <2>3, <3>1
  <2>6. PICK x, y, r : /\ x \in Int /\ x = b + 1 /\ y \in Int /\ y = b + Len(s)
                       /\ r = SubSeq(words, x, y)
    <3>1. b + 1 \in Int /\ b + Len(s) \in Int
      BY <2>1
    <3> QED BY <3>1
  <2>7. \A k \in x..y : words[k] \in ByteWord
    <3>1. \A k \in x..y : k \in 1..Len(words)
      <4> SUFFICES ASSUME NEW k \in x..y PROVE k \in 1..Len(words)
        OBVIOUS
      <4>1. k \in Int /\ b + 1 <= k /\ k <= b + Len(s)
        BY <2>1, <2>6
      <4>2. Len(s) \in Nat /\ b + Len(s) <= Len(words) /\ Len(words) \in Nat
        <5>1. Len(words) = h + Len(flat) /\ Len(flat) \in Nat /\ b = h + l
          BY <1>6, <2>4
        <5>2. l + Len(s) <= Len(flat) /\ Len(s) \in Nat
          BY <2>1, <2>3
        <5> QED BY ONLY <5>1, <5>2, h \in Nat, l \in Nat, b \in Nat
      <4> QED BY ONLY <4>1, <4>2, b \in Nat
    <3> QED BY <3>1, ElementOfSeq
  <2>8. /\ r \in Seq(ByteWord) /\ Len(r) = IF x <= y THEN y - x + 1 ELSE 0
        /\ \A k \in 1..(y - x + 1) : r[k] = words[x + k - 1]
    BY <2>6, <2>7, SubSeqProperties
  <2>9. Len(r) = Len(s)
    BY <2>1, <2>6, <2>8
  <2>10. ASSUME NEW k \in 1..Len(s) PROVE r[k] = s[k]
    <3>1. k \in 1..(y - x + 1) /\ x + k - 1 = b + k
      BY <2>1, <2>6
    <3> QED BY <2>5, <2>8, <3>1
  <2>11. r = s
    BY <2>8, <2>9, <2>10, SeqEqual
  <2> QED BY <2>1, <2>4, <2>6, <2>11
<1>13. segments = [i \in 1..n |-> segments[i]]
  BY <1>1, LenProperties
<1> QED BY <1>4, <1>7, <1>11, <1>12, <1>13

\* A message that is packed and framed is read back with its segments as they
\* were.
THEOREM PackedMessageIsRead ==
  ASSUME NEW segments \in Seq(Seq(ByteWord)), segments # <<>>,
         Len(segments) <= MaxStreamSegments, \A i \in 1..Len(segments) : Fits(Len(segments[i]))
  PROVE  FramedSegments(Unpack(PackedStream(segments))) = segments
BY PackedStreamIsStream, FramedSegmentsOfStream

-----------------------------------------------------------------------------
(* Classes and their accessors.                                              *)

\* Halving a quotient doubles its divisor.
LEMMA HalfOfQuotient ==
  ASSUME NEW n \in Nat, NEW p \in Nat \ {0}, NEW d, d = 2 * p
  PROVE  n \div p \in Nat /\ n \div d = (n \div p) \div 2
<1>1. PICK q \in Nat : q = n \div p /\ p * q <= n /\ n < p * q + p
  OBVIOUS
<1>2. PICK r \in Nat : r = q \div 2 /\ (q = 2 * r \/ q = 2 * r + 1)
  OBVIOUS
<1>3. p * (2 * r) <= n /\ n < p * (2 * r) + 2 * p
  BY <1>1, <1>2
<1>4. PICK t \in Nat \ {0} : t = 2 * p /\ t = d
  OBVIOUS
<1>5. t * r <= n /\ n < t * r + t
  BY <1>3, <1>4
<1>6. n \div t = r
  BY <1>5
<1> QED BY <1>1, <1>2, <1>4, <1>6

\* A power of two is twice the one before.
LEMMA Powers == \A i \in 1..15 : Power[i] \in Nat \ {0} /\ Power[i + 1] = 2 * Power[i]
BY SMT DEF Power

\* Sizes and tags are small numbers.
LEMMA SmallNumbers == \A k : k \in Uint16 <=> k \in Nat /\ k <= 65535
<1>1. PICK max \in Nat : max = MaxUint16 /\ max = 65535
  BY SMT DEF MaxUint16
<1>2. Uint16 = 0..max
  BY <1>1 DEF Uint16
<1>3. \A k : k \in Uint16 <=> k \in Nat /\ k <= max
  BY ONLY max \in Nat, <1>2
<1> QED BY ONLY <1>1, <1>3, SMT

\* They are natural numbers.
LEMMA Sixteen == \A k \in Uint16 : k \in Nat
BY ONLY SmallNumbers

\* They fit sixteen bits.
LEMMA SixteenBits == \A k \in Uint16 : k <= 65535
BY ONLY SmallNumbers, SMT

\* The bits of a discriminant are those of what is left after so many halvings.
LEMMA HalvesOfTag ==
  ASSUME NEW n \in Uint16
  PROVE  \E h : /\ h[0] = n /\ h[16] = 0
                /\ \A i \in 0..16 : h[i] \in Nat
                /\ \A i \in 0..15 : h[i + 1] = h[i] \div 2 /\ (HasBit(n, i) <=> h[i] % 2 = 1)
<1>0. n \in Nat /\ n <= 65535
  BY Sixteen, SixteenBits, SMT
<1>1. n \in Nat
  BY <1>0
<1>2. PICK h : h = [i \in 0..16 |-> IF i = 16 THEN 0 ELSE n \div Power[i + 1]]
  OBVIOUS
<1>3. h[16] = 0 /\ \A i \in 0..15 : h[i] = n \div Power[i + 1]
  BY <1>2
<1>4. Power[1] = 1 /\ Power[16] = 32768
  BY SMT DEF Power
<1>5. ASSUME NEW i \in 0..14 PROVE h[i] \in Nat /\ h[i + 1] = h[i] \div 2
  <2>1. PICK p \in Nat \ {0}, d \in Nat : p = Power[i + 1] /\ d = Power[i + 2] /\ d = 2 * p
    BY Powers
  <2>2. h[i] = n \div p /\ h[i + 1] = n \div d
    <3>1. i \in 0..15 /\ i + 1 \in 0..15 /\ i + 1 + 1 = i + 2
      OBVIOUS
    <3>2. h[i] = n \div Power[i + 1] /\ h[i + 1] = n \div Power[i + 1 + 1]
      BY ONLY <1>3, <3>1, Zenon
    <3> QED BY ONLY <2>1, <3>1, <3>2, Zenon
  <2>3. n \div p \in Nat /\ n \div d = (n \div p) \div 2
    BY ONLY <1>1, <2>1, HalfOfQuotient, ZenonT(60)
  <2> QED BY ONLY <2>2, <2>3, Zenon
<1>6. h[15] \in Nat /\ h[16] = h[15] \div 2 /\ h[0] = n
  <2>1. n \div 32768 \in 0..1
    BY ONLY <1>0, SMT
  <2> QED BY <1>1, <1>3, <1>4, <2>1, SMT
<1>7. ASSUME NEW i \in 0..15 PROVE h[i] \in Nat /\ h[i + 1] = h[i] \div 2
  <2>1. i \in 0..14 \/ i = 15
    OBVIOUS
  <2> QED BY <1>5, <1>6, <2>1
<1>8. \A i \in 0..15 : HasBit(n, i) <=> h[i] % 2 = 1
  BY <1>3 DEF HasBit
<1>9. \A i \in 0..16 : i = 16 \/ i \in 0..15
  OBVIOUS
<1> QED BY <1>3, <1>6, <1>7, <1>8, <1>9

\* Numbers with the same bits are one.
LEMMA BitsTell ==
  ASSUME NEW m \in Uint16, NEW n \in Uint16,
         \A i \in 0..15 : HasBit(m, i) <=> HasBit(n, i)
  PROVE  m = n
<1>1. PICK g : /\ g[0] = m /\ g[16] = 0 /\ \A i \in 0..16 : g[i] \in Nat
               /\ \A i \in 0..15 : g[i + 1] = g[i] \div 2 /\ (HasBit(m, i) <=> g[i] % 2 = 1)
  BY HalvesOfTag
<1>2. PICK h : /\ h[0] = n /\ h[16] = 0 /\ \A i \in 0..16 : h[i] \in Nat
               /\ \A i \in 0..15 : h[i + 1] = h[i] \div 2 /\ (HasBit(n, i) <=> h[i] % 2 = 1)
  BY HalvesOfTag
<1> DEFINE T == {k \in 0..16 : g[16 - k] # h[16 - k]}
<1>3. ASSUME T # {} PROVE FALSE
  <2>1. T \subseteq Nat
    OBVIOUS
  <2>2. PICK k \in T : \A j \in T : k <= j
    BY <1>3, <2>1, LeastNumber
  <2>3. k \in 1..16 /\ g[16 - k] # h[16 - k]
    BY <1>1, <1>2
  <2>4. k - 1 \notin T
    <3> HIDE DEF T
    <3> QED BY <2>2, <2>3
  <2>5. PICK i \in 0..15 : i = 16 - k
    BY <2>3
  <2>6. i + 1 = 16 - (k - 1) /\ k - 1 \in 0..16
    BY <2>3, <2>5
  <2>7. g[i + 1] = h[i + 1] /\ g[i] \in Nat /\ h[i] \in Nat
    BY <1>1, <1>2, <2>4, <2>6
  <2>8. g[i] \div 2 = h[i] \div 2 /\ (g[i] % 2 = 1 <=> h[i] % 2 = 1)
    BY <1>1, <1>2, <2>7
  <2>9. \A a \in Nat, b \in Nat : a \div 2 = b \div 2 /\ (a % 2 = 1 <=> b % 2 = 1) => a = b
    OBVIOUS
  <2> QED BY <2>3, <2>5, <2>7, <2>8, <2>9
<1>4. 16 \in 0..16 /\ 16 - 16 = 0
  OBVIOUS
<1> QED BY <1>1, <1>2, <1>3, <1>4

-----------------------------------------------------------------------------
(* The guards of a slot, by their number.                                    *)

Depth(s) == Len(Guards(s))
SameTo(s, x, n) == \A i \in 1..n : Guards(s)[i] = Guards(x)[i]
AgreeTo(s, n, x, k) ==
  \A i \in 1..n : i <= k /\ Guards(s)[i].union = Guards(x)[i].union =>
                    Guards(s)[i].tag = Guards(x)[i].tag
OwnBits(s) == UNION {TagBits(s.own[i].at) : i \in DOMAIN s.own}

\* Two sequences joined, and the first elements of a sequence.
LEMMA JoinOf ==
  ASSUME NEW S, NEW a \in Seq(S), NEW b \in Seq(S), NEW g, g = a \o b
  PROVE  /\ g \in Seq(S) /\ Len(g) = Len(a) + Len(b) /\ Len(g) \in Nat /\ DOMAIN g = 1..Len(g)
         /\ \A i \in 1..Len(g) : g[i] \in S
         /\ \A i \in 1..Len(a) : g[i] = a[i]
         /\ \A i \in 1..Len(b) : g[Len(a) + i] = b[i]
<1>1. g \in Seq(S) /\ Len(a) \in Nat /\ Len(b) \in Nat /\ Len(g) = Len(a) + Len(b)
  BY ConcatProperties, LenProperties
<1>2. \A i \in 1..(Len(a) + Len(b)) : g[i] = IF i <= Len(a) THEN a[i] ELSE b[i - Len(a)]
  BY ConcatProperties
<1>3. \A i \in 1..Len(b) : Len(a) + i \in 1..(Len(a) + Len(b)) /\ ~ (Len(a) + i <= Len(a))
                           /\ (Len(a) + i) - Len(a) = i
  BY <1>1
<1>4. \A i \in 1..Len(a) : i \in 1..(Len(a) + Len(b)) /\ i <= Len(a)
  BY <1>1
<1>5. DOMAIN g = 1..Len(g) /\ \A i \in 1..Len(g) : g[i] \in S
  BY <1>1, LenProperties, ElementOfSeq
<1> QED BY <1>1, <1>2, <1>3, <1>4, <1>5

\* The first elements of a sequence.
LEMMA FirstOf ==
  ASSUME NEW S, NEW g \in Seq(S), NEW n \in 0..Len(g), NEW f, f = SubSeq(g, 1, n)
  PROVE  f \in Seq(S) /\ Len(f) = n /\ DOMAIN f = 1..n /\ \A i \in 1..n : f[i] = g[i]
<1>1. Len(g) \in Nat /\ n \in Int /\ 1 \in Int /\ \A i \in 1..n : i \in 1..Len(g) /\ g[i] \in S
  BY LenProperties, ElementOfSeq
<1>2. /\ f \in Seq(S) /\ Len(f) = (IF 1 <= n THEN n - 1 + 1 ELSE 0)
      /\ \A i \in 1..(n - 1 + 1) : f[i] = g[1 + i - 1]
  BY <1>1, SubSeqProperties
<1>3. Len(f) = n /\ \A i \in 1..n : f[i] = g[i]
  BY <1>1, <1>2
<1> QED BY <1>2, <1>3, LenProperties

\* A slot's guards: the outer ones, then its own.
LEMMA GuardsOf ==
  ASSUME NEW c \in Classes, NEW s \in SlotsOf[c]
  PROVE  /\ s \in Slot /\ Len(s.outer) \in Nat
         /\ Guards(s) \in Seq(Guard) /\ Depth(s) \in Nat /\ DOMAIN Guards(s) = 1..Depth(s)
         /\ \A i \in 1..Depth(s) : Guards(s)[i] \in Guard
         /\ DOMAIN s.outer = 1..Len(s.outer)
         /\ \A i \in 1..Len(s.outer) : Guards(s)[i] = s.outer[i]
         /\ s.own = <<>> => Depth(s) = Len(s.outer) /\ OwnBits(s) = {} /\ DOMAIN s.own = {}
         /\ s.own # <<>> => /\ Depth(s) = Len(s.outer) + 1 /\ Guards(s)[Depth(s)] = s.own[1]
                            /\ OwnBits(s) = TagBits(s.own[1].at) /\ DOMAIN s.own = {1}
<1>1. s \in Slot /\ Len(s.own) <= 1
  BY LayoutsAssumption DEF WellNested
<1>2. PICK outer \in Seq(Guard), own \in Seq(Guard), g \in {Guards(s)} :
        outer = s.outer /\ own = s.own /\ g = outer \o own /\ g = Guards(s)
  BY <1>1 DEF Slot, Guards
<1>3. /\ Len(outer) \in Nat /\ Len(own) \in Nat /\ DOMAIN outer = 1..Len(outer)
      /\ DOMAIN own = 1..Len(own)
  BY LenProperties
<1>4. g = outer \o own
  BY <1>2
<1>5. /\ g \in Seq(Guard) /\ Len(g) = Len(outer) + Len(own) /\ Len(g) \in Nat
      /\ DOMAIN g = 1..Len(g) /\ \A i \in 1..Len(g) : g[i] \in Guard
      /\ \A i \in 1..Len(outer) : g[i] = outer[i]
      /\ \A i \in 1..Len(own) : g[Len(outer) + i] = own[i]
  BY ONLY outer \in Seq(Guard), own \in Seq(Guard), <1>4, JoinOf
<1>7. ASSUME own = <<>> PROVE Len(g) = Len(outer) /\ OwnBits(s) = {} /\ DOMAIN own = {}
  <2>1. Len(own) = 0 /\ DOMAIN own = {}
    BY <1>7
  <2>2. OwnBits(s) = {}
    BY <1>2, <2>1 DEF OwnBits
  <2> QED BY <1>3, <1>5, <2>1, <2>2
<1>8. ASSUME own # <<>>
      PROVE  /\ Len(g) = Len(outer) + 1 /\ g[Len(g)] = own[1]
             /\ OwnBits(s) = TagBits(own[1].at) /\ DOMAIN own = {1}
  <2>0. Len(own) # 0
    BY ONLY own \in Seq(Guard), <1>8, EmptySeq
  <2>1. Len(own) = 1
    <3>1. Len(own) = Len(s.own)
      BY ONLY <1>2, Zenon
    <3>2. PICK l \in Nat : l = Len(own)
      BY <1>3
    <3>3. l <= 1 /\ l # 0
      BY <1>1, <2>0, <3>1, <3>2
    <3> QED BY <3>2, <3>3
  <2>2. DOMAIN own = {1}
    BY <1>3, <2>1
  <2>3. OwnBits(s) = TagBits(own[1].at)
    BY <1>2, <2>2 DEF OwnBits
  <2>4. Len(g) = Len(outer) + 1 /\ g[Len(g)] = own[1]
    <3>1. 1 \in 1..Len(own)
      BY <2>1
    <3> QED BY <1>3, <1>5, <2>1, <3>1
  <2> QED BY <2>2, <2>3, <2>4
<1> QED BY <1>1, <1>2, <1>3, <1>5, <1>7, <1>8 DEF Depth

\* The first guards of a slot.
LEMMA FirstGuards ==
  ASSUME NEW c \in Classes, NEW s \in SlotsOf[c], NEW n \in 0..Depth(s)
  PROVE  /\ First(n, Guards(s)) \in Seq(Guard) /\ Len(First(n, Guards(s))) = n
         /\ DOMAIN First(n, Guards(s)) = 1..n
         /\ \A i \in 1..n : First(n, Guards(s))[i] = Guards(s)[i]
<1>1. PICK g \in Seq(Guard) : g = Guards(s) /\ Len(g) = Depth(s)
  BY GuardsOf DEF Depth
<1>2. PICK f : f = SubSeq(g, 1, n) /\ f = First(n, Guards(s))
  BY <1>1 DEF First
<1>3. n \in 0..Len(g)
  BY <1>1
<1>4. f \in Seq(Guard) /\ Len(f) = n /\ DOMAIN f = 1..n /\ \A i \in 1..n : f[i] = g[i]
  BY ONLY g \in Seq(Guard), <1>2, <1>3, FirstOf
<1> QED BY <1>1, <1>2, <1>4

\* What it is to have the same first guards, or ones that agree.
LEMMA FirstSame ==
  ASSUME NEW c \in Classes, NEW s \in SlotsOf[c], NEW x \in SlotsOf[c],
         NEW n \in Nat, n <= Depth(s), n <= Depth(x)
  PROVE  (First(n, Guards(s)) = First(n, Guards(x))) <=> SameTo(s, x, n)
<1>1. n \in 0..Depth(s) /\ n \in 0..Depth(x)
  BY GuardsOf
<1>2. PICK f \in Seq(Guard) : /\ f = First(n, Guards(s)) /\ Len(f) = n
                              /\ \A i \in 1..n : f[i] = Guards(s)[i]
  BY <1>1, FirstGuards
<1>3. PICK h \in Seq(Guard) : /\ h = First(n, Guards(x)) /\ Len(h) = n
                              /\ \A i \in 1..n : h[i] = Guards(x)[i]
  BY <1>1, FirstGuards
<1>4. SameTo(s, x, n) => f = h
  <2>1. ASSUME SameTo(s, x, n) PROVE \A i \in 1..Len(f) : f[i] = h[i]
    BY <1>2, <1>3, <2>1 DEF SameTo
  <2> QED BY <1>2, <1>3, <2>1, SeqEqual
<1> QED BY <1>2, <1>3, <1>4 DEF SameTo

\* All guards are the first Depth(s).
LEMMA FirstAll ==
  ASSUME NEW c \in Classes, NEW s \in SlotsOf[c]
  PROVE  First(Depth(s), Guards(s)) = Guards(s)
<1>1. Depth(s) \in 0..Depth(s)
  BY GuardsOf
<1>2. PICK f \in Seq(Guard) : /\ f = First(Depth(s), Guards(s)) /\ Len(f) = Depth(s)
                              /\ \A i \in 1..Depth(s) : f[i] = Guards(s)[i]
  BY <1>1, FirstGuards
<1>3. PICK g \in Seq(Guard) : g = Guards(s) /\ Len(g) = Depth(s)
  BY GuardsOf DEF Depth
<1>4. f = g
  BY <1>2, <1>3, SeqEqual
<1> QED BY <1>2, <1>3, <1>4

\* Agreement, guard by guard.
LEMMA FirstAgree ==
  ASSUME NEW c \in Classes, NEW s \in SlotsOf[c], NEW x \in SlotsOf[c],
         NEW n \in Nat, NEW k \in Nat, n <= Depth(s), k <= Depth(x), AgreeTo(s, n, x, k)
  PROVE  Agree(First(n, Guards(s)), First(k, Guards(x)))
<1>1. n \in 0..Depth(s) /\ k \in 0..Depth(x)
  BY GuardsOf
<1>2. PICK f : /\ f = First(n, Guards(s)) /\ DOMAIN f = 1..n
               /\ \A i \in 1..n : f[i] = Guards(s)[i]
  BY <1>1, FirstGuards
<1>3. PICK h : /\ h = First(k, Guards(x)) /\ DOMAIN h = 1..k
               /\ \A i \in 1..k : h[i] = Guards(x)[i]
  BY <1>1, FirstGuards
<1>4. \A i \in 1..n : i \in 1..k => i <= k
  OBVIOUS
<1>5. \A i \in DOMAIN f \cap DOMAIN h : f[i].union = h[i].union => f[i].tag = h[i].tag
  BY <1>2, <1>3, <1>4 DEF AgreeTo
<1> QED BY <1>2, <1>3, <1>5 DEF Agree

\* The unions of a class, guard by guard.
LEMMA Nested ==
  ASSUME NEW c \in Classes, NEW s \in SlotsOf[c], NEW x \in SlotsOf[c]
  PROVE  /\ s.path = x.path => s = x
         /\ s.kind = "number" => s.width > 0
         /\ \A i \in 1..Depth(s), j \in 1..Depth(x) :
              Guards(s)[i].union = Guards(x)[j].union =>
                i = j /\ Guards(s)[i].at = Guards(x)[j].at /\ SameTo(s, x, i - 1)
         /\ x # s /\ s.own # <<>> /\ Depth(s) <= Depth(x) /\ SameTo(s, x, Depth(s)) =>
              /\ s.kind = "group" /\ Len(s.path) < Len(x.path)
              /\ SubSeq(x.path, 1, Len(s.path)) = s.path
         /\ \A i \in 1..Len(x.outer) :
              \E y \in SlotsOf[c] : y.own # <<>> /\ Depth(y) = i /\ SameTo(y, x, i)
<1>1. WellNested(SlotsOf[c])
  BY LayoutsAssumption
<1>2. /\ Depth(s) \in Nat /\ DOMAIN Guards(s) = 1..Depth(s)
      /\ Depth(x) \in Nat /\ DOMAIN Guards(x) = 1..Depth(x)
      /\ DOMAIN x.outer = 1..Len(x.outer) /\ Len(x.outer) \in Nat /\ Len(x.outer) <= Depth(x)
  BY GuardsOf
<1>3. (s.path = x.path => s = x) /\ (s.kind = "number" => s.width > 0)
  BY <1>1 DEF WellNested
<1>4. ASSUME NEW i \in 1..Depth(s), NEW j \in 1..Depth(x),
             Guards(s)[i].union = Guards(x)[j].union
      PROVE  i = j /\ Guards(s)[i].at = Guards(x)[j].at /\ SameTo(s, x, i - 1)
  <2>1. /\ i = j /\ Guards(s)[i].at = Guards(x)[j].at
        /\ First(i - 1, Guards(s)) = First(i - 1, Guards(x))
    BY <1>1, <1>2, <1>4 DEF WellNested
  <2>2. i - 1 \in Nat /\ i - 1 <= Depth(s) /\ i - 1 <= Depth(x)
    BY <1>2, <2>1
  <2> QED BY <2>1, <2>2, FirstSame
<1>5. ASSUME x # s, s.own # <<>>, Depth(s) <= Depth(x), SameTo(s, x, Depth(s))
      PROVE  /\ s.kind = "group" /\ Len(s.path) < Len(x.path)
             /\ SubSeq(x.path, 1, Len(s.path)) = s.path
  <2>1. First(Depth(s), Guards(s)) = First(Depth(s), Guards(x))
    BY <1>2, <1>5, FirstSame
  <2>2. First(Len(Guards(s)), Guards(x)) = Guards(s) /\ Len(Guards(s)) <= Len(Guards(x))
    BY <1>5, <2>1, FirstAll DEF Depth
  <2> QED BY <1>1, <1>5, <2>2 DEF WellNested
<1>6. ASSUME NEW i \in 1..Len(x.outer)
      PROVE  \E y \in SlotsOf[c] : y.own # <<>> /\ Depth(y) = i /\ SameTo(y, x, i)
  <2>1. PICK y \in SlotsOf[c] : y.own # <<>> /\ Guards(y) = First(i, Guards(x))
    BY <1>1, <1>2 DEF WellNested
  <2>2. i \in 0..Depth(x)
    BY <1>2
  <2>3. Len(First(i, Guards(x))) = i /\ \A k \in 1..i : First(i, Guards(x))[k] = Guards(x)[k]
    BY <2>2, FirstGuards
  <2> QED BY <2>1, <2>3 DEF Depth, SameTo
<1> QED BY <1>3, <1>4, <1>5, <1>6

\* The places of a class, guard by guard.
LEMMA Spaced ==
  ASSUME NEW c \in Classes, NEW s \in SlotsOf[c], NEW x \in SlotsOf[c]
  PROVE  /\ x # s /\ AgreeTo(s, Depth(s), x, Depth(x)) =>
              /\ Bits(s) \cap Bits(x) = {}
              /\ IsPointer(s) /\ IsPointer(x) => s.at # x.at
         /\ \A i \in 1..Depth(x) :
              /\ AgreeTo(s, Depth(s), x, i - 1) => TagBits(Guards(x)[i].at) \cap Bits(s) = {}
              /\ \A j \in 1..Depth(s) :
                   Guards(s)[j].union # Guards(x)[i].union /\ AgreeTo(s, j - 1, x, i - 1) =>
                     TagBits(Guards(s)[j].at) \cap TagBits(Guards(x)[i].at) = {}
<1>1. WellSpaced(SlotsOf[c])
  BY LayoutsAssumption
<1>2. /\ Depth(s) \in Nat /\ DOMAIN Guards(s) = 1..Depth(s) /\ First(Depth(s), Guards(s)) = Guards(s)
      /\ Depth(x) \in Nat /\ DOMAIN Guards(x) = 1..Depth(x) /\ First(Depth(x), Guards(x)) = Guards(x)
  BY GuardsOf, FirstAll
<1>3. AgreeTo(s, Depth(s), x, Depth(x)) => Agree(Guards(s), Guards(x))
  <2>1. ASSUME AgreeTo(s, Depth(s), x, Depth(x))
        PROVE  Agree(First(Depth(s), Guards(s)), First(Depth(x), Guards(x)))
    BY <1>2, <2>1, FirstAgree
  <2> QED BY <1>2, <2>1
<1>4. ASSUME NEW i \in 1..Depth(x), AgreeTo(s, Depth(s), x, i - 1)
      PROVE  TagBits(Guards(x)[i].at) \cap Bits(s) = {}
  <2>1. i - 1 \in Nat /\ i - 1 <= Depth(x)
    BY <1>2
  <2>2. Agree(First(Depth(s), Guards(s)), First(i - 1, Guards(x)))
    BY <1>2, <1>4, <2>1, FirstAgree
  <2>3. Agree(Guards(s), First(i - 1, Guards(x)))
    BY <1>2, <2>2
  <2> QED BY <1>1, <1>2, <2>3 DEF WellSpaced
<1>5. ASSUME NEW i \in 1..Depth(x), NEW j \in 1..Depth(s),
             Guards(s)[j].union # Guards(x)[i].union, AgreeTo(s, j - 1, x, i - 1)
      PROVE  TagBits(Guards(s)[j].at) \cap TagBits(Guards(x)[i].at) = {}
  <2>1. i - 1 \in Nat /\ i - 1 <= Depth(x) /\ j - 1 \in Nat /\ j - 1 <= Depth(s)
    BY <1>2
  <2>2. Agree(First(j - 1, Guards(s)), First(i - 1, Guards(x)))
    BY <1>5, <2>1, FirstAgree
  <2> QED BY <1>1, <1>2, <1>5, <2>2 DEF WellSpaced
<1>6. x # s /\ AgreeTo(s, Depth(s), x, Depth(x)) =>
              /\ Bits(s) \cap Bits(x) = {}
              /\ IsPointer(s) /\ IsPointer(x) => s.at # x.at
  BY <1>1, <1>3 DEF WellSpaced
<1> QED BY <1>4, <1>5, <1>6

-----------------------------------------------------------------------------
(* The bits of a discriminant.                                               *)

\* The sixteen places of a discriminant.
LEMMA TagPlaces ==
  ASSUME NEW at \in Nat
  PROVE  \A b : b \in TagBits(at) <=> \E i \in 0..15 : b = 8 * at + i
<1>1. TagBits(at) = (8 * at)..(8 * at + 16 - 1)
  BY DEF TagBits, Range_
<1>2. PICK a \in Nat : a = 8 * at
  OBVIOUS
<1>3. ASSUME NEW b \in a..(a + 16 - 1) PROVE \E i \in 0..15 : b = a + i
  <2>1. b - a \in 0..15 /\ b = a + (b - a)
    OBVIOUS
  <2> QED BY <2>1
<1>4. \A i \in 0..15 : a + i \in a..(a + 16 - 1)
  OBVIOUS
<1> QED BY <1>1, <1>2, <1>3, <1>4

\* The bits that a guard asks for.
LEMMA TagHasBits ==
  ASSUME NEW g \in Guard
  PROVE  \A i \in 0..15 : 8 * g.at + i \in TagOnes(g) <=> HasBit(g.tag, i)
<1>1. g.at \in Nat
  BY DEF Guard
<1>2. PICK a \in Nat : a = 8 * g.at
  BY <1>1
<1>3. \A i \in 0..15 : (a + i) - a = i
  OBVIOUS
<1>4. \A i \in 0..15 : a + i \in TagBits(g.at)
  BY <1>1, <1>2, TagPlaces
<1>5. TagOnes(g) = {b \in TagBits(g.at) : HasBit(g.tag, b - a)}
  BY <1>2 DEF TagOnes
<1> QED BY <1>2, <1>3, <1>4, <1>5

\* Guards at one place that ask for the same bits ask for the same tag.
LEMMA TagTold ==
  ASSUME NEW g \in Guard, NEW h \in Guard, g.at = h.at, TagOnes(g) = TagOnes(h)
  PROVE  g.tag = h.tag
<1>1. \A i \in 0..15 : HasBit(g.tag, i) <=> HasBit(h.tag, i)
  BY TagHasBits
<1>2. g.tag \in Uint16 /\ h.tag \in Uint16
  BY DEF Guard
<1> QED BY <1>1, <1>2, BitsTell

\* Only the first member of a union has no bit set.
LEMMA TagOfFirst ==
  ASSUME NEW g \in Guard
  PROVE  TagOnes(g) = {} <=> g.tag = 0
<1>1. PICK zero \in Uint16 : zero = 0
  BY SmallNumbers, SMT
<1>2. \A i \in 1..16 : Power[i] \in Nat \ {0}
  BY SMT DEF Power
<1>3. \A p \in Nat \ {0} : (0 \div p) % 2 = 0
  OBVIOUS
<1>4. \A i \in 0..15 : ~ HasBit(zero, i)
  <2>1. ASSUME NEW i \in 0..15 PROVE ~ HasBit(zero, i)
    <3>1. PICK p \in Nat \ {0} : p = Power[i + 1]
      BY <1>2
    <3>2. (0 \div p) % 2 = 0
      BY <1>3
    <3> QED BY <1>1, <3>1, <3>2 DEF HasBit
  <2> QED BY <2>1
<1>5. g.tag \in Uint16 /\ g.at \in Nat
  BY DEF Guard
<1>6. ASSUME TagOnes(g) = {} PROVE g.tag = zero
  <2>1. \A i \in 0..15 : HasBit(g.tag, i) <=> HasBit(zero, i)
    BY <1>4, <1>6, TagHasBits
  <2> QED BY <1>5, <2>1, BitsTell
<1>7. ASSUME g.tag = zero PROVE TagOnes(g) = {}
  <2>1. \A b \in TagOnes(g) : \E i \in 0..15 : b = 8 * g.at + i
    BY <1>5, TagPlaces DEF TagOnes
  <2> QED BY <1>4, <1>7, <2>1, TagHasBits
<1> QED BY <1>1, <1>6, <1>7

\* A guard holds if the bits set say its member was chosen.
Held(on, g) == on \cap TagBits(g.at) = TagOnes(g)
HeldTo(on, s, n) == \A i \in 1..n : Held(on, Guards(s)[i])

\* Guards that hold at once agree.
LEMMA HeldAgree ==
  ASSUME NEW c \in Classes, NEW s \in SlotsOf[c], NEW x \in SlotsOf[c], NEW on,
         NEW n \in Nat, NEW k \in Nat, n <= Depth(s), k <= Depth(x),
         HeldTo(on, s, n), HeldTo(on, x, k)
  PROVE  AgreeTo(s, n, x, k)
<1>1. ASSUME NEW i \in 1..n, i <= k, Guards(s)[i].union = Guards(x)[i].union
      PROVE  Guards(s)[i].tag = Guards(x)[i].tag
  <2>1. i \in 1..k /\ i \in 1..Depth(s) /\ i \in 1..Depth(x)
    BY <1>1, GuardsOf
  <2>2. PICK g \in Guard, h \in Guard : g = Guards(s)[i] /\ h = Guards(x)[i]
    BY <2>1, GuardsOf
  <2>3. g.at = h.at
    BY <1>1, <2>1, <2>2, Nested
  <2>4. Held(on, g) /\ Held(on, h)
    BY <1>1, <2>1, <2>2 DEF HeldTo
  <2>5. TagOnes(g) = TagOnes(h)
    BY <2>3, <2>4 DEF Held
  <2> QED BY <2>2, <2>3, <2>5, TagTold
<1> QED BY <1>1 DEF AgreeTo

-----------------------------------------------------------------------------
(* A struct and what its accessors read.                                     *)

Values == {"null", "empty", "contents"}
StructState ==
  {m \in [size : [data : Uint16, pointers : Uint16], ones : SUBSET Nat, ptrs : Seq(Values)] :
     Len(m.ptrs) = m.size.pointers /\ m.ones \subseteq 0..(64 * m.size.data - 1)}

NumberOf(m, s) ==
  IF m.ones \cap Bits(s) = {} THEN IF s.mask THEN "ones" ELSE "zeros"
  ELSE IF Bits(s) \subseteq m.ones THEN IF s.mask THEN "zeros" ELSE "ones"
  ELSE "mixed"
PointerOf(m, s) == IF s.at < m.size.pointers THEN m.ptrs[s.at + 1] ELSE "null"
ValueOf(m, s) ==
  IF s.kind = "number" THEN NumberOf(m, s) ELSE IF IsPointer(s) THEN PointerOf(m, s) ELSE "void"
ReadOf(m, s) == IF HeldTo(m.ones, s, Depth(s)) THEN ValueOf(m, s) ELSE "dead"

\* From m to n, a slot was written: nothing else has changed, and its guards hold.
Wrote(s, m, n) ==
  /\ n.size = m.size
  /\ \A b : b \notin Bits(s) /\ b \notin OwnBits(s) => (b \in n.ones <=> b \in m.ones)
  /\ \A i \in 1..m.size.pointers : n.ptrs[i] = m.ptrs[i] \/ (IsPointer(s) /\ i = s.at + 1)
  /\ HeldTo(n.ones, s, Depth(s))
\* The write left alone the union of s, if x is in it.
Settled(s, x, m, n) ==
  \/ \A b \in OwnBits(s) : b \in n.ones <=> b \in m.ones
  \/ s.own # <<>> /\ \A i \in 1..Depth(x) : Guards(x)[i].union # s.own[1].union

\* One more guard of another slot holds as it did.
LEMMA GuardKept ==
  ASSUME NEW c \in Classes, NEW s \in SlotsOf[c], NEW x \in SlotsOf[c], NEW m, NEW n,
         Wrote(s, m, n), Settled(s, x, m, n),
         NEW k \in 1..Depth(x), HeldTo(n.ones, x, k - 1)
  PROVE  Held(n.ones, Guards(x)[k]) <=> Held(m.ones, Guards(x)[k])
<1>1. PICK g : g = Guards(x)[k]
  OBVIOUS
<1>2. k - 1 \in Nat /\ k - 1 <= Depth(x) /\ Depth(s) \in Nat /\ Depth(s) <= Depth(s)
  BY GuardsOf
<1>3. AgreeTo(s, Depth(s), x, k - 1)
  BY <1>2, HeldAgree DEF Wrote
<1>4. TagBits(g.at) \cap Bits(s) = {}
  BY <1>1, <1>3, Spaced
<1>5. \A b \in TagBits(g.at) : b \in OwnBits(s) => (b \in n.ones <=> b \in m.ones)
  <2>1. CASE \A b \in OwnBits(s) : b \in n.ones <=> b \in m.ones
    BY <2>1
  <2>2. CASE s.own # <<>> /\ \A i \in 1..Depth(x) : Guards(x)[i].union # s.own[1].union
    <3>1. /\ Depth(s) \in 1..Depth(s) /\ Guards(s)[Depth(s)] = s.own[1]
          /\ OwnBits(s) = TagBits(s.own[1].at)
      BY <2>2, GuardsOf
    <3>2. Guards(s)[Depth(s)].union # g.union
      BY <1>1, <2>2, <3>1
    <3>3. AgreeTo(s, Depth(s) - 1, x, k - 1)
      <4>1. \A i \in 1..(Depth(s) - 1) : i \in 1..Depth(s)
        BY <1>2
      <4> QED BY <1>3, <4>1 DEF AgreeTo
    <3>4. TagBits(Guards(s)[Depth(s)].at) \cap TagBits(Guards(x)[k].at) = {}
      <4>1. \A j \in 1..Depth(s) :
              Guards(s)[j].union # Guards(x)[k].union /\ AgreeTo(s, j - 1, x, k - 1) =>
                TagBits(Guards(s)[j].at) \cap TagBits(Guards(x)[k].at) = {}
        BY Spaced
      <4> QED BY <1>1, <3>1, <3>2, <3>3, <4>1
    <3> QED BY <1>1, <3>1, <3>4
  <2> QED BY <2>1, <2>2 DEF Settled
<1>6. \A b \in TagBits(g.at) : b \in n.ones <=> b \in m.ones
  BY <1>4, <1>5 DEF Wrote
<1>7. n.ones \cap TagBits(g.at) = m.ones \cap TagBits(g.at)
  BY <1>6
<1> QED BY <1>1, <1>7 DEF Held

\* All of them do.
LEMMA HeldKept ==
  ASSUME NEW c \in Classes, NEW s \in SlotsOf[c], NEW x \in SlotsOf[c], NEW m, NEW n,
         Wrote(s, m, n), Settled(s, x, m, n)
  PROVE  HeldTo(n.ones, x, Depth(x)) <=> HeldTo(m.ones, x, Depth(x))
<1> DEFINE T == {k \in 1..Depth(x) :
                   ~ (Held(n.ones, Guards(x)[k]) /\ Held(m.ones, Guards(x)[k]))}
<1>1. CASE T = {}
  BY <1>1 DEF HeldTo
<1>2. CASE T # {}
  <2>1. T \subseteq Nat
    OBVIOUS
  <2>2. PICK k \in T : \A j \in T : k <= j
    BY <1>2, <2>1, LeastNumber
  <2>3. \A j \in 1..(k - 1) : j \in 1..Depth(x) /\ ~ (k <= j)
    BY GuardsOf
  <2>4. HeldTo(n.ones, x, k - 1)
    BY <2>2, <2>3 DEF HeldTo
  <2>5. Held(n.ones, Guards(x)[k]) <=> Held(m.ones, Guards(x)[k])
    BY <2>4, GuardKept
  <2>6. ~ Held(n.ones, Guards(x)[k]) /\ ~ Held(m.ones, Guards(x)[k])
    BY <2>2, <2>5
  <2> QED BY <2>6 DEF HeldTo
<1> QED BY <1>1, <1>2

\* Another slot reads as it did.
LEMMA ReadKept ==
  ASSUME NEW c \in Classes, NEW s \in SlotsOf[c], NEW x \in SlotsOf[c], x # s, NEW m, NEW n,
         m.size.pointers \in Nat, Wrote(s, m, n), Settled(s, x, m, n)
  PROVE  ReadOf(n, x) = ReadOf(m, x)
<1>1. HeldTo(n.ones, x, Depth(x)) <=> HeldTo(m.ones, x, Depth(x))
  BY HeldKept
<1>2. ASSUME HeldTo(n.ones, x, Depth(x)) PROVE ValueOf(n, x) = ValueOf(m, x)
  <2>1. Depth(x) \in Nat /\ Depth(s) \in Nat /\ Depth(x) <= Depth(x) /\ Depth(s) <= Depth(s)
    BY GuardsOf
  <2>2. AgreeTo(s, Depth(s), x, Depth(x))
    BY <1>2, <2>1, HeldAgree DEF Wrote
  <2>3. Bits(s) \cap Bits(x) = {} /\ (IsPointer(s) /\ IsPointer(x) => s.at # x.at)
    BY <2>2, Spaced
  <2>4. OwnBits(s) \cap Bits(x) = {}
    <3>1. CASE s.own = <<>>
      BY <3>1, GuardsOf
    <3>2. CASE s.own # <<>>
      <4>1. /\ Depth(s) \in 1..Depth(s) /\ Guards(s)[Depth(s)] = s.own[1]
            /\ OwnBits(s) = TagBits(s.own[1].at)
        BY <3>2, GuardsOf
      <4>2. Depth(s) - 1 \in Nat /\ Depth(s) - 1 <= Depth(s)
        BY <4>1
      <4>3. HeldTo(n.ones, s, Depth(s) - 1)
        <5>1. \A i \in 1..(Depth(s) - 1) : i \in 1..Depth(s)
          BY <2>1
        <5> QED BY <5>1 DEF Wrote, HeldTo
      <4>4. AgreeTo(x, Depth(x), s, Depth(s) - 1)
        BY <1>2, <2>1, <4>2, <4>3, HeldAgree
      <4> QED BY <4>1, <4>4, Spaced
    <3> QED BY <3>1, <3>2
  <2>5. \A b \in Bits(x) : b \in n.ones <=> b \in m.ones
    BY <2>3, <2>4 DEF Wrote
  <2>6. NumberOf(n, x) = NumberOf(m, x)
    <3>1. n.ones \cap Bits(x) = m.ones \cap Bits(x) /\ (Bits(x) \subseteq n.ones <=> Bits(x) \subseteq m.ones)
      BY <2>5
    <3> QED BY <3>1 DEF NumberOf
  <2>7. ASSUME IsPointer(x) PROVE PointerOf(n, x) = PointerOf(m, x)
    <3>1. x.at \in Nat /\ s.at \in Nat
      BY GuardsOf DEF Slot
    <3>2. ASSUME x.at < m.size.pointers PROVE n.ptrs[x.at + 1] = m.ptrs[x.at + 1]
      <4>1. x.at + 1 \in 1..m.size.pointers
        BY <3>1, <3>2
      <4>2. ~ (IsPointer(s) /\ x.at + 1 = s.at + 1)
        BY <2>3, <2>7, <3>1
      <4> QED BY <4>1, <4>2 DEF Wrote
    <3> QED BY <3>2 DEF PointerOf, Wrote
  <2> QED BY <2>6, <2>7 DEF ValueOf
<1> QED BY <1>1, <1>2 DEF ReadOf

-----------------------------------------------------------------------------
(* Writing a slot.                                                           *)

\* Chosen, guard by guard.
LEMMA ChosenIs ==
  ASSUME class \in Classes, NEW s \in SlotsOf[class]
  PROVE  /\ Chosen(Guards(s)) <=> HeldTo(ones, s, Depth(s))
         /\ Chosen(s.outer) <=> HeldTo(ones, s, Len(s.outer))
         /\ Chosen(s.own) <=> s.own = <<>> \/ Held(ones, s.own[1])
         /\ Chosen(Guards(s)) <=> Chosen(s.outer) /\ Chosen(s.own)
<1>1. /\ DOMAIN Guards(s) = 1..Depth(s) /\ DOMAIN s.outer = 1..Len(s.outer) /\ Depth(s) \in Nat
      /\ \A i \in 1..Len(s.outer) : Guards(s)[i] = s.outer[i]
      /\ s.own = <<>> => Depth(s) = Len(s.outer) /\ DOMAIN s.own = {}
      /\ s.own # <<>> => /\ Depth(s) = Len(s.outer) + 1 /\ Guards(s)[Depth(s)] = s.own[1]
                         /\ DOMAIN s.own = {1}
      /\ Len(s.outer) \in Nat
  BY GuardsOf
<1>2. Chosen(Guards(s)) <=> HeldTo(ones, s, Depth(s))
  BY <1>1 DEF Chosen, HeldTo, Held
<1>3. Chosen(s.outer) <=> HeldTo(ones, s, Len(s.outer))
  BY <1>1 DEF Chosen, HeldTo, Held
<1>4. Chosen(s.own) <=> s.own = <<>> \/ Held(ones, s.own[1])
  BY <1>1 DEF Chosen, Held
<1>5. HeldTo(ones, s, Depth(s)) <=>
        HeldTo(ones, s, Len(s.outer)) /\ (s.own = <<>> \/ Held(ones, s.own[1]))
  <2>1. CASE s.own = <<>>
    BY <1>1, <2>1
  <2>2. CASE s.own # <<>>
    <3>1. \A i \in 1..Depth(s) : i \in 1..Len(s.outer) \/ i = Depth(s)
      BY <1>1, <2>2
    <3>2. Depth(s) \in 1..Depth(s) /\ \A i \in 1..Len(s.outer) : i \in 1..Depth(s)
      BY <1>1, <2>2
    <3> QED BY <1>1, <2>2, <3>1, <3>2 DEF HeldTo
  <2> QED BY <2>1, <2>2
<1> QED BY <1>2, <1>3, <1>4, <1>5

\* A getter reads the struct as it is built.
LEMMA ReadIs ==
  ASSUME class \in Classes, NEW s \in SlotsOf[class]
  PROVE  Read(s) = ReadOf(Built, s)
<1>1. Chosen(Guards(s)) <=> HeldTo(ones, s, Depth(s))
  BY ChosenIs
<1>2. Built.ones = ones /\ Built.size = size /\ Built.ptrs = ptrs
  BY DEF Built
<1>3. ASSUME s.kind = "number" PROVE NumberIn(s) = NumberOf(Built, s)
  <2>1. Bits(s) # {}
    <3>1. s \in Slot /\ s.width > 0
      BY <1>3, GuardsOf, Nested
    <3>2. s.at \in Nat /\ s.width \in Nat
      BY <3>1 DEF Slot
    <3>3. s.at \in Bits(s)
      BY <3>1, <3>2 DEF Bits, Range_
    <3> QED BY <3>3
  <2>2. ~ (ones \cap Bits(s) = {} /\ Bits(s) \subseteq ones)
    BY <2>1
  <2> QED BY <1>2, <2>2 DEF NumberIn, NumberOf
<1>4. s.kind = "number" => ~ IsPointer(s)
  BY DEF IsPointer, PointerKinds
<1>5. ValueIn(s) = ValueOf(Built, s)
  BY <1>2, <1>3, <1>4 DEF ValueIn, ValueOf, PointerOf
<1> QED BY <1>1, <1>2, <1>5 DEF Read, ReadOf

\* A slot's guards are apart from each other and from its bits.
LEMMA OwnGuardsApart ==
  ASSUME NEW c \in Classes, NEW s \in SlotsOf[c]
  PROVE  /\ \A i \in 1..Depth(s) : TagBits(Guards(s)[i].at) \cap Bits(s) = {}
         /\ \A i, j \in 1..Depth(s) : i # j =>
              TagBits(Guards(s)[i].at) \cap TagBits(Guards(s)[j].at) = {}
<1>1. \A n, k : AgreeTo(s, n, s, k)
  BY DEF AgreeTo
<1>2. \A i \in 1..Depth(s) : TagBits(Guards(s)[i].at) \cap Bits(s) = {}
  BY <1>1, Spaced
<1>3. ASSUME NEW i \in 1..Depth(s), NEW j \in 1..Depth(s), i # j
      PROVE  TagBits(Guards(s)[i].at) \cap TagBits(Guards(s)[j].at) = {}
  <2>1. Guards(s)[i].union # Guards(s)[j].union
    BY <1>3, Nested
  <2>2. \A k \in 1..Depth(s) :
          Guards(s)[k].union # Guards(s)[j].union /\ AgreeTo(s, k - 1, s, j - 1) =>
            TagBits(Guards(s)[k].at) \cap TagBits(Guards(s)[j].at) = {}
    BY Spaced
  <2> QED BY <1>1, <2>1, <2>2
<1> QED BY <1>2, <1>3

\* A setter's write is one of its slot only, and chooses its member.
LEMMA SlotWritten ==
  ASSUME class \in Classes, NEW s \in SlotsOf[class], Chosen(s.outer),
         NEW n, n.size = size, \A b : b \notin Bits(s) => (b \in n.ones <=> b \in WithTag(s)),
         \A i \in 1..size.pointers : n.ptrs[i] = ptrs[i] \/ (IsPointer(s) /\ i = s.at + 1)
  PROVE  /\ Wrote(s, Built, n)
         /\ Chosen(s.own) => \A b \in OwnBits(s) : b \in n.ones <=> b \in ones
<1>1. /\ Depth(s) \in Nat /\ Len(s.outer) \in Nat
      /\ s.own = <<>> => Depth(s) = Len(s.outer) /\ OwnBits(s) = {}
      /\ s.own # <<>> => /\ Depth(s) = Len(s.outer) + 1 /\ Guards(s)[Depth(s)] = s.own[1]
                         /\ OwnBits(s) = TagBits(s.own[1].at)
  BY GuardsOf
<1>2. \A b : b \notin OwnBits(s) => (b \in WithTag(s) <=> b \in ones)
  BY <1>1 DEF WithTag, TagOnes
<1>3. OwnBits(s) \cap Bits(s) = {}
  <2>1. s.own # <<>> => Depth(s) \in 1..Depth(s)
    BY <1>1
  <2> QED BY <1>1, <2>1, OwnGuardsApart
<1>4. s.own # <<>> => \A b \in OwnBits(s) : b \in n.ones <=> b \in TagOnes(s.own[1])
  BY <1>1, <1>3 DEF WithTag
<1>5. ASSUME NEW i \in 1..Depth(s) PROVE Held(n.ones, Guards(s)[i])
  <2>1. CASE s.own # <<>> /\ i = Depth(s)
    <3>1. n.ones \cap TagBits(s.own[1].at) = TagOnes(s.own[1])
      BY <1>1, <1>4, <2>1 DEF TagOnes
    <3> QED BY <1>1, <2>1, <3>1 DEF Held
  <2>2. CASE s.own = <<>> \/ i # Depth(s)
    <3>1. i \in 1..Len(s.outer)
      BY <1>1, <2>2
    <3>2. Held(ones, Guards(s)[i])
      BY <3>1, ChosenIs DEF HeldTo
    <3>3. TagBits(Guards(s)[i].at) \cap OwnBits(s) = {}
      <4>1. s.own # <<>> => Depth(s) \in 1..Depth(s)
        BY <1>1
      <4> QED BY <1>1, <2>2, <4>1, OwnGuardsApart
    <3>4. TagBits(Guards(s)[i].at) \cap Bits(s) = {}
      BY OwnGuardsApart
    <3>5. n.ones \cap TagBits(Guards(s)[i].at) = ones \cap TagBits(Guards(s)[i].at)
      BY <1>2, <3>3, <3>4
    <3> QED BY <3>2, <3>5 DEF Held
  <2> QED BY <2>1, <2>2
<1>6. Wrote(s, Built, n)
  BY <1>2, <1>5 DEF Wrote, Built, HeldTo
<1>7. ASSUME Chosen(s.own) PROVE \A b \in OwnBits(s) : b \in n.ones <=> b \in ones
  <2>1. CASE s.own = <<>>
    BY <1>1, <2>1
  <2>2. CASE s.own # <<>>
    <3>1. ones \cap TagBits(s.own[1].at) = TagOnes(s.own[1])
      BY <1>7, <2>2, ChosenIs DEF Held
    <3> QED BY <1>1, <1>4, <2>2, <3>1
  <2> QED BY <2>1, <2>2
<1> QED BY <1>6, <1>7

-----------------------------------------------------------------------------
(* What the application expects after a write.                               *)

\* Where another slot is in the union a slot is a member of.
LEMMA UnionIs ==
  ASSUME NEW c \in Classes, NEW s \in SlotsOf[c], NEW x \in SlotsOf[c]
  PROVE  \/ /\ Union(s, Guards(x)) = 0
            /\ s.own = <<>> \/ \A i \in 1..Depth(x) : Guards(x)[i].union # s.own[1].union
         \/ /\ s.own # <<>> /\ Depth(s) \in 1..Depth(s) /\ Depth(s) \in 1..Depth(x)
            /\ Union(s, Guards(x)) = Depth(s) /\ Guards(s)[Depth(s)] = s.own[1]
            /\ Guards(x)[Depth(s)].union = s.own[1].union
            /\ Guards(x)[Depth(s)].at = s.own[1].at /\ SameTo(s, x, Depth(s) - 1)
<1> DEFINE same == {i \in DOMAIN Guards(x) : s.own # <<>> /\ Guards(x)[i].union = s.own[1].union}
<1>1. DOMAIN Guards(x) = 1..Depth(x) /\ Depth(s) \in Nat /\ Depth(x) \in Nat /\ Len(s.outer) \in Nat
      /\ (s.own # <<>> => Guards(s)[Depth(s)] = s.own[1] /\ Depth(s) = Len(s.outer) + 1)
  BY GuardsOf
<1>2. Union(s, Guards(x)) = IF same = {} THEN 0 ELSE Max(same)
  BY DEF Union
<1>3. CASE same = {}
  BY <1>1, <1>2, <1>3
<1>4. CASE same # {}
  <2>1. s.own # <<>> /\ Depth(s) \in 1..Depth(s)
    BY <1>1, <1>4
  <2>2. ASSUME NEW i \in same
        PROVE  /\ i = Depth(s) /\ i \in 1..Depth(x)
               /\ Guards(x)[i].at = s.own[1].at /\ SameTo(s, x, Depth(s) - 1)
    <3>1. i \in 1..Depth(x) /\ Guards(s)[Depth(s)].union = Guards(x)[i].union
      BY <1>1, <2>1
    <3>2. Depth(s) = i /\ Guards(s)[Depth(s)].at = Guards(x)[i].at /\ SameTo(s, x, Depth(s) - 1)
      BY <2>1, <3>1, Nested
    <3> QED BY <1>1, <2>1, <3>1, <3>2
  <2>3. same = {Depth(s)}
    BY <1>4, <2>2
  <2>4. Max({Depth(s)}) = Depth(s)
    BY <1>1 DEF Max
  <2> HIDE DEF same
  <2>5. Union(s, Guards(x)) = Depth(s) /\ Depth(s) \in same
    BY <1>2, <1>4, <2>3, <2>4
  <2> QED BY <1>1, <2>1, <2>2, <2>5 DEF same
<1> QED BY <1>3, <1>4

\* Any value a slot can have is told from "dead".
LEMMA ReadAlive ==
  ASSUME NEW m \in StructState, NEW c \in Classes, NEW s \in SlotsOf[c]
  PROVE  /\ ValueOf(m, s) # "dead"
         /\ ReadOf(m, s) = "dead" <=> ~ HeldTo(m.ones, s, Depth(s))
<1>1. NumberOf(m, s) \in {"ones", "zeros", "mixed"}
  BY DEF NumberOf
<1>2. ASSUME IsPointer(s) PROVE PointerOf(m, s) \in Values
  <2>1. PICK p \in Seq(Values) : /\ p = m.ptrs /\ Len(p) = m.size.pointers
                                 /\ s.at \in Nat /\ m.size.pointers \in Nat
    <3>1. s \in Slot
      BY GuardsOf
    <3>2. \A k \in Uint16 : k \in Nat
      BY Sixteen
    <3> QED BY <3>1, <3>2 DEF Slot, StructState
  <2>2. ASSUME s.at < m.size.pointers PROVE m.ptrs[s.at + 1] \in Values
    <3>1. s.at + 1 \in 1..Len(p)
      BY <2>1, <2>2
    <3>2. p[s.at + 1] \in Values
      BY <3>1, ElementOfSeq
    <3> QED BY <2>1, <3>2
  <2> QED BY <2>2 DEF PointerOf, Values
<1>3. ValueOf(m, s) # "dead"
  BY <1>1, <1>2 DEF ValueOf, Values
<1> QED BY <1>3 DEF ReadOf

\* The members of a group that was chosen over no leftovers are as in a new struct.
LEMMA FreshBelow ==
  ASSUME class \in Classes, NEW s \in SlotsOf[class], NEW x \in SlotsOf[class], x # s,
         s.own # <<>>, Depth(s) <= Depth(x), SameTo(s, x, Depth(s)), ~ Leftovers(s),
         NEW n, n.size = size, n.ones = WithTag(s), n.ptrs = ptrs, Wrote(s, Built, n)
  PROVE  ReadOf(n, x) = FreshUnless(x, SubSeq(Guards(x), Depth(s) + 1, Len(Guards(x))))
<1>1. PICK d \in Nat \ {0}, e \in Nat : d = Depth(s) /\ e = Depth(x) /\ d <= e
  BY GuardsOf
<1>2. /\ DOMAIN Guards(x) = 1..e /\ Guards(x) \in Seq(Guard) /\ Len(Guards(x)) = e
      /\ \A i \in 1..e : Guards(x)[i] \in Guard
      /\ Guards(s)[d] = s.own[1] /\ OwnBits(s) = TagBits(s.own[1].at)
  BY <1>1, GuardsOf DEF Depth
<1>3. d \in 1..d /\ d \in 1..e /\ Guards(x)[d] = s.own[1]
  BY <1>1, <1>2 DEF SameTo
<1>4. ASSUME NEW y \in SlotsOf[class], y # s, Depth(s) <= Depth(y), SameTo(s, y, Depth(s))
      PROVE  /\ ones \cap Bits(y) = {} /\ ones \cap OwnBits(y) = {}
             /\ ~ (IsPointer(y) /\ y.at < size.pointers /\ ptrs[y.at + 1] # "null")
  <2>1. Len(y.path) > Len(s.path) /\ SubSeq(y.path, 1, Len(s.path)) = s.path
    <3>1. Len(s.path) < Len(y.path) /\ SubSeq(y.path, 1, Len(s.path)) = s.path
      BY <1>4, Nested
    <3>2. Len(s.path) \in Nat /\ Len(y.path) \in Nat
      <4>1. s \in Slot /\ y \in Slot
        BY GuardsOf
      <4> QED BY <4>1, LenProperties DEF Slot
    <3> QED BY <3>1, <3>2
  <2> QED BY <2>1 DEF Leftovers, OwnBits
<1>5. ASSUME NEW i \in (d + 1)..e PROVE ones \cap TagBits(Guards(x)[i].at) = {}
  <2>1. i \in 1..e /\ i \in Nat /\ i > d
    BY <1>1
  <2>2. CASE i \in 1..Len(x.outer)
    <3>1. PICK y \in SlotsOf[class] : y.own # <<>> /\ Depth(y) = i /\ SameTo(y, x, i)
      BY <2>2, Nested
    <3>2. y # s /\ d <= i
      BY <1>1, <2>1, <3>1
    <3>3. SameTo(s, y, d)
      <4>1. \A k \in 1..d : k \in 1..i
        BY <2>1
      <4> QED BY <1>1, <3>1, <4>1 DEF SameTo
    <3>4. OwnBits(y) = TagBits(y.own[1].at) /\ Guards(y)[i] = y.own[1] /\ i \in 1..i
      BY <2>1, <3>1, GuardsOf
    <3>5. Guards(x)[i] = y.own[1]
      BY <3>1, <3>4 DEF SameTo
    <3> QED BY <1>1, <1>4, <3>1, <3>2, <3>3, <3>4, <3>5
  <2>3. CASE i \notin 1..Len(x.outer)
    <3>1. x.own # <<>> /\ i = e
      <4>1. Len(x.outer) \in Nat /\ (x.own = <<>> => e = Len(x.outer))
            /\ (x.own # <<>> => e = Len(x.outer) + 1)
        BY <1>1, GuardsOf
      <4> QED BY <2>1, <2>3, <4>1
    <3>2. OwnBits(x) = TagBits(Guards(x)[i].at)
      BY <1>1, <3>1, GuardsOf
    <3> QED BY <1>1, <1>4, <3>2
  <2> QED BY <2>2, <2>3
<1>6. \A b : b \notin OwnBits(s) => (b \in n.ones <=> b \in ones)
  BY <1>2 DEF WithTag, TagOnes
<1>7. ASSUME NEW i \in (d + 1)..e PROVE Held(n.ones, Guards(x)[i]) <=> Guards(x)[i].tag = 0
  <2>1. i \in 1..e /\ i # d
    BY <1>1
  <2>2. TagBits(Guards(x)[i].at) \cap OwnBits(s) = {}
    BY <1>1, <1>2, <1>3, <2>1, OwnGuardsApart
  <2>3. n.ones \cap TagBits(Guards(x)[i].at) = {}
    BY <1>5, <1>6, <2>2
  <2>4. TagOnes(Guards(x)[i]) = {} <=> Guards(x)[i].tag = 0
    BY <1>2, <2>1, TagOfFirst
  <2> QED BY <2>3, <2>4 DEF Held
<1>8. \A i \in 1..d : Held(n.ones, Guards(x)[i])
  BY <1>1 DEF Wrote, HeldTo, SameTo
<1>9. HeldTo(n.ones, x, e) <=> \A i \in (d + 1)..e : Guards(x)[i].tag = 0
  <2>1. \A i \in 1..e : i \in 1..d \/ i \in (d + 1)..e
    BY <1>1
  <2>2. \A i \in (d + 1)..e : i \in 1..e
    BY <1>1
  <2> QED BY <1>7, <1>8, <2>1, <2>2 DEF HeldTo
<1>10. PICK g : /\ g = SubSeq(Guards(x), d + 1, e) /\ DOMAIN g = 1..(e - d)
                /\ \A k \in 1..(e - d) : g[k] = Guards(x)[d + k]
  <2>0. PICK a \in Int : a = d + 1
    OBVIOUS
  <2>1. PICK h \in Seq(Guard) : h = Guards(x)
    BY <1>2
  <2>2. PICK f : f = SubSeq(h, a, e)
    OBVIOUS
  <2>3. \A i \in a..e : h[i] \in Guard
    BY <1>1, <1>2, <2>0, <2>1
  <2>4. /\ f \in Seq(Guard) /\ Len(f) = (IF a <= e THEN e - a + 1 ELSE 0)
        /\ \A k \in 1..(e - a + 1) : f[k] = h[a + k - 1]
    BY <2>3, <2>2, SubSeqProperties
  <2>5. Len(f) = e - d /\ \A k \in 1..(e - d) : f[k] = h[d + k]
    <3>1. Len(f) = e - d
      BY ONLY <1>1, <2>0, <2>4
    <3>2. \A k \in 1..(e - d) : k \in 1..(e - a + 1) /\ a + k - 1 = d + k
      BY ONLY <1>1, <2>0
    <3> QED BY <2>4, <3>1, <3>2
  <2>6. DOMAIN f = 1..(e - d)
    BY <2>4, <2>5, LenProperties
  <2> QED BY <1>2, <2>0, <2>1, <2>5, <2>6, <2>2
<1>11. (\E k \in DOMAIN g : g[k].tag # 0) <=> \E i \in (d + 1)..e : Guards(x)[i].tag # 0
  <2>1. \A k \in 1..(e - d) : d + k \in (d + 1)..e
    BY <1>1
  <2>2. ASSUME NEW i \in (d + 1)..e, Guards(x)[i].tag # 0 PROVE \E k \in DOMAIN g : g[k].tag # 0
    <3>1. i - d \in 1..(e - d) /\ d + (i - d) = i
      BY <1>1
    <3> QED BY <1>10, <2>2, <3>1
  <2> QED BY <1>10, <2>1, <2>2
<1>12. ValueOf(n, x) = Fresh(x)
  <2>1. /\ ones \cap Bits(x) = {}
        /\ ~ (IsPointer(x) /\ x.at < size.pointers /\ ptrs[x.at + 1] # "null")
    BY <1>4
  <2>2. TagBits(Guards(x)[d].at) \cap Bits(x) = {}
    BY <1>1, <1>3, OwnGuardsApart
  <2>3. n.ones \cap Bits(x) = {}
    BY <1>2, <1>3, <1>6, <2>1, <2>2
  <2>4. x.kind = "number" => ~ IsPointer(x)
    BY DEF IsPointer, PointerKinds
  <2> QED BY <2>1, <2>3, <2>4 DEF ValueOf, NumberOf, PointerOf, Fresh
<1>13. FreshUnless(x, g) = IF HeldTo(n.ones, x, e) THEN Fresh(x) ELSE "dead"
  BY <1>9, <1>11 DEF FreshUnless
<1> QED BY <1>1, <1>2, <1>10, <1>12, <1>13 DEF ReadOf

\* The application expects what is read, before the message is sent and after.
Agrees(m) == \A s \in SlotsOf[class] : expected[s.path] = ReadOf(m, s)

\* After a write, every slot reads as After says it is expected to.
LEMMA AfterReads ==
  ASSUME class \in Classes, Built \in StructState, Agrees(Built),
         NEW s \in SlotsOf[class], Chosen(s.outer),
         NEW n, Wrote(s, Built, n),
         Chosen(s.own) => \A b \in OwnBits(s) : b \in n.ones <=> b \in ones,
         Chosen(s.own) \/ s.kind # "group" \/
           (~ Leftovers(s) /\ n.size = size /\ n.ones = WithTag(s) /\ n.ptrs = ptrs),
         NEW value, ReadOf(n, s) = value, value # "dead",
         NEW x \in SlotsOf[class]
  PROVE  AfterFor(x, s, value) = ReadOf(n, x)
<1>1. CASE x.path = s.path
  BY <1>1, Nested DEF AfterFor
<1>2. CASE x.path # s.path
  <2>1. x # s /\ AfterFor(x, s, value) = AfterChoice(x, s, Guards(x), Union(s, Guards(x)))
    BY <1>2 DEF AfterFor
  <2>2. expected[x.path] = ReadOf(Built, x) /\ expected[s.path] = ReadOf(Built, s)
    BY DEF Agrees
  <2>3. Built.size.pointers \in Nat /\ Built.ones = ones
    <3>1. \A k \in Uint16 : k \in Nat
      BY Sixteen
    <3>2. Built.size.pointers \in Uint16
      BY DEF StructState
    <3> QED BY <3>1, <3>2 DEF Built
  <2>4. expected[s.path] # "dead" <=> Chosen(s.own)
    <3>1. ReadOf(Built, s) = "dead" <=> ~ HeldTo(ones, s, Depth(s))
      BY <2>3, ReadAlive
    <3> QED BY <2>2, <3>1, ChosenIs
  <2>5. ASSUME Settled(s, x, Built, n) PROVE ReadOf(n, x) = expected[x.path]
    BY <2>1, <2>2, <2>3, <2>5, ReadKept
  <2>6. CASE /\ Union(s, Guards(x)) = 0
             /\ s.own = <<>> \/ \A i \in 1..Depth(x) : Guards(x)[i].union # s.own[1].union
    <3>1. AfterFor(x, s, value) = expected[x.path]
      BY <2>1, <2>6 DEF AfterChoice
    <3>2. Settled(s, x, Built, n)
      <4>1. s.own = <<>> => OwnBits(s) = {}
        BY GuardsOf
      <4> QED BY <2>6, <4>1 DEF Settled
    <3> QED BY <2>5, <3>1, <3>2
  <2>7. CASE /\ s.own # <<>> /\ Depth(s) \in 1..Depth(s) /\ Depth(s) \in 1..Depth(x)
             /\ Union(s, Guards(x)) = Depth(s) /\ Guards(s)[Depth(s)] = s.own[1]
             /\ Guards(x)[Depth(s)].union = s.own[1].union
             /\ Guards(x)[Depth(s)].at = s.own[1].at /\ SameTo(s, x, Depth(s) - 1)
    <3>1. PICK d \in Nat \ {0}, g \in Guard, h \in Guard :
            d = Depth(s) /\ g = s.own[1] /\ h = Guards(x)[d] /\ d \in 1..Depth(x)
      <4>1. Depth(s) \in Nat \ {0} /\ Guards(s)[Depth(s)] \in Guard /\ Guards(x)[Depth(s)] \in Guard
        BY <2>7, GuardsOf
      <4> QED BY <2>7, <4>1
    <3>2. AfterFor(x, s, value) = AfterChoice(x, s, Guards(x), d) /\ d # 0 /\ d > 0
      BY <2>1, <2>7, <3>1
    <3>3. CASE h.tag # g.tag
      <4>1. AfterFor(x, s, value) = "dead"
        BY <3>1, <3>2, <3>3 DEF AfterChoice
      <4>2. Held(n.ones, g)
        BY <2>7, <3>1 DEF Wrote, HeldTo
      <4>3. ~ Held(n.ones, h)
        <5>1. ASSUME Held(n.ones, h) PROVE FALSE
          <6>1. h.at = g.at /\ TagOnes(g) = TagOnes(h)
            BY <2>7, <3>1, <4>2, <5>1 DEF Held
          <6> QED BY <3>3, <6>1, TagTold
        <5> QED BY <5>1
      <4>4. ~ HeldTo(n.ones, x, Depth(x))
        BY <3>1, <4>3 DEF HeldTo
      <4> QED BY <4>1, <4>4 DEF ReadOf
    <3>4. CASE h.tag = g.tag /\ Chosen(s.own)
      <4>1. AfterFor(x, s, value) = expected[x.path]
        BY <2>4, <3>1, <3>2, <3>4 DEF AfterChoice
      <4>2. Settled(s, x, Built, n)
        BY <2>3, <3>4 DEF Settled
      <4> QED BY <2>5, <4>1, <4>2
    <3>5. CASE h.tag = g.tag /\ ~ Chosen(s.own)
      <4>1. AfterFor(x, s, value) = FreshUnless(x, SubSeq(Guards(x), d + 1, Len(Guards(x))))
        BY <2>4, <3>1, <3>2, <3>5 DEF AfterChoice
      <4>2. h = g
        BY <2>7, <3>1, <3>5 DEF Guard
      <4>3. SameTo(s, x, Depth(s))
        <5>1. \A i \in 1..Depth(s) : i \in 1..(Depth(s) - 1) \/ i = Depth(s)
          BY <3>1
        <5> QED BY <2>7, <3>1, <4>2, <5>1 DEF SameTo
      <4>4. Depth(s) <= Depth(x)
        BY <3>1, GuardsOf
      <4>5. s.kind = "group"
        BY <2>1, <2>7, <4>3, <4>4, Nested
      <4>6. ReadOf(n, x) = FreshUnless(x, SubSeq(Guards(x), Depth(s) + 1, Len(Guards(x))))
        BY <2>1, <2>7, <3>5, <4>3, <4>4, <4>5, FreshBelow
      <4> QED BY <3>1, <4>1, <4>6
    <3> QED BY <3>3, <3>4, <3>5
  <2> QED BY <2>6, <2>7, UnionIs
<1> QED BY <1>1, <1>2

-----------------------------------------------------------------------------
(* The invariant: the application expects what is read, wherever the struct   *)
(* is; while it is under way, a message that agrees was packed (WireInv).     *)
(* StructInv is what is left of it where groups are chosen over leftovers.    *)

WireTypes ==
  /\ class \in Classes /\ Built \in StructState /\ DOMAIN expected = Paths(class)
  /\ phase \in {"build", "sent", "received", "grown"}
UnderWay ==
  \E m \in StructState, split \in BOOLEAN :
    wire = PackedStream(SegmentsOf(m, split)) /\ Agrees(m)
StructInv ==
  /\ WireTypes
  /\ phase = "sent" =>
       \E m \in StructState, split \in BOOLEAN : wire = PackedStream(SegmentsOf(m, split))
WireInv ==
  /\ WireTypes
  /\ phase # "sent" => Agrees(Built)
  /\ phase = "sent" => UnderWay

\* The one invariant is part of the other.
LEMMA WireIsStruct ==
  ASSUME WireInv
  PROVE  StructInv
BY DEF WireInv, StructInv, UnderWay

\* The struct that is built, field by field.
LEMMA BuiltFields ==
  /\ Built.size = size /\ Built.ones = ones /\ Built.ptrs = ptrs
  /\ Built \in StructState =>
       /\ size \in [data : Uint16, pointers : Uint16] /\ ones \subseteq 0..(64 * size.data - 1)
       /\ ptrs \in Seq(Values) /\ Len(ptrs) = size.pointers
       /\ size.data \in Nat /\ size.pointers \in Nat /\ DOMAIN ptrs = 1..size.pointers
<1>1. Built.size = size /\ Built.ones = ones /\ Built.ptrs = ptrs
  BY DEF Built
<1>2. ASSUME Built \in StructState
      PROVE  /\ size \in [data : Uint16, pointers : Uint16] /\ ones \subseteq 0..(64 * size.data - 1)
             /\ ptrs \in Seq(Values) /\ Len(ptrs) = size.pointers
             /\ size.data \in Nat /\ size.pointers \in Nat /\ DOMAIN ptrs = 1..size.pointers
  <2>1. /\ size \in [data : Uint16, pointers : Uint16] /\ ones \subseteq 0..(64 * size.data - 1)
        /\ ptrs \in Seq(Values) /\ Len(ptrs) = size.pointers
    BY <1>1, <1>2 DEF StructState
  <2>2. size.data \in Nat /\ size.pointers \in Nat
    BY <2>1, Sixteen
  <2> QED BY <2>1, <2>2, LenProperties
<1> QED BY <1>1, <1>2

\* One slot was given a value, and what is expected has changed with it.
LEMMA WriteAgrees ==
  ASSUME WireTypes, NEW s \in SlotsOf[class], Writing(s),
         \A b : b \notin Bits(s) => (b \in ones' <=> b \in WithTag(s)),
         ptrs' \in Seq(Values), Len(ptrs') = size.pointers,
         \A i \in 1..size.pointers : ptrs'[i] = ptrs[i] \/ (IsPointer(s) /\ i = s.at + 1)
  PROVE  /\ WireTypes' <=> DOMAIN expected' = Paths(class)
         /\ Wrote(s, Built, Built') /\ Built' \in StructState
         /\ Chosen(s.own) => \A b \in OwnBits(s) : b \in ones' <=> b \in ones
<1>1. /\ class' = class /\ size' = size /\ phase' = phase /\ phase # "sent"
      /\ InBounds(s) /\ Chosen(s.outer) /\ class \in Classes /\ Built \in StructState
  BY DEF Writing, WireTypes
<1>2. PICK n : n = Built' /\ n = [size |-> size, ones |-> ones', ptrs |-> ptrs']
  BY <1>1 DEF Built
<1>3. n.size = size /\ n.ones = ones' /\ n.ptrs = ptrs'
  BY <1>2
<1>4. Wrote(s, Built, n) /\ (Chosen(s.own) => \A b \in OwnBits(s) : b \in n.ones <=> b \in ones)
  BY <1>1, <1>3, SlotWritten
<1>5. ones' \subseteq 0..(64 * size.data - 1)
  <2>1. Bits(s) \subseteq 0..(64 * size.data - 1) /\ ones \subseteq 0..(64 * size.data - 1)
    BY <1>1, BuiltFields DEF InBounds
  <2>2. s.own # <<>> => TagBits(s.own[1].at) \subseteq 0..(64 * size.data - 1)
    <3>1. s.own # <<>> => 1 \in DOMAIN s.own
      BY <1>1, GuardsOf
    <3> QED BY <1>1, <3>1 DEF InBounds
  <2>3. WithTag(s) \subseteq 0..(64 * size.data - 1)
    BY <2>1, <2>2 DEF WithTag, TagOnes
  <2> QED BY <2>1, <2>3
<1>6. n \in StructState
  <2>1. size \in [data : Uint16, pointers : Uint16] /\ size.data \in Nat
    BY <1>1, BuiltFields
  <2>2. ones' \in SUBSET Nat
    BY <1>5, <2>1
  <2> QED BY <1>2, <1>5, <2>1, <2>2 DEF StructState
<1>7. WireTypes' <=> DOMAIN expected' = Paths(class)
  BY <1>1, <1>2, <1>6 DEF WireTypes
<1> QED BY <1>2, <1>3, <1>4, <1>6, <1>7

\* A setter keeps the invariant, if what it stores reads as the value it was given.
LEMMA WriteStep ==
  ASSUME WireInv, NEW s \in SlotsOf[class], Writing(s),
         \A b : b \notin Bits(s) => (b \in ones' <=> b \in WithTag(s)),
         ptrs' \in Seq(Values), Len(ptrs') = size.pointers,
         \A i \in 1..size.pointers : ptrs'[i] = ptrs[i] \/ (IsPointer(s) /\ i = s.at + 1),
         Chosen(s.own) \/ s.kind # "group" \/
           (~ Leftovers(s) /\ ones' = WithTag(s) /\ ptrs' = ptrs),
         NEW value, ValueOf(Built', s) = value, expected' = After(s, value)
  PROVE  WireInv'
<1>1. /\ class' = class /\ size' = size /\ phase' = phase /\ phase # "sent"
      /\ Chosen(s.outer) /\ class \in Classes /\ Built \in StructState
      /\ Agrees(Built) /\ DOMAIN expected = Paths(class)
  BY DEF Writing, WireInv, WireTypes
<1>2. DOMAIN expected' = Paths(class)
  BY <1>1 DEF After
<1>3. /\ WireTypes' /\ Wrote(s, Built, Built') /\ Built' \in StructState
      /\ Chosen(s.own) => \A b \in OwnBits(s) : b \in ones' <=> b \in ones
  BY <1>2, WriteAgrees DEF WireInv
<1>4. PICK n \in StructState : n = Built' /\ n.size = size /\ n.ones = ones' /\ n.ptrs = ptrs'
  BY <1>1, <1>3 DEF Built
<1>5. ReadOf(n, s) = value /\ value # "dead"
  BY <1>1, <1>3, <1>4, ReadAlive DEF ReadOf, Wrote
<1>6. ASSUME NEW x \in SlotsOf[class] PROVE expected'[x.path] = ReadOf(n, x)
  <2>1. AfterFor(x, s, value) = ReadOf(n, x)
    BY <1>1, <1>3, <1>4, <1>5, AfterReads
  <2>2. x.path \in Paths(class)
    BY DEF Paths
  <2>3. SlotAt(x.path) = x
    <3>1. \A y \in SlotsOf[class] : y.path = x.path => y = x
      BY <1>1, Nested
    <3> QED BY <3>1 DEF SlotAt
  <2> QED BY <1>1, <2>1, <2>2, <2>3 DEF After
<1>7. Agrees(Built)'
  BY <1>1, <1>4, <1>6 DEF Agrees
<1> QED BY <1>1, <1>3, <1>7 DEF WireInv

\* A slot whose member is the one chosen was given another value.
LEMMA ChangeStep ==
  ASSUME WireInv, NEW s \in SlotsOf[class], Writing(s), Chosen(s.own), ones' = ones,
         ptrs' \in Seq(Values), Len(ptrs') = size.pointers,
         \A i \in 1..size.pointers : ptrs'[i] = ptrs[i] \/ (IsPointer(s) /\ i = s.at + 1),
         NEW value, ValueOf(Built', s) = value, expected' = [expected EXCEPT ![s.path] = value]
  PROVE  WireInv'
<1>1. /\ class' = class /\ size' = size /\ phase' = phase /\ phase # "sent"
      /\ Chosen(s.outer) /\ class \in Classes /\ Built \in StructState
      /\ Agrees(Built) /\ DOMAIN expected = Paths(class)
  BY DEF Writing, WireInv, WireTypes
<1>2. DOMAIN expected' = Paths(class)
  BY <1>1
<1>3. WithTag(s) = ones
  <2>1. s.own # <<>> => ones \cap TagBits(s.own[1].at) = TagOnes(s.own[1])
    BY <1>1, ChosenIs DEF Held
  <2> QED BY <2>1 DEF WithTag
<1>4. WireTypes' /\ Wrote(s, Built, Built') /\ Built' \in StructState
  BY <1>2, <1>3, WriteAgrees DEF WireInv
<1>5. PICK n \in StructState : n = Built' /\ n.size = size /\ n.ones = ones' /\ n.ptrs = ptrs'
  BY <1>1, <1>4 DEF Built
<1>6. ASSUME NEW x \in SlotsOf[class] PROVE expected'[x.path] = ReadOf(n, x)
  <2>1. x.path \in Paths(class)
    BY DEF Paths
  <2>2. CASE x = s
    BY <1>1, <1>4, <1>5, <2>1, <2>2 DEF ReadOf, Wrote
  <2>3. CASE x # s
    <3>1. x.path # s.path
      BY <1>1, <2>3, Nested
    <3>2. Settled(s, x, Built, n)
      BY <1>5, BuiltFields DEF Settled
    <3>3. Built.size.pointers \in Nat
      BY <1>1, BuiltFields
    <3>4. ReadOf(n, x) = ReadOf(Built, x)
      BY <1>1, <1>4, <1>5, <2>3, <3>2, <3>3, ReadKept
    <3> QED BY <1>1, <2>1, <3>1, <3>4 DEF Agrees
  <2> QED BY <2>2, <2>3
<1>7. Agrees(Built)'
  BY <1>1, <1>5, <1>6 DEF Agrees
<1> QED BY <1>1, <1>4, <1>7 DEF WireInv

-----------------------------------------------------------------------------
(* Action by action.                                                         *)

\* A fresh struct reads as its defaults.
LEMMA WireInit ==
  ASSUME Init
  PROVE  WireInv
<1>1. /\ class \in Classes /\ size \in Sizes(Layouts[class]) /\ ones = {}
      /\ ptrs = [i \in 1..size.pointers |-> "null"] /\ phase = "build"
      /\ expected = [p \in Paths(class) |-> FirstValue(SlotAt(p))]
  BY DEF Init
<1>2. size \in [data : Uint16, pointers : Uint16] /\ size.pointers \in Nat /\ size.data \in Nat
  <2>1. Layouts[class].data \in Uint16 /\ Layouts[class].pointers \in Uint16
    BY <1>1, LayoutsAssumption
  <2>2. \A k \in Uint16 : k \in Nat /\ \A j \in {k - 1} \cap Nat : j \in Uint16
    BY SmallNumbers, SMT
  <2>3. PICK d \in Uint16, p \in Uint16 : size = [data |-> d, pointers |-> p]
    BY <1>1, <2>1, <2>2 DEF Sizes
  <2> QED BY <2>2, <2>3
<1>3. Built \in StructState
  <2>1. "null" \in Values
    BY DEF Values
  <2>2. PICK n \in Nat : n = size.pointers
    BY <1>2
  <2>3. ptrs \in [1..n -> Values]
    BY <1>1, <2>1, <2>2
  <2>4. ptrs \in Seq(Values) /\ Len(ptrs) = n
    BY <2>3, SeqOfFunction
  <2> QED BY <1>1, <1>2, <2>2, <2>4 DEF Built, StructState
<1>4. ASSUME NEW x \in SlotsOf[class] PROVE expected[x.path] = ReadOf(Built, x)
  <2>1. x.path \in Paths(class) /\ SlotAt(x.path) = x
    <3>1. \A y \in SlotsOf[class] : y.path = x.path => y = x
      BY <1>1, Nested
    <3> QED BY <3>1 DEF SlotAt, Paths
  <2>2. expected[x.path] = FreshUnless(x, Guards(x))
    BY <1>1, <2>1 DEF FirstValue
  <2>3. DOMAIN Guards(x) = 1..Depth(x) /\ \A i \in 1..Depth(x) : Guards(x)[i] \in Guard
    BY <1>1, GuardsOf
  <2>4. \A i \in 1..Depth(x) : Held(ones, Guards(x)[i]) <=> Guards(x)[i].tag = 0
    BY <1>1, <2>3, TagOfFirst DEF Held
  <2>5. ValueOf(Built, x) = Fresh(x)
    <3>1. x.kind = "number" => ~ IsPointer(x)
      BY DEF IsPointer, PointerKinds
    <3>2. IsPointer(x) => PointerOf(Built, x) = "null"
      <4>1. x.at \in Nat
        BY <1>1, GuardsOf DEF Slot
      <4>2. x.at < size.pointers => x.at + 1 \in 1..size.pointers
        BY <1>2, <4>1
      <4> QED BY <1>1, <4>2, BuiltFields DEF PointerOf
    <3> QED BY <1>1, <3>1, <3>2, BuiltFields DEF ValueOf, NumberOf, Fresh
  <2> QED BY <2>2, <2>3, <2>4, <2>5, BuiltFields DEF ReadOf, FreshUnless, HeldTo
<1> QED BY <1>1, <1>3, <1>4 DEF WireInv, WireTypes, Agrees

\* A pointer reads as what was put there.
LEMMA PutReads ==
  ASSUME class \in Classes, Built \in StructState, NEW s \in SlotsOf[class], IsPointer(s),
         InBounds(s), NEW value \in Values, ptrs' = [ptrs EXCEPT ![s.at + 1] = value],
         size' = size
  PROVE  /\ ptrs' \in Seq(Values) /\ Len(ptrs') = size.pointers
         /\ \A i \in 1..size.pointers : ptrs'[i] = ptrs[i] \/ (IsPointer(s) /\ i = s.at + 1)
         /\ ValueOf(Built', s) = value
<1>1. PICK n \in Nat : n = size.pointers /\ DOMAIN ptrs = 1..n /\ ptrs \in [1..n -> Values]
  <2>1. ptrs \in Seq(Values) /\ Len(ptrs) = size.pointers /\ size.pointers \in Nat
    BY BuiltFields
  <2> QED BY <2>1, LenProperties
<1>2. s.at + 1 \in 1..n /\ s.at < n
  <2>1. s.at \in Nat /\ s.at < n
    BY <1>1, GuardsOf DEF Slot, InBounds
  <2> QED BY <2>1
<1>3. PICK q \in [1..n -> Values] : q = ptrs'
  BY <1>1, <1>2
<1>4. q[s.at + 1] = value /\ \A i \in 1..n : q[i] = ptrs[i] \/ i = s.at + 1
  BY <1>1, <1>2, <1>3
<1>5. q \in Seq(Values) /\ Len(q) = n
  BY SeqOfFunction
<1>6. Built'.size = size /\ Built'.ptrs = ptrs'
  BY DEF Built
<1>7. s.kind # "number"
  BY DEF IsPointer, PointerKinds
<1>8. ValueOf(Built', s) = value
  BY <1>1, <1>2, <1>3, <1>4, <1>6, <1>7 DEF ValueOf, PointerOf
<1> QED BY <1>1, <1>3, <1>4, <1>5, <1>8

\* A number's setter keeps the invariant.
LEMMA WireSetNumber ==
  ASSUME WireInv, SetNumber
  PROVE  WireInv'
<1>1. PICK s \in SlotsOf[class], value \in {"zeros", "ones"} :
        /\ s.kind = "number" /\ Writing(s) /\ ones' = (WithTag(s) \ Bits(s)) \cup Stored(s, value)
        /\ expected' = After(s, value) /\ ptrs' = ptrs
  BY DEF SetNumber
<1>2. class \in Classes /\ Built \in StructState /\ size' = size
  BY <1>1 DEF WireInv, WireTypes, Writing
<1>3. Stored(s, value) \in {{}, Bits(s)}
  BY DEF Stored
<1>4. \A b : b \notin Bits(s) => (b \in ones' <=> b \in WithTag(s))
  BY <1>1, <1>3
<1>5. ptrs' \in Seq(Values) /\ Len(ptrs') = size.pointers
  BY <1>1, <1>2, BuiltFields
<1>6. ValueOf(Built', s) = value
  <2>1. Built'.ones \cap Bits(s) = Stored(s, value) /\ (Stored(s, value) = Bits(s) => Bits(s) \subseteq Built'.ones)
    BY <1>1, <1>3 DEF Built
  <2>2. Bits(s) # {} /\ s.mask \in BOOLEAN
    <3>1. s \in Slot /\ s.width > 0
      BY <1>1, <1>2, GuardsOf, Nested
    <3>2. s.at \in Nat /\ s.width \in Nat /\ s.mask \in BOOLEAN
      BY <3>1 DEF Slot
    <3>3. s.at \in Bits(s)
      BY <3>1, <3>2 DEF Bits, Range_
    <3> QED BY <3>2, <3>3
  <2> QED BY <1>1, <2>1, <2>2 DEF ValueOf, NumberOf, Stored
<1> QED BY <1>1, <1>4, <1>5, <1>6, WriteStep

\* So does the setter of a void member,
LEMMA WireSetVoid ==
  ASSUME WireInv, SetVoid
  PROVE  WireInv'
<1>1. PICK s \in SlotsOf[class] :
        /\ s.kind = "void" /\ Writing(s) /\ ones' = WithTag(s)
        /\ expected' = After(s, "void") /\ ptrs' = ptrs
  BY DEF SetVoid
<1>2. Built \in StructState
  BY DEF WireInv, WireTypes
<1>3. ptrs' \in Seq(Values) /\ Len(ptrs') = size.pointers
  BY <1>1, <1>2, BuiltFields
<1>4. ValueOf(Built', s) = "void"
  BY <1>1 DEF ValueOf, IsPointer, PointerKinds
<1> QED BY <1>1, <1>3, <1>4, WriteStep

\* of a pointer, given a value or a new object,
LEMMA WireSetPointer ==
  ASSUME WireInv, SetPointer \/ InitPointer
  PROVE  WireInv'
<1>1. PICK s \in SlotsOf[class], value \in Values :
        /\ IsPointer(s) /\ Writing(s) /\ ones' = WithTag(s)
        /\ ptrs' = [ptrs EXCEPT ![s.at + 1] = value] /\ expected' = After(s, value)
  <2>1. CASE SetPointer
    <3>1. "contents" \in Values
      BY DEF Values
    <3> QED BY <2>1, <3>1 DEF SetPointer
  <2>2. CASE InitPointer
    <3>1. "empty" \in Values
      BY DEF Values
    <3> QED BY <2>2, <3>1 DEF InitPointer, IsPointer, PointerKinds
  <2> QED BY <2>1, <2>2
<1>2. class \in Classes /\ Built \in StructState /\ InBounds(s) /\ size' = size
  BY <1>1 DEF WireInv, WireTypes, Writing
<1>3. /\ ptrs' \in Seq(Values) /\ Len(ptrs') = size.pointers
      /\ \A i \in 1..size.pointers : ptrs'[i] = ptrs[i] \/ (IsPointer(s) /\ i = s.at + 1)
  BY <1>1, <1>2, PutReads
<1>4. ValueOf(Built', s) = value
  BY <1>1, <1>2, PutReads
<1>5. s.kind # "group"
  BY <1>1 DEF IsPointer, PointerKinds
<1> QED BY <1>1, <1>3, <1>4, <1>5, WriteStep

\* the getter that creates an object and the one that disowns it,
LEMMA WireChangePointer ==
  ASSUME WireInv, GetPointer \/ Disown
  PROVE  WireInv'
<1>1. PICK s \in SlotsOf[class], value \in Values :
        /\ IsPointer(s) /\ Writing(s) /\ Chosen(s.own) /\ ones' = ones
        /\ ptrs' = [ptrs EXCEPT ![s.at + 1] = value]
        /\ expected' = [expected EXCEPT ![s.path] = value]
  <2>1. CASE GetPointer
    <3>1. "empty" \in Values
      BY DEF Values
    <3> QED BY <2>1, <3>1 DEF GetPointer, IsPointer, PointerKinds
  <2>2. CASE Disown
    <3>1. "null" \in Values
      BY DEF Values
    <3> QED BY <2>2, <3>1 DEF Disown
  <2> QED BY <2>1, <2>2
<1>2. class \in Classes /\ Built \in StructState /\ InBounds(s) /\ size' = size
  BY <1>1 DEF WireInv, WireTypes, Writing
<1>3. /\ ptrs' \in Seq(Values) /\ Len(ptrs') = size.pointers
      /\ \A i \in 1..size.pointers : ptrs'[i] = ptrs[i] \/ (IsPointer(s) /\ i = s.at + 1)
  BY <1>1, <1>2, PutReads
<1>4. ValueOf(Built', s) = value
  BY <1>1, <1>2, PutReads
<1> QED BY <1>1, <1>3, <1>4, ChangeStep

\* and the choice of a group, where nothing of another member is left in it.
LEMMA WireInitGroup ==
  ASSUME WireInv, InitGroup, "switch group" \notin Uses
  PROVE  WireInv'
<1>1. PICK s \in SlotsOf[class] :
        /\ s.kind = "group" /\ Writing(s) /\ (Chosen(s.own) \/ ~ Leftovers(s))
        /\ ones' = WithTag(s) /\ expected' = After(s, "void") /\ ptrs' = ptrs
  BY DEF InitGroup
<1>2. Built \in StructState
  BY DEF WireInv, WireTypes
<1>3. ptrs' \in Seq(Values) /\ Len(ptrs') = size.pointers
  BY <1>1, <1>2, BuiltFields
<1>4. ValueOf(Built', s) = "void"
  BY <1>1 DEF ValueOf, IsPointer, PointerKinds
<1> QED BY <1>1, <1>3, <1>4, WriteStep

-----------------------------------------------------------------------------
(* The words of a message.                                                   *)

\* A word whose first half is a number.
Halves(w, a, y) ==
  /\ w \in ByteWord /\ w[1] = a % 256
  /\ w[5] = y[1] /\ w[6] = y[2] /\ w[7] = y[3] /\ w[8] = y[4]
  /\ Fits(a) => Uint32At(w, 1) = a

\* A word's lower half is a number, its upper half whatever follows.
LEMMA HalfWord ==
  ASSUME NEW a \in Nat, NEW y \in Seq(0..255), Len(y) = 4, NEW w, w = Uint32(a) \o y
  PROVE  Halves(w, a, y)
<1>1. PICK S : S = 0..255
  OBVIOUS
<1>2. PICK x \in Seq(S), z \in Seq(S) : x = Uint32(a) /\ z = y /\ Len(x) = 4 /\ Len(z) = 4
  <2>1. Uint32(a) \in Seq(S) /\ Len(Uint32(a)) = 4
    BY <1>1, BytesOfNumber
  <2> QED BY <1>1, <2>1
<1>3. w = x \o z
  BY <1>2
<1>4. /\ w \in Seq(S) /\ Len(w) = Len(x) + Len(z)
      /\ \A i \in 1..Len(x) : w[i] = x[i]
      /\ \A i \in 1..Len(z) : w[Len(x) + i] = z[i]
  BY ONLY x \in Seq(S), z \in Seq(S), <1>3, JoinOf
<1>5. w \in ByteWord
  <2>1. Len(w) = 8
    BY <1>2, <1>4
  <2>2. w \in [1..8 -> S]
    BY <1>4, <2>1, LenProperties
  <2> QED BY <1>1, <2>2 DEF ByteWord
<1>6. /\ w[1] = x[1] /\ w[2] = x[2] /\ w[3] = x[3] /\ w[4] = x[4]
      /\ w[5] = z[1] /\ w[6] = z[2] /\ w[7] = z[3] /\ w[8] = z[4]
  <2>1. \A i \in 1..4 : w[i] = x[i] /\ w[4 + i] = z[i]
    BY <1>2, <1>4
  <2>2. 4 + 1 = 5 /\ 4 + 2 = 6 /\ 4 + 3 = 7 /\ 4 + 4 = 8
    OBVIOUS
  <2>3. 1 \in 1..4 /\ 2 \in 1..4 /\ 3 \in 1..4 /\ 4 \in 1..4
    OBVIOUS
  <2> QED BY <2>1, <2>2, <2>3
<1>7. x[1] = a % 256
  BY <1>2, SMT DEF Uint32
<1>8. Uint32At(w, 1) = Uint32At(x, 1)
  <2>1. /\ Uint32At(w, 1) = w[1] + 256 * w[2] + 65536 * w[3] + 16777216 * w[4]
        /\ Uint32At(x, 1) = x[1] + 256 * x[2] + 65536 * x[3] + 16777216 * x[4]
    BY SMT DEF Uint32At
  <2> QED BY ONLY <1>6, <2>1, SMT
<1>9. Fits(a) => Uint32At(w, 1) = a
  BY <1>2, <1>8, BytesOfNumber
<1> QED BY <1>2, <1>5, <1>6, <1>7, <1>9 DEF Halves

\* The kind of a pointer is in the last two bits of its first byte.
LEMMA KindOf ==
  ASSUME NEW n \in Nat
  PROVE  /\ ((4 * n) % 256) % 4 = 0 /\ (4 * n) \div 4 = n
         /\ ((4 * n + 1) % 256) % 4 = 1 /\ (4 * n + 1) \div 4 = n
         /\ ((8 * n + 2) % 256) % 4 = 2 /\ (8 * n + 2) \div 8 = n
<1>1. \A k \in Nat : (k % 256) % 4 = k % 4
  <2>1. ASSUME NEW k \in Nat PROVE (k % 256) % 4 = k % 4
    <3>1. PICK q \in Nat, r \in 0..255 : k = 256 * q + r /\ r = k % 256
      <4>1. PICK q \in Nat, r \in 0..255 : q = k \div 256 /\ r = k % 256
        OBVIOUS
      <4>2. k = 256 * q + r
        BY <4>1
      <4> QED BY <4>1, <4>2
    <3>2. PICK s \in Nat, t \in 0..3 : r = 4 * s + t /\ t = r % 4
      OBVIOUS
    <3>3. PICK u \in Nat : u = 64 * q + s
      OBVIOUS
    <3>4. k = 4 * u + t
      <4>1. k = 256 * q + r /\ r = 4 * s + t
        BY <3>1, <3>2
      <4> QED BY ONLY <3>3, <4>1, q \in Nat, s \in Nat, u \in Nat, r \in 0..255, t \in 0..3
    <3>5. k % 4 = t
      BY <3>4
    <3> QED BY <3>1, <3>2, <3>5
  <2> QED BY <2>1
<1>2. PICK a \in Nat, b \in Nat, c \in Nat : a = 4 * n /\ b = 4 * n + 1 /\ c = 8 * n + 2
  OBVIOUS
<1>3. a % 4 = 0 /\ b % 4 = 1 /\ c % 4 = 2 /\ a \div 4 = n /\ b \div 4 = n /\ c \div 8 = n
  <2>1. a % 4 = 0 /\ a \div 4 = n
    BY <1>2
  <2>2. b % 4 = 1 /\ b \div 4 = n
    BY <1>2
  <2>3. c % 4 = 2 /\ c \div 8 = n
    BY <1>2
  <2> QED BY <2>1, <2>2, <2>3
<1>4. (a % 256) % 4 = 0 /\ (b % 256) % 4 = 1 /\ (c % 256) % 4 = 2
  BY <1>1, <1>3
<1> QED BY <1>2, <1>3, <1>4

\* Two bytes of a small number.
LEMMA BytesOf16 ==
  ASSUME NEW n \in Uint16
  PROVE  \E k \in 0..255, l \in 0..255 : k = n % 256 /\ l = n \div 256 /\ n = k + 256 * l
<1>1. n \in Nat /\ n <= 65535
  BY Sixteen, SixteenBits, SMT
<1>2. PICK k \in 0..255, l \in Nat : k = n % 256 /\ l = n \div 256
  BY <1>1
<1>3. n = k + 256 * l
  BY ONLY <1>1, <1>2, SMT
<1>4. l \in 0..255
  BY ONLY <1>1, <1>3, k \in 0..255, l \in Nat, SMT
<1> QED BY <1>2, <1>3, <1>4, ZenonT(60)

\* The sizes of the sections are read from where they are written.
LEMMA SizeWritten ==
  ASSUME NEW sz \in [data : Uint16, pointers : Uint16], NEW y, y = StructSize(sz)
  PROVE  /\ y \in Seq(0..255) /\ Len(y) = 4
         /\ sz.data = y[1] + 256 * y[2] /\ sz.pointers = y[3] + 256 * y[4]
<1>2a. PICK a \in 0..255, b \in 0..255 :
         a = sz.data % 256 /\ b = sz.data \div 256 /\ sz.data = a + 256 * b
  BY BytesOf16
<1>2b. PICK c \in 0..255, d \in 0..255 :
         c = sz.pointers % 256 /\ d = sz.pointers \div 256 /\ sz.pointers = c + 256 * d
  BY BytesOf16
<1>2. /\ a = sz.data % 256 /\ b = sz.data \div 256
      /\ c = sz.pointers % 256 /\ d = sz.pointers \div 256
      /\ sz.data = a + 256 * b /\ sz.pointers = c + 256 * d
  BY <1>2a, <1>2b
<1>3. SizeBytes(sz.data) = <<a, b>> /\ SizeBytes(sz.pointers) = <<c, d>>
  BY <1>2 DEF SizeBytes
<1>4a. PICK p \in Seq(0..255) : p = <<a, b>> /\ Len(p) = 2 /\ p[1] = a /\ p[2] = b
  <2>1. <<a, b>> \in Seq(0..255) /\ Len(<<a, b>>) = 2 /\ <<a, b>>[1] = a /\ <<a, b>>[2] = b
    OBVIOUS
  <2> QED BY <2>1
<1>4b. PICK q \in Seq(0..255) : q = <<c, d>> /\ Len(q) = 2 /\ q[1] = c /\ q[2] = d
  <2>1. <<c, d>> \in Seq(0..255) /\ Len(<<c, d>>) = 2 /\ <<c, d>>[1] = c /\ <<c, d>>[2] = d
    OBVIOUS
  <2> QED BY <2>1
<1>4. /\ p = <<a, b>> /\ Len(p) = 2 /\ p[1] = a /\ p[2] = b
      /\ q = <<c, d>> /\ Len(q) = 2 /\ q[1] = c /\ q[2] = d
  BY <1>4a, <1>4b
<1>5. y = p \o q
  BY <1>3, <1>4 DEF StructSize
<1>6. /\ y \in Seq(0..255) /\ Len(y) = Len(p) + Len(q)
      /\ \A i \in 1..Len(p) : y[i] = p[i]
      /\ \A i \in 1..Len(q) : y[Len(p) + i] = q[i]
  BY ONLY p \in Seq(0..255), q \in Seq(0..255), <1>5, JoinOf
<1>7. Len(y) = 4 /\ y[1] = a /\ y[2] = b /\ y[3] = c /\ y[4] = d
  <2>1. \A i \in 1..2 : y[i] = p[i] /\ y[2 + i] = q[i]
    BY <1>4, <1>6
  <2>2. 1 \in 1..2 /\ 2 \in 1..2 /\ 2 + 1 = 3 /\ 2 + 2 = 4
    OBVIOUS
  <2> QED BY <1>4, <1>6, <2>1, <2>2
<1> QED BY <1>2, <1>6, <1>7, ZenonT(60)

\* The root pointer says the sizes of the struct.
LEMMA RootIs ==
  ASSUME NEW sz \in [data : Uint16, pointers : Uint16], NEW w, w = RootWord(sz)
  PROVE  w \in ByteWord /\ SizeRead(w) = sz
<1>1. PICK y \in Seq(0..255) : /\ y = StructSize(sz) /\ Len(y) = 4
                               /\ sz.data = y[1] + 256 * y[2] /\ sz.pointers = y[3] + 256 * y[4]
  BY SizeWritten
<1>2. PICK zero \in Nat : zero = 0
  OBVIOUS
<1>3. w = Uint32(zero) \o y
  BY <1>1, <1>2 DEF RootWord
<1>4. Halves(w, zero, y)
  BY <1>1, <1>3, HalfWord
<1>5. SizeRead(w) = [data |-> sz.data, pointers |-> sz.pointers]
  BY <1>1, <1>4 DEF SizeRead, Halves
<1> QED BY <1>4, <1>5 DEF Halves

\* A pointer to an object says which kind of object it is and how far ahead.
LEMMA PointerWord ==
  ASSUME NEW v \in {"empty", "contents"}, NEW off \in Nat, Fits(8 * off + 2),
         NEW w, w = PointerTo(v, off)
  PROVE  /\ w \in ByteWord /\ w # ZeroWord /\ Uint32At(w, 1) \div 4 = off
         /\ w[1] % 4 = IF v = "empty" THEN 0 ELSE 1
<1>1. PICK a \in Nat, b \in Nat : a = 4 * off /\ b = 4 * off + 1
  OBVIOUS
<1>2. Fits(a) /\ Fits(b)
  BY <1>1, SMT DEF Fits
<1>3. (a % 256) % 4 = 0 /\ (b % 256) % 4 = 1 /\ a \div 4 = off /\ b \div 4 = off
  BY <1>1, KindOf
<1>4. CASE v = "empty"
  <2>1. PICK sz : sz = [data |-> 1, pointers |-> 0]
    OBVIOUS
  <2>2. sz \in [data : Uint16, pointers : Uint16] /\ sz.data = 1
    BY <2>1, SmallNumbers, SMT
  <2>3. PICK y \in Seq(0..255) : y = StructSize(sz) /\ Len(y) = 4 /\ 1 = y[1] + 256 * y[2]
    BY <2>2, SizeWritten
  <2>4. w = Uint32(a) \o y
    BY <1>1, <1>4, <2>1, <2>3 DEF PointerTo
  <2>5. w \in ByteWord /\ w[1] = a % 256 /\ w[5] = y[1] /\ w[6] = y[2] /\ Uint32At(w, 1) = a
    <3>1. Halves(w, a, y)
      BY <2>3, <2>4, HalfWord
    <3> QED BY <1>2, <3>1 DEF Halves
  <2>6. w # ZeroWord
    <3>1. ZeroWord[5] = 0 /\ ZeroWord[6] = 0
      BY DEF ZeroWord
    <3> QED BY <2>3, <2>5, <3>1
  <2> QED BY <1>3, <1>4, <2>5, <2>6
<1>5. CASE v = "contents"
  <2>1. PICK k \in Nat : k = 8 * 24 + 2
    OBVIOUS
  <2>2. PICK y \in Seq(0..255) : y = Uint32(k) /\ Len(y) = 4
    BY BytesOfNumber
  <2>3. w = Uint32(b) \o y
    BY <1>1, <1>5, <2>1, <2>2 DEF PointerTo
  <2>4. w \in ByteWord /\ w[1] = b % 256 /\ Uint32At(w, 1) = b
    <3>1. Halves(w, b, y)
      BY <2>2, <2>3, HalfWord
    <3> QED BY <1>2, <3>1 DEF Halves
  <2>5. w # ZeroWord
    <3>1. ZeroWord[1] = 0 /\ 0 % 4 = 0
      BY DEF ZeroWord
    <3>2. w[1] % 4 = 1
      BY <1>3, <2>4
    <3> QED BY <3>1, <3>2
  <2> QED BY <1>3, <1>5, <2>4, <2>5
<1> QED BY <1>4, <1>5

\* A far pointer says the second segment and its offset.
LEMMA FarWordIs ==
  ASSUME NEW off \in Nat, Fits(8 * off + 2), NEW w, w = FarPointer(off)
  PROVE  /\ w \in ByteWord /\ w # ZeroWord /\ w[1] % 4 = 2
         /\ Uint32At(w, 5) = 1 /\ Uint32At(w, 1) \div 8 = off
<1>1. PICK a \in Nat, one \in Nat : a = 8 * off + 2 /\ one = 1 /\ Fits(a) /\ Fits(one)
  BY SMT DEF Fits
<1>2. w = Uint32(a) \o Uint32(one)
  BY <1>1 DEF FarPointer
<1>3. w \in ByteWord /\ Uint32At(w, 1) = a /\ Uint32At(w, 5) = one
  BY <1>1, <1>2, WordOfNumbers
<1>4. w[1] = a % 256
  <2>1. Uint32(one) \in Seq(0..255) /\ Len(Uint32(one)) = 4
    BY BytesOfNumber
  <2>2. PICK y \in Seq(0..255) : y = Uint32(one) /\ Len(y) = 4
    BY <2>1
  <2>3. Halves(w, a, y)
    BY <1>2, <2>2, HalfWord
  <2> QED BY <2>3 DEF Halves
<1>5. (a % 256) % 4 = 2 /\ a \div 8 = off
  BY <1>1, KindOf
<1>6. w # ZeroWord
  <2>1. ZeroWord[1] = 0 /\ 0 % 4 = 0
    BY DEF ZeroWord
  <2> QED BY <1>4, <1>5, <2>1
<1> QED BY <1>1, <1>3, <1>4, <1>5, <1>6

\* The words of an object, and how it is told from nothing.
LEMMA ObjectIs ==
  ASSUME NEW v \in Values, NEW o, o = Object(v)
  PROVE  /\ o \in Seq(ByteWord) /\ Len(o) <= 3
         /\ v = "empty" => Len(o) = 1 /\ o[1] = ZeroWord
         /\ v = "contents" => Len(o) = 3 /\ o[1][1] # 0
<1>1. PICK a \in ByteWord, b \in ByteWord :
        a = [j \in 1..8 |-> 99] /\ b = [j \in 1..8 |-> IF j = 8 THEN 0 ELSE 99]
  <2>1. [j \in 1..8 |-> 99] \in ByteWord
    BY DEF ByteWord
  <2>2. [j \in 1..8 |-> IF j = 8 THEN 0 ELSE 99] \in ByteWord
    BY DEF ByteWord
  <2> QED BY <2>1, <2>2
<1>2. ZeroWord \in ByteWord
  BY DEF ByteWord, ZeroWord
<1>3. CASE v = "null"
  BY <1>3 DEF Object
<1>4. CASE v = "empty"
  <2>1. o = <<ZeroWord>>
    BY <1>4 DEF Object
  <2> HIDE DEF ZeroWord
  <2> QED BY <1>2, <1>4, <2>1
<1>5. CASE v = "contents"
  <2>1. o = <<a, a, b>>
    BY <1>1, <1>5 DEF Object
  <2>2. a[1] = 99
    BY <1>1
  <2>3. o \in Seq(ByteWord) /\ Len(o) = 3 /\ o[1] = a
    BY <2>1
  <2>4. o[1][1] # 0 /\ v # "empty"
    BY <1>5, <2>2, <2>3
  <2> QED BY <2>3, <2>4
<1> QED BY <1>3, <1>4, <1>5 DEF Values

\* With its landing pad before it, if there is an object.
LEMMA PaddedIs ==
  ASSUME NEW v \in Values, NEW o, o = Pad(v) \o Object(v)
  PROVE  /\ o \in Seq(ByteWord) /\ Len(o) <= 4
         /\ v # "null" => /\ Len(o) >= 2 /\ o[1] = PointerTo(v, 0) /\ o[2] = Object(v)[1]
<1>1. PICK p \in Seq(ByteWord) : p = Object(v) /\ Len(p) <= 3 /\ (v # "null" => Len(p) >= 1)
  BY ObjectIs DEF Values
<1>2. CASE v = "null"
  <2>1. Pad(v) = <<>> /\ <<>> \in Seq(ByteWord)
    BY <1>2 DEF Pad
  <2>2. o = p
    BY <1>1, <2>1, ConcatEmptySeq
  <2>3. PICK k \in Nat : k = Len(p) /\ k <= 3
    BY <1>1, LenProperties
  <2>4. k <= 4
    BY <2>3
  <2> QED BY <1>2, <2>2, <2>3, <2>4
<1>3. CASE v # "null"
  <2>1. PICK zero \in Nat : zero = 0 /\ Fits(8 * zero + 2)
    BY SMT DEF Fits
  <2>2. PICK w \in ByteWord : w = PointerTo(v, zero)
    BY <1>3, <2>1, PointerWord DEF Values
  <2>3. PICK d \in Seq(ByteWord) : d = Pad(v) /\ Len(d) = 1 /\ d[1] = w
    <3>1. Pad(v) = <<w>>
      BY <1>3, <2>1, <2>2 DEF Pad
    <3>2. <<w>> \in Seq(ByteWord) /\ Len(<<w>>) = 1 /\ <<w>>[1] = w
      OBVIOUS
    <3> QED BY <3>1, <3>2
  <2>4. o = d \o p
    BY <1>1, <2>3
  <2>5. /\ o \in Seq(ByteWord) /\ Len(o) = Len(d) + Len(p)
        /\ \A i \in 1..Len(d) : o[i] = d[i]
        /\ \A i \in 1..Len(p) : o[Len(d) + i] = p[i]
    BY ONLY d \in Seq(ByteWord), p \in Seq(ByteWord), <2>4, JoinOf
  <2>6. Len(p) \in Nat /\ Len(d) \in Nat
    BY LenProperties
  <2>7. 1 \in 1..Len(d) /\ 1 \in 1..Len(p) /\ Len(d) + 1 = 2
    BY <1>1, <1>3, <2>3, <2>6
  <2>8. o[1] = PointerTo(v, 0) /\ o[2] = Object(v)[1]
    BY <1>1, <2>1, <2>2, <2>3, <2>5, <2>7
  <2> QED BY <1>1, <1>3, <2>3, <2>5, <2>6, <2>8
<1> QED BY <1>2, <1>3

OneBit(on, b) == IF b \in on THEN 1 ELSE 0

\* A byte made of eight bits has these bits.
LEMMA ByteOfBits ==
  ASSUME NEW on, NEW base \in Nat,
         NEW t, t = OneBit(on, base + 0) + 2 * OneBit(on, base + 1) + 4 * OneBit(on, base + 2)
                      + 8 * OneBit(on, base + 3) + 16 * OneBit(on, base + 4)
                      + 32 * OneBit(on, base + 5) + 64 * OneBit(on, base + 6)
                      + 128 * OneBit(on, base + 7)
  PROVE  t \in 0..255 /\ \A i \in 0..7 : HasBit(t, i) <=> base + i \in on
<1> DEFINE v(i) == OneBit(on, base + i)
<1>1. t = v(0) + 2 * v(1) + 4 * v(2) + 8 * v(3) + 16 * v(4) + 32 * v(5) + 64 * v(6) + 128 * v(7)
  OBVIOUS
<1>2. PICK a \in 0..1, b \in 0..1, c \in 0..1, d \in 0..1,
           e \in 0..1, f \in 0..1, g \in 0..1, h \in 0..1 :
        /\ a = v(0) /\ b = v(1) /\ c = v(2) /\ d = v(3)
        /\ e = v(4) /\ f = v(5) /\ g = v(6) /\ h = v(7)
  BY DEF OneBit
<1>3. t = a + 2 * b + 4 * c + 8 * d + 16 * e + 32 * f + 64 * g + 128 * h
  BY <1>1, <1>2
<1>4. /\ (a = 1 <=> base + 0 \in on) /\ (b = 1 <=> base + 1 \in on)
      /\ (c = 1 <=> base + 2 \in on) /\ (d = 1 <=> base + 3 \in on)
      /\ (e = 1 <=> base + 4 \in on) /\ (f = 1 <=> base + 5 \in on)
      /\ (g = 1 <=> base + 6 \in on) /\ (h = 1 <=> base + 7 \in on)
  BY <1>2 DEF OneBit
<1> HIDE DEF v
<1>5. /\ t \in 0..255
      /\ (HasBit(t, 0) <=> base + 0 \in on) /\ (HasBit(t, 1) <=> base + 1 \in on)
      /\ (HasBit(t, 2) <=> base + 2 \in on) /\ (HasBit(t, 3) <=> base + 3 \in on)
      /\ (HasBit(t, 4) <=> base + 4 \in on) /\ (HasBit(t, 5) <=> base + 5 \in on)
      /\ (HasBit(t, 6) <=> base + 6 \in on) /\ (HasBit(t, 7) <=> base + 7 \in on)
  <2>1. BitsAre(t, a, b, c, d, e, f, g, h)
    BY ONLY a \in 0..1, b \in 0..1, c \in 0..1, d \in 0..1, e \in 0..1, f \in 0..1, g \in 0..1,
       h \in 0..1, <1>3, BitsOfSum
  <2> QED BY ONLY <1>4, <2>1, Zenon DEF BitsAre
<1> QED BY ONLY <1>5

\* A bit's word, byte and place in it.
LEMMA BitPlace ==
  ASSUME NEW b \in Nat
  PROVE  \E q \in Nat, j \in 0..7, i \in 0..7 :
           q = b \div 64 /\ j = (b % 64) \div 8 /\ i = b % 8 /\ b = 64 * q + 8 * j + i
<1>1. PICK q \in Nat, r \in 0..63 : q = b \div 64 /\ r = b % 64
  OBVIOUS
<1>2. b = 64 * q + r
  BY <1>1
<1>3. PICK j \in 0..7, i \in 0..7 : j = r \div 8 /\ i = r % 8
  OBVIOUS
<1>4. r = 8 * j + i
  BY <1>3
<1>5. PICK k \in Nat : k = 8 * q + j
  OBVIOUS
<1>6. b = 8 * k + i
  BY ONLY <1>2, <1>4, <1>5, q \in Nat, r \in 0..63, j \in 0..7, i \in 0..7, k \in Nat
<1>7. b % 8 = i
  BY <1>6
<1>8. b = 64 * q + 8 * j + i
  BY <1>2, <1>4
<1>9. q = b \div 64 /\ j = (b % 64) \div 8 /\ i = b % 8
  BY ONLY <1>1, <1>3, <1>7
<1> QED BY ONLY q \in Nat, j \in 0..7, i \in 0..7, <1>8, <1>9, Zenon

\* The sizes of a struct, and its pointers.
LEMMA StructIs ==
  ASSUME NEW m \in StructState
  PROVE  /\ m.size \in [data : Uint16, pointers : Uint16]
         /\ m.size.data \in Nat /\ m.size.pointers \in Nat /\ m.ones \subseteq 0..(64 * m.size.data - 1)
         /\ m.ptrs \in Seq(Values) /\ DOMAIN m.ptrs = 1..m.size.pointers
         /\ Len(m.ptrs) = m.size.pointers /\ \A i \in 1..m.size.pointers : m.ptrs[i] \in Values
         /\ m = [size |-> m.size, ones |-> m.ones, ptrs |-> m.ptrs]
<1>1. /\ m.size \in [data : Uint16, pointers : Uint16] /\ m.ones \subseteq 0..(64 * m.size.data - 1)
      /\ m.ptrs \in Seq(Values) /\ Len(m.ptrs) = m.size.pointers
      /\ m = [size |-> m.size, ones |-> m.ones, ptrs |-> m.ptrs]
  BY DEF StructState
<1>2. m.size.data \in Nat /\ m.size.pointers \in Nat
  BY <1>1, Sixteen
<1>3. PICK p \in Seq(Values) : p = m.ptrs /\ Len(p) = m.size.pointers
  BY <1>1
<1>4. DOMAIN p = 1..Len(p) /\ \A i \in 1..Len(p) : p[i] \in Values
  BY LenProperties, ElementOfSeq
<1> QED BY <1>1, <1>2, <1>3, <1>4

\* The data section holds the bits that are set.
LEMMA DataIs ==
  ASSUME NEW m \in StructState, NEW d, d = DataWords(m)
  PROVE  /\ d \in Seq(ByteWord) /\ Len(d) = m.size.data
         /\ \A b \in 0..(64 * m.size.data - 1) :
              /\ b \div 64 + 1 \in 1..m.size.data
              /\ HasBit(d[b \div 64 + 1][(b % 64) \div 8 + 1], b % 8) <=> b \in m.ones
<1>1. PICK n \in Nat : n = m.size.data
  BY StructIs
<1>2. ASSUME NEW w \in 1..n, NEW j \in 1..8
      PROVE  /\ d[w][j] \in 0..255
             /\ \A i \in 0..7 : HasBit(d[w][j], i) <=> 64 * (w - 1) + 8 * (j - 1) + i \in m.ones
  <2>1. PICK base \in Nat : base = 64 * (w - 1) + 8 * (j - 1)
    OBVIOUS
  <2>2. PICK on, t :
          /\ on = m.ones
          /\ t = OneBit(on, base + 0) + 2 * OneBit(on, base + 1) + 4 * OneBit(on, base + 2)
                   + 8 * OneBit(on, base + 3) + 16 * OneBit(on, base + 4)
                   + 32 * OneBit(on, base + 5) + 64 * OneBit(on, base + 6)
                   + 128 * OneBit(on, base + 7)
    OBVIOUS
  <2>3. d[w][j] = t
    BY <1>1, <2>1, <2>2 DEF DataWords, Byte, OneBit
  <2>4. t \in 0..255 /\ \A i \in 0..7 : HasBit(t, i) <=> base + i \in m.ones
    BY <2>2, ByteOfBits
  <2> QED BY <2>1, <2>3, <2>4
<1>3. d \in Seq(ByteWord) /\ Len(d) = n
  <2>1. \A w \in 1..n : d[w] \in ByteWord
    <3>1. ASSUME NEW w \in 1..n PROVE d[w] \in ByteWord
      <4>1. d[w] = [j \in 1..8 |-> d[w][j]]
        BY <1>1 DEF DataWords
      <4> QED BY <1>2, <4>1 DEF ByteWord
    <3> QED BY <3>1
  <2>2. d \in [1..n -> ByteWord]
    BY <1>1, <2>1 DEF DataWords
  <2> QED BY <2>2, SeqOfFunction
<1>4. ASSUME NEW b \in 0..(64 * n - 1)
      PROVE  /\ b \div 64 + 1 \in 1..n
             /\ HasBit(d[b \div 64 + 1][(b % 64) \div 8 + 1], b % 8) <=> b \in m.ones
  <2>1. b \in Nat
    OBVIOUS
  <2>2. PICK q \in Nat, k \in 0..7, i \in 0..7 :
          q = b \div 64 /\ k = (b % 64) \div 8 /\ i = b % 8 /\ b = 64 * q + 8 * k + i
    BY <2>1, BitPlace
  <2>3. PICK w \in Nat, j \in 1..8 : w = q + 1 /\ j = k + 1
    OBVIOUS
  <2>4. w \in 1..n
    <3>1. b = 64 * q + 8 * k + i
      BY <2>2
    <3>2. 64 * q < 64 * n
      BY ONLY <3>1, b \in 0..(64 * n - 1), n \in Nat, q \in Nat, k \in 0..7, i \in 0..7
    <3> QED BY <2>3, <3>2
  <2>5. 64 * (w - 1) + 8 * (j - 1) + i = b
    <3>1. w - 1 = q /\ j - 1 = k
      BY <2>3
    <3> QED BY <2>2, <3>1
  <2>6. HasBit(d[w][j], i) <=> b \in m.ones
    BY <1>2, <2>4, <2>5
  <2> QED BY <2>2, <2>3, <2>4, <2>6
<1> QED BY <1>1, <1>3, <1>4

\* A message whose sequences have at most four words each.
LEMMA LengthBound ==
  ASSUME NEW S, NEW seqs \in Seq(Seq(S)), \A i \in 1..Len(seqs) : Len(seqs[i]) <= 4
  PROVE  \A k \in 0..Len(seqs) : LengthOf(seqs, k) \in Nat /\ LengthOf(seqs, k) <= 4 * k
<1>1. PICK n \in Nat : n = Len(seqs)
  BY LenProperties
<1>2. /\ LengthOf(seqs, 0) = 0
      /\ \A k \in 0..n : LengthOf(seqs, k) \in Nat
      /\ \A k \in 1..n : LengthOf(seqs, k) = LengthOf(seqs, k - 1) + Len(seqs[k])
  BY <1>1, LengthInSteps
<1> DEFINE T == {k \in 0..n : ~ (LengthOf(seqs, k) <= 4 * k)}
<1>3. ASSUME T # {} PROVE FALSE
  <2>1. T \subseteq Nat
    OBVIOUS
  <2>2. PICK k \in T : \A j \in T : k <= j
    BY <1>3, <2>1, LeastNumber
  <2>3. k \in 1..n /\ k - 1 \in 0..n /\ ~ (k <= k - 1)
    BY <1>2, <2>2
  <2>4. PICK x \in Nat, y \in Nat, z \in Nat :
          x = LengthOf(seqs, k) /\ y = LengthOf(seqs, k - 1) /\ z = Len(seqs[k])
    BY <1>1, <1>2, <2>3, ElementOfSeq, LenProperties
  <2>5. y <= 4 * (k - 1) /\ z <= 4 /\ x = y + z
    BY <1>1, <1>2, <2>2, <2>3, <2>4
  <2>6. k \in Nat /\ ~ (x <= 4 * k)
    BY <2>2, <2>3, <2>4
  <2> QED BY ONLY <2>5, <2>6, x \in Nat, y \in Nat, z \in Nat
<1> QED BY <1>1, <1>2, <1>3

\* Where its sequences are, one after the other.
LEMMA FlatOf ==
  ASSUME NEW S, NEW seqs \in Seq(Seq(S)), NEW n \in Nat, n = Len(seqs),
         \A i \in 1..n : Len(seqs[i]) <= 4
  PROVE  /\ FlattenSeq(seqs) \in Seq(S) /\ Len(FlattenSeq(seqs)) \in Nat
         /\ Len(FlattenSeq(seqs)) <= 4 * n
         /\ \A i \in 1..n :
              /\ Ahead(seqs, i) \in Nat /\ Ahead(seqs, i) <= 4 * n
              /\ \A j \in 1..Len(seqs[i]) :
                   /\ Ahead(seqs, i) + j \in 1..Len(FlattenSeq(seqs))
                   /\ FlattenSeq(seqs)[Ahead(seqs, i) + j] = seqs[i][j]
<1>1. CASE n = 0
  <2>1. FlattenSeq(seqs) = <<>>
    <3>1. seqs = <<>>
      BY <1>1, EmptySeq
    <3> QED BY <1>1, <3>1 DEF FlattenSeq
  <2>2. <<>> \in Seq(S) /\ Len(<<>>) = 0
    BY EmptySeq
  <2> QED BY <1>1, <2>1, <2>2
<1>2. CASE n # 0
  <2>1. seqs # <<>>
    BY <1>2, EmptySeq
  <2>2. PICK f \in Seq(S) : /\ f = FlattenSeq(seqs) /\ Len(f) = LengthOf(seqs, n)
                            /\ \A i \in 1..n : /\ LengthOf(seqs, i) <= Len(f)
                                               /\ \A j \in 1..Len(seqs[i]) :
                                                    f[LengthOf(seqs, i - 1) + j] = seqs[i][j]
    BY <2>1, PlacesInFlat
  <2>3. \A k \in 0..n : LengthOf(seqs, k) \in Nat /\ LengthOf(seqs, k) <= 4 * k
    BY LengthBound
  <2>4. \A i \in 1..n : LengthOf(seqs, i) = LengthOf(seqs, i - 1) + Len(seqs[i])
    BY LengthInSteps
  <2>5. \A i : Ahead(seqs, i) = LengthOf(seqs, i - 1)
    BY DEF Ahead, LengthOf
  <2>6. n \in 0..n /\ Len(f) \in Nat /\ Len(f) <= 4 * n
    BY <2>2, <2>3
  <2>7. ASSUME NEW i \in 1..n
        PROVE  /\ LengthOf(seqs, i - 1) \in Nat /\ LengthOf(seqs, i - 1) <= 4 * n
               /\ \A j \in 1..Len(seqs[i]) : LengthOf(seqs, i - 1) + j \in 1..Len(f)
    <3>1. PICK a \in Nat, b \in Nat, l \in Nat :
            a = LengthOf(seqs, i - 1) /\ b = LengthOf(seqs, i) /\ l = Len(seqs[i])
      <4>1. i - 1 \in 0..n /\ i \in 0..n
        OBVIOUS
      <4>2. Len(seqs[i]) \in Nat
        BY ElementOfSeq, LenProperties
      <4> QED BY <2>3, <4>1, <4>2
    <3>2. b = a + l /\ b <= Len(f) /\ a <= 4 * (i - 1)
      <4>1. i - 1 \in 0..n
        OBVIOUS
      <4> QED BY <2>2, <2>3, <2>4, <3>1, <4>1
    <3>3. a <= 4 * n /\ \A j \in 1..l : a + j \in 1..Len(f)
      BY <2>6, <3>2
    <3> QED BY <3>1, <3>3
  <2> QED BY <2>2, <2>5, <2>6, <2>7
<1> QED BY <1>1, <1>2

\* The lengths of a struct's sections and objects fit the words of a message.
LEMMA SmallFits ==
  ASSUME NEW d \in Uint16, NEW p \in Uint16, NEW k \in Nat, k <= 1 + d + 5 * p
  PROVE  Fits(k) /\ Fits(8 * k + 2)
<1>1. d \in Nat /\ d <= 65535 /\ p \in Nat /\ p <= 65535
  BY Sixteen, SixteenBits, SMT
<1>2. k <= 400000
  BY ONLY k \in Nat, k <= 1 + d + 5 * p, <1>1, SMT
<1>3. k < 4294967296 /\ 8 * k + 2 < 4294967296
  BY ONLY k \in Nat, <1>2, SMT
<1> QED BY ONLY <1>3, SMT DEF Fits

\* A sequence of one.
LEMMA OneOf ==
  ASSUME NEW S, NEW a \in S
  PROVE  <<a>> \in Seq(S) /\ Len(<<a>>) = 1 /\ <<a>>[1] = a
OBVIOUS

\* A sequence of two.
LEMMA TwoOf ==
  ASSUME NEW S, NEW a \in S, NEW b \in S
  PROVE  /\ <<a, b>> \in Seq(S) /\ Len(<<a, b>>) = 2
         /\ <<a, b>>[1] = a /\ <<a, b>>[2] = b
OBVIOUS

\* Three sequences joined.
Joined(a, b, c, g) ==
  /\ Len(g) = Len(a) + Len(b) + Len(c)
  /\ \A i \in 1..Len(a) : g[i] = a[i]
  /\ \A i \in 1..Len(b) : g[Len(a) + i] = b[i]
  /\ \A i \in 1..Len(c) : g[Len(a) + Len(b) + i] = c[i]
LEMMA JoinThree ==
  ASSUME NEW S, NEW a \in Seq(S), NEW b \in Seq(S), NEW c \in Seq(S), NEW g, g = a \o b \o c
  PROVE  g \in Seq(S) /\ Joined(a, b, c, g)
<1>1. PICK f : f = a \o b
  OBVIOUS
<1>2. /\ f \in Seq(S) /\ Len(f) = Len(a) + Len(b) /\ Len(f) \in Nat
      /\ \A i \in 1..Len(a) : f[i] = a[i]
      /\ \A i \in 1..Len(b) : f[Len(a) + i] = b[i]
  BY <1>1, JoinOf
<1>3. PICK h \in Seq(S) : h = f /\ g = h \o c
  BY <1>1, <1>2
<1>4. /\ g \in Seq(S) /\ Len(g) = Len(h) + Len(c)
      /\ \A i \in 1..Len(h) : g[i] = h[i]
      /\ \A i \in 1..Len(c) : g[Len(h) + i] = c[i]
  BY ONLY h \in Seq(S), c \in Seq(S), <1>3, JoinOf
<1>5. PICK x \in Nat, y \in Nat, z \in Nat : x = Len(a) /\ y = Len(b) /\ z = Len(c) /\ x + y = Len(f)
  BY <1>2, LenProperties
<1>6. (\A i \in 1..x : i \in 1..(x + y)) /\ (\A i \in 1..y : x + i \in 1..(x + y))
  OBVIOUS
<1> QED BY <1>2, <1>3, <1>4, <1>5, <1>6 DEF Joined

\* The root pointer and the data section.
LEMMA RootPart ==
  ASSUME NEW m \in StructState, NEW r, r = <<RootWord(m.size)>> \o DataWords(m)
  PROVE  /\ r \in Seq(ByteWord) /\ Len(r) = 1 + m.size.data
         /\ SizeRead(r[1]) = m.size
         /\ \A w \in 1..m.size.data : r[1 + w] = DataWords(m)[w]
<1>1. PICK d \in Seq(ByteWord) : d = DataWords(m) /\ Len(d) = m.size.data
  BY DataIs
<1>2. PICK w \in ByteWord : w = RootWord(m.size) /\ SizeRead(w) = m.size
  BY StructIs, RootIs
<1>3. <<w>> \in Seq(ByteWord) /\ Len(<<w>>) = 1 /\ <<w>>[1] = w
  OBVIOUS
<1>4. PICK one \in Seq(ByteWord) : one = <<w>> /\ Len(one) = 1 /\ one[1] = w
  BY <1>3
<1>5. r = one \o d
  BY <1>1, <1>2, <1>4
<1>6. /\ r \in Seq(ByteWord) /\ Len(r) = Len(one) + Len(d)
      /\ \A i \in 1..Len(one) : r[i] = one[i]
      /\ \A i \in 1..Len(d) : r[Len(one) + i] = d[i]
  BY ONLY one \in Seq(ByteWord), d \in Seq(ByteWord), <1>5, JoinOf
<1>7. 1 \in 1..Len(one)
  BY <1>4
<1> QED BY <1>1, <1>2, <1>4, <1>6, <1>7

\* The first segment begins as it should, and every pointer is read as it was.
Says(segments, m) ==
  /\ \E r : /\ r = <<RootWord(m.size)>> \o DataWords(m)
            /\ \A k \in 1..(1 + m.size.data) : segments[1][k] = r[k]
  /\ \A i \in 1..m.size.pointers : PointerRead(segments, 1 + m.size.data + i) = m.ptrs[i]

\* What is decoded, if every pointer is.
LEMMA RestIsDecoded ==
  ASSUME NEW m \in StructState, NEW segments, Says(segments, m)
  PROVE  Decoded(segments) = m
<1>1. PICK r : /\ r = <<RootWord(m.size)>> \o DataWords(m)
               /\ \A k \in 1..(1 + m.size.data) : segments[1][k] = r[k]
  BY DEF Says
<1>2. PICK n \in Nat, p \in Nat : n = m.size.data /\ p = m.size.pointers
  BY StructIs
<1>3. SizeRead(segments[1][1]) = m.size
  <2>1. 1 \in 1..(1 + n)
    OBVIOUS
  <2> QED BY <1>2, <1>1, <2>1, RootPart, SMTT(60)
<1>4. \A w \in 1..n : segments[1][1 + w] = DataWords(m)[w]
  <2>1. \A w \in 1..n : 1 + w \in 1..(1 + n)
    OBVIOUS
  <2> QED BY <1>2, <1>1, <2>1, RootPart
<1>5. {b \in 0..(64 * n - 1) : BitRead(segments[1], b)} = m.ones
  <2>1. ASSUME NEW b \in 0..(64 * n - 1) PROVE BitRead(segments[1], b) <=> b \in m.ones
    <3>1. PICK w \in 1..n : w = b \div 64 + 1
      BY <1>2, DataIs
    <3>2. b \div 64 + 2 = 1 + w
      <4>1. b \div 64 \in Int
        OBVIOUS
      <4> QED BY <3>1, <4>1
    <3>3. PICK word : word = DataWords(m)[w]
      OBVIOUS
    <3>5. segments[1][1 + w] = word
      BY ONLY <1>4, <3>3, w \in 1..n
    <3>4. HasBit(word[(b % 64) \div 8 + 1], b % 8) <=> b \in m.ones
      BY <1>2, <3>1, <3>3, DataIs
    <3>6. segments[1][b \div 64 + 2] = word
      BY ONLY <3>2, <3>5
    <3> QED BY ONLY <3>4, <3>6 DEF BitRead
  <2>2. m.ones \subseteq 0..(64 * n - 1)
    BY <1>2, StructIs
  <2> QED BY <2>1, <2>2
<1>6. [i \in 1..p |-> PointerRead(segments, 1 + n + i)] = m.ptrs
  <2>1. PICK q \in Seq(Values) : q = m.ptrs /\ Len(q) = p
    BY <1>2, StructIs
  <2>2. q = [i \in 1..p |-> q[i]]
    BY <2>1, LenProperties
  <2> QED BY <1>2, <2>1, <2>2 DEF Says
<1>7. Decoded(segments) = [size |-> m.size, ones |-> m.ones, ptrs |-> m.ptrs]
  BY <1>2, <1>3, <1>5, <1>6 DEF Decoded
<1> QED BY <1>7, StructIs

\* The pointer at word w leads to the object of v, off words behind its end.
Leads(segments, w, v, off) ==
  \E to : /\ to = Followed(segments, 1, w) /\ to.word = PointerTo(v, off)
          /\ segments[to.seg][to.w + 1 + off] = Object(v)[1]

\* A pointer is read as what it leads to.
LEMMA PointerIsRead ==
  ASSUME NEW v \in {"empty", "contents"}, NEW off \in Nat, Fits(8 * off + 2),
         NEW segments, NEW w, segments[1][w] # ZeroWord,
         Leads(segments, w, v, off)
  PROVE  PointerRead(segments, w) = v
<1>1. PICK to : /\ to = Followed(segments, 1, w) /\ to.word = PointerTo(v, off)
                /\ segments[to.seg][to.w + 1 + off] = Object(v)[1]
  BY DEF Leads
<1>2. /\ Uint32At(to.word, 1) \div 4 = off
      /\ to.word[1] % 4 = IF v = "empty" THEN 0 ELSE 1
  BY <1>1, PointerWord
<1>3. PICK object : object = segments[to.seg][to.w + 1 + Uint32At(to.word, 1) \div 4]
  OBVIOUS
<1>4. object = Object(v)[1]
  BY <1>2, <1>3, <1>1
<1>5. PointerRead(segments, w) =
        CASE to.word[1] % 4 = 0 /\ object = ZeroWord -> "empty"
          [] to.word[1] % 4 = 1 /\ object[1] # 0 -> "contents"
          [] OTHER -> "broken"
  BY <1>3, <1>1 DEF PointerRead
<1>6. v = "empty" => object = ZeroWord
  BY <1>4, ObjectIs DEF Values
<1>7. v = "contents" => object[1] # 0
  BY <1>4, ObjectIs DEF Values
<1> QED BY <1>2, <1>5, <1>6, <1>7

\* The objects of n pointers, one behind the other.
Laid(seqs, n, f) ==
  /\ f \in Seq(ByteWord) /\ Len(f) \in Nat /\ Len(f) <= 4 * n
  /\ \A i \in 1..n :
       /\ Ahead(seqs, i) \in Nat /\ Ahead(seqs, i) <= 4 * n
       /\ \A j \in 1..Len(seqs[i]) :
            Ahead(seqs, i) + j \in 1..Len(f) /\ f[Ahead(seqs, i) + j] = seqs[i][j]

\* Objects of at most four words, flattened, lie one behind the other.
LEMMA ObjectsLaid ==
  ASSUME NEW n \in Nat, NEW o, o = [i \in 1..n |-> o[i]],
         \A i \in 1..n : o[i] \in Seq(ByteWord) /\ Len(o[i]) <= 4
  PROVE  Laid(o, n, FlattenSeq(o))
<1>1. o \in [1..n -> Seq(ByteWord)]
  OBVIOUS
<1>2. o \in Seq(Seq(ByteWord)) /\ Len(o) = n
  BY <1>1, SeqOfFunction
<1>3. PICK q \in Seq(Seq(ByteWord)) : q = o
  BY <1>2
<1>4. n = Len(q) /\ \A i \in 1..n : Len(q[i]) <= 4
  BY <1>2, <1>3
<1>5. Laid(q, n, FlattenSeq(q))
  BY ONLY n \in Nat, q \in Seq(Seq(ByteWord)), <1>4, FlatOf, SMTT(60) DEF Laid
<1> QED BY <1>3, <1>5

\* Where a pointer's offset leads is not far.
LEMMA OffsetFits ==
  ASSUME NEW p \in Uint16, NEW i \in 1..p, NEW a \in Nat, a <= 4 * p
  PROVE  p - i + a \in Nat /\ Fits(8 * (p - i + a) + 2) /\ Fits(8 * a + 2)
<1>1. PICK off \in Nat : off = p - i + a
  BY Sixteen
<1>2. 0 \in Uint16 /\ p \in Nat
  BY SmallNumbers, SMT
<1>3. off <= 1 + 0 + 5 * p /\ a <= 1 + 0 + 5 * p
  BY <1>1, <1>2
<1> QED BY <1>1, <1>2, <1>3, SmallFits

\* Segments that say what the struct is, and fit a message.
Carried(segments, m) ==
  /\ segments \in Seq(Seq(ByteWord)) /\ Len(segments) \in {1, 2}
  /\ \A i \in 1..Len(segments) : Fits(Len(segments[i]))
  /\ Decoded(segments) = m

\* Pointers ahead to objects behind the pointer section.
LEMMA NearIsDecoded ==
  ASSUME NEW m \in StructState, NEW segments, segments = SegmentsOf(m, FALSE)
  PROVE  Carried(segments, m)
<1>1. PICK n \in Uint16, p \in Uint16 :
        /\ n = m.size.data /\ p = m.size.pointers
        /\ DOMAIN m.ptrs = 1..p /\ Len(m.ptrs) = p /\ \A i \in 1..p : m.ptrs[i] \in Values
  BY StructIs
<1>2. n \in Nat /\ p \in Nat
  BY Sixteen
<1>3. PICK r \in Seq(ByteWord) :
        r = <<RootWord(m.size)>> \o DataWords(m) /\ Len(r) = 1 + n
  BY <1>1, RootPart
<1>4. PICK o : o = [i \in 1..p |-> Object(m.ptrs[i])]
  OBVIOUS
<1>5. o = [i \in 1..p |-> o[i]]
      /\ \A i \in 1..p : o[i] = Object(m.ptrs[i]) /\ o[i] \in Seq(ByteWord) /\ Len(o[i]) <= 4
  <2>1. ASSUME NEW i \in 1..p
        PROVE  o[i] = Object(m.ptrs[i]) /\ o[i] \in Seq(ByteWord) /\ Len(o[i]) <= 4
    <3>1. PICK x \in Seq(ByteWord), l \in Nat : x = o[i] /\ x = Object(m.ptrs[i]) /\ l = Len(x) /\ l <= 3
      BY <1>1, <1>4, ObjectIs, LenProperties
    <3> QED BY <3>1
  <2> QED BY <1>4, <2>1
<1>6. PICK f : f = FlattenSeq(o) /\ Laid(o, p, f)
  BY <1>2, <1>5, ObjectsLaid
<1>7. PICK np : np = NearPointers(m.ptrs, o)
  OBVIOUS
<1>8. np = [i \in 1..p |-> PointerTo(m.ptrs[i], p - i + Ahead(o, i))]
  BY <1>1, <1>7 DEF NearPointers
<1>9. ASSUME NEW i \in 1..p
      PROVE  \E a \in Nat, off \in Nat :
               /\ a = Ahead(o, i) /\ off = p - i + a /\ Fits(8 * off + 2)
               /\ np[i] = PointerTo(m.ptrs[i], off)
  <2>1. PICK a \in Nat : a = Ahead(o, i) /\ a <= 4 * p
    BY <1>6 DEF Laid
  <2>2. PICK off \in Nat : off = p - i + a /\ Fits(8 * off + 2)
    BY ONLY p \in Uint16, i \in 1..p, a \in Nat, <2>1, OffsetFits
  <2>3. np[i] = PointerTo(m.ptrs[i], off)
    BY <1>8, <2>1, <2>2
  <2> QED BY <2>1, <2>2, <2>3
<1>10. ASSUME NEW i \in 1..p
       PROVE  np[i] \in ByteWord /\ (m.ptrs[i] = "null" => np[i] = ZeroWord)
              /\ (m.ptrs[i] # "null" => np[i] # ZeroWord /\ np[i][1] % 4 # 2)
  <2>1. PICK off \in Nat : Fits(8 * off + 2) /\ np[i] = PointerTo(m.ptrs[i], off)
    BY <1>9
  <2>2. CASE m.ptrs[i] = "null"
    <3>1. np[i] = ZeroWord
      BY <2>1, <2>2 DEF PointerTo
    <3>2. ZeroWord \in ByteWord
      BY DEF ZeroWord, ByteWord
    <3> QED BY <2>2, <3>1, <3>2
  <2>3. CASE m.ptrs[i] # "null"
    <3>1. PICK v \in {"empty", "contents"} : v = m.ptrs[i]
      BY <1>1, <2>3 DEF Values
    <3>2. PICK w : w = np[i] /\ w = PointerTo(v, off)
      BY <2>1, <3>1
    <3>3. w \in ByteWord /\ w # ZeroWord /\ w[1] % 4 = IF v = "empty" THEN 0 ELSE 1
      BY ONLY v \in {"empty", "contents"}, off \in Nat, <2>1, <3>2, PointerWord
    <3> QED BY <2>3, <3>2, <3>3
  <2> QED BY <2>2, <2>3
<1>11. np \in Seq(ByteWord) /\ Len(np) = p
  <2>1. np \in [1..p -> ByteWord]
    BY <1>8, <1>10
  <2> QED BY <1>2, <2>1, SeqOfFunction
<1>12. PICK seg : seg = r \o np \o f /\ segments = <<seg>>
  BY <1>1, <1>3, <1>4, <1>6, <1>7 DEF SegmentsOf
<1>13. PICK x \in Seq(ByteWord), y \in Seq(ByteWord) : x = np /\ y = f /\ Len(x) = p /\ Len(y) \in Nat
  BY <1>6, <1>11 DEF Laid
<1>14. seg \in Seq(ByteWord) /\ Joined(r, x, y, seg)
  <2>1. seg = r \o x \o y
    BY <1>12, <1>13
  <2> QED BY ONLY r \in Seq(ByteWord), x \in Seq(ByteWord), y \in Seq(ByteWord), <2>1, JoinThree
<1>15. PICK l \in Nat : l = Len(f) /\ l <= 4 * p
  BY <1>6 DEF Laid
<1>16. /\ Len(seg) = 1 + n + p + l
       /\ \A i \in 1..(1 + n) : seg[i] = r[i]
       /\ \A i \in 1..p : seg[1 + n + i] = np[i]
       /\ \A i \in 1..l : seg[1 + n + p + i] = f[i]
  BY <1>3, <1>13, <1>14, <1>15 DEF Joined
<1>17. segments \in Seq(Seq(ByteWord)) /\ Len(segments) = 1 /\ segments[1] = seg
  <2>1. PICK one \in Seq(ByteWord) : one = seg
    BY <1>14
  <2>2. <<one>> \in Seq(Seq(ByteWord)) /\ Len(<<one>>) = 1 /\ <<one>>[1] = one
    BY ONLY one \in Seq(ByteWord), OneOf
  <2> QED BY <1>12, <2>1, <2>2
<1>18. Fits(Len(seg))
  <2>1. PICK k \in Nat : k = 1 + n + p + l
    BY <1>2
  <2>2. k <= 1 + n + 5 * p
    BY <1>2, <1>15, <2>1
  <2> QED BY <1>16, <2>1, <2>2, SmallFits
<1>19. ASSUME NEW i \in 1..p PROVE PointerRead(segments, 1 + n + i) = m.ptrs[i]
  <2>1. PICK w \in Nat : w = 1 + n + i
    BY <1>2
  <2>2. segments[1][w] = np[i]
    BY <1>16, <1>17, <2>1
  <2>3. CASE m.ptrs[i] = "null"
    BY <1>10, <2>1, <2>2, <2>3 DEF PointerRead
  <2>4. CASE m.ptrs[i] # "null"
    <3>1. PICK v \in {"empty", "contents"} : v = m.ptrs[i]
      BY <1>1, <2>4 DEF Values
    <3>2. PICK a \in Nat, off \in Nat :
            /\ a = Ahead(o, i) /\ off = p - i + a /\ Fits(8 * off + 2)
            /\ np[i] = PointerTo(v, off)
      BY <1>9, <3>1
    <3>3. PICK word : word = np[i] /\ word[1] % 4 # 2 /\ word # ZeroWord
      BY <1>10, <2>4
    <3>4. PICK to : to = Followed(segments, 1, w)
      OBVIOUS
    <3>5. to = [word |-> word, seg |-> 1, w |-> w]
      BY <2>2, <3>3, <3>4 DEF Followed
    <3>6. to.word = PointerTo(v, off) /\ to.seg = 1 /\ to.w = w
      BY <3>2, <3>3, <3>5
    <3>7. o[i] = Object(v) /\ 1 \in 1..Len(o[i])
      <4>1. o[i] = Object(v)
        BY <1>5, <3>1
      <4>2. v \in Values
        BY DEF Values
      <4>3. PICK z : z = Object(v)
        OBVIOUS
      <4>4. Len(z) = 1 \/ Len(z) = 3
        BY ONLY v \in {"empty", "contents"}, <4>2, <4>3, ObjectIs
      <4>5. PICK k \in {1, 3} : k = Len(z)
        BY <4>4
      <4>6. 1 \in 1..k
        OBVIOUS
      <4> QED BY <4>1, <4>3, <4>5, <4>6
    <3>8. a + 1 \in 1..l /\ f[a + 1] = Object(v)[1]
      BY <1>6, <1>15, <3>2, <3>7 DEF Laid
    <3>9. w + 1 + off = 1 + n + p + (a + 1)
      BY <1>2, <2>1, <3>2
    <3>10. seg[1 + n + p + (a + 1)] = Object(v)[1]
      BY <1>16, <3>8
    <3>11. segments[to.seg][to.w + 1 + off] = Object(v)[1]
      BY <1>17, <3>6, <3>9, <3>10
    <3>12. segments[1][w] # ZeroWord
      BY <2>2, <3>3
    <3>13. PointerRead(segments, w) = v
      <4>1. Leads(segments, w, v, off)
        BY <3>4, <3>6, <3>11 DEF Leads
      <4> QED BY ONLY v \in {"empty", "contents"}, off \in Nat, <3>2, <3>12, <4>1, PointerIsRead
    <3> QED BY <2>1, <3>1, <3>13
  <2> QED BY <2>3, <2>4
<1>20. \A k \in 1..(1 + n) : segments[1][k] = r[k]
  BY <1>16, <1>17
<1>21. Decoded(segments) = m
  <2>1. \A k \in 1..(1 + m.size.data) : segments[1][k] = r[k]
    BY <1>1, <1>20
  <2>2. \A i \in 1..m.size.pointers : PointerRead(segments, 1 + m.size.data + i) = m.ptrs[i]
    BY <1>1, <1>19
  <2>3. Says(segments, m)
    BY <1>3, <2>1, <2>2 DEF Says
  <2> QED BY <2>3, RestIsDecoded
<1>22. \A i \in 1..Len(segments) : Fits(Len(segments[i]))
  <2>1. \A i \in 1..1 : i = 1
    OBVIOUS
  <2> QED BY <1>17, <1>18, <2>1
<1> QED BY <1>17, <1>21, <1>22 DEF Carried

\* Far pointers to landing pads in a second segment, each before its object.
LEMMA FarIsDecoded ==
  ASSUME NEW m \in StructState, NEW segments, segments = SegmentsOf(m, TRUE)
  PROVE  Carried(segments, m)
<1>1. PICK n \in Uint16, p \in Uint16 :
        /\ n = m.size.data /\ p = m.size.pointers
        /\ DOMAIN m.ptrs = 1..p /\ Len(m.ptrs) = p /\ \A i \in 1..p : m.ptrs[i] \in Values
  BY StructIs
<1>2. n \in Nat /\ p \in Nat
  BY Sixteen
<1>3. PICK r \in Seq(ByteWord) :
        r = <<RootWord(m.size)>> \o DataWords(m) /\ Len(r) = 1 + n
  BY <1>1, RootPart
<1>4. PICK o : o = [i \in 1..p |-> Pad(m.ptrs[i]) \o Object(m.ptrs[i])]
  OBVIOUS
<1>5. o = [i \in 1..p |-> o[i]] /\ \A i \in 1..p : o[i] \in Seq(ByteWord) /\ Len(o[i]) <= 4
  <2>1. ASSUME NEW i \in 1..p PROVE o[i] \in Seq(ByteWord) /\ Len(o[i]) <= 4
    <3>1. PICK v \in Values, x \in {o[i]} : v = m.ptrs[i] /\ x = Pad(v) \o Object(v)
      BY <1>1, <1>4
    <3>2. x \in Seq(ByteWord) /\ Len(x) <= 4
      BY ONLY v \in Values, <3>1, PaddedIs
    <3> QED BY <3>1, <3>2
  <2> QED BY <1>4, <2>1
<1>6. PICK f : f = FlattenSeq(o) /\ Laid(o, p, f)
  BY <1>2, <1>5, ObjectsLaid
<1>7. PICK fp : fp = FarPointers(m.ptrs, o)
  OBVIOUS
<1>8. fp = [i \in 1..p |-> IF m.ptrs[i] = "null" THEN ZeroWord ELSE FarPointer(Ahead(o, i))]
  BY <1>1, <1>7 DEF FarPointers
<1>9. ASSUME NEW i \in 1..p
      PROVE  \E a \in Nat : a = Ahead(o, i) /\ a <= 4 * p /\ Fits(8 * a + 2)
  <2>1. PICK a \in Nat : a = Ahead(o, i) /\ a <= 4 * p
    BY <1>6 DEF Laid
  <2>2. Fits(8 * a + 2)
    BY ONLY p \in Uint16, i \in 1..p, a \in Nat, <2>1, OffsetFits
  <2> QED BY <2>1, <2>2
<1>10. ASSUME NEW i \in 1..p
       PROVE  /\ fp[i] \in ByteWord /\ (m.ptrs[i] = "null" => fp[i] = ZeroWord)
              /\ m.ptrs[i] # "null" =>
                   /\ fp[i] # ZeroWord /\ fp[i][1] % 4 = 2 /\ Uint32At(fp[i], 5) = 1
                   /\ Uint32At(fp[i], 1) \div 8 = Ahead(o, i)
  <2>1. CASE m.ptrs[i] = "null"
    <3>1. fp[i] = ZeroWord
      BY <1>8, <2>1
    <3>2. ZeroWord \in ByteWord
      BY DEF ZeroWord, ByteWord
    <3> QED BY <2>1, <3>1, <3>2
  <2>2. CASE m.ptrs[i] # "null"
    <3>1. PICK a \in Nat : a = Ahead(o, i) /\ Fits(8 * a + 2)
      BY <1>9
    <3>2. PICK w : w = fp[i] /\ w = FarPointer(a)
      BY <1>8, <2>2, <3>1
    <3>3. /\ w \in ByteWord /\ w # ZeroWord /\ w[1] % 4 = 2
          /\ Uint32At(w, 5) = 1 /\ Uint32At(w, 1) \div 8 = a
      BY ONLY a \in Nat, <3>1, <3>2, FarWordIs
    <3> QED BY ONLY <2>2, <3>1, <3>2, <3>3
  <2> QED BY <2>1, <2>2
<1>11. fp \in Seq(ByteWord) /\ Len(fp) = p
  <2>1. fp \in [1..p -> ByteWord]
    BY <1>8, <1>10
  <2> QED BY <1>2, <2>1, SeqOfFunction
<1>12. PICK seg : seg = r \o fp /\ segments = <<seg, f>>
  BY <1>1, <1>3, <1>4, <1>6, <1>7 DEF SegmentsOf
<1>13. PICK x \in Seq(ByteWord), y \in Seq(ByteWord) : x = fp /\ y = f /\ Len(x) = p /\ Len(y) \in Nat
  BY <1>6, <1>11 DEF Laid
<1>14. /\ seg \in Seq(ByteWord) /\ Len(seg) = Len(r) + Len(x)
       /\ \A i \in 1..Len(r) : seg[i] = r[i]
       /\ \A i \in 1..Len(x) : seg[Len(r) + i] = x[i]
  <2>1. seg = r \o x
    BY <1>12, <1>13
  <2> QED BY ONLY r \in Seq(ByteWord), x \in Seq(ByteWord), <2>1, JoinOf
<1>15. PICK l \in Nat : l = Len(f) /\ l <= 4 * p
  BY <1>6 DEF Laid
<1>16. /\ Len(seg) = 1 + n + p
       /\ \A i \in 1..(1 + n) : seg[i] = r[i]
       /\ \A i \in 1..p : seg[1 + n + i] = fp[i]
  BY <1>3, <1>13, <1>14
<1>17. /\ segments \in Seq(Seq(ByteWord)) /\ Len(segments) = 2
       /\ segments[1] = seg /\ segments[2] = f
  <2>1. PICK z \in Seq(ByteWord) : z = seg
    BY <1>14
  <2>2. /\ <<z, y>> \in Seq(Seq(ByteWord)) /\ Len(<<z, y>>) = 2
        /\ <<z, y>>[1] = z /\ <<z, y>>[2] = y
    BY ONLY z \in Seq(ByteWord), y \in Seq(ByteWord), TwoOf
  <2> QED BY <1>12, <1>13, <2>1, <2>2
<1>18. Fits(Len(seg)) /\ Fits(Len(f))
  <2>1. PICK k \in Nat : k = 1 + n + p
    BY <1>2
  <2>2. k <= 1 + n + 5 * p /\ l <= 1 + n + 5 * p
    BY <1>2, <1>15, <2>1
  <2> QED BY <1>15, <1>16, <2>1, <2>2, SmallFits
<1>19. ASSUME NEW i \in 1..p PROVE PointerRead(segments, 1 + n + i) = m.ptrs[i]
  <2>1. PICK w \in Nat : w = 1 + n + i
    BY <1>2
  <2>2. segments[1][w] = fp[i]
    BY <1>16, <1>17, <2>1
  <2>3. CASE m.ptrs[i] = "null"
    BY <1>10, <2>1, <2>2, <2>3 DEF PointerRead
  <2>4. CASE m.ptrs[i] # "null"
    <3>1. PICK v \in {"empty", "contents"} : v = m.ptrs[i] /\ v \in Values
      BY <1>1, <2>4 DEF Values
    <3>2. PICK a \in Nat : a = Ahead(o, i)
      BY <1>9
    <3>3. PICK word : /\ word = fp[i] /\ word # ZeroWord /\ word[1] % 4 = 2
                      /\ Uint32At(word, 5) = 1 /\ Uint32At(word, 1) \div 8 = a
      BY <1>10, <2>4, <3>2
    <3>4. PICK q : q = o[i] /\ q = Pad(v) \o Object(v)
      BY <1>4, <3>1
    <3>5. q \in Seq(ByteWord) /\ Len(q) >= 2 /\ q[1] = PointerTo(v, 0) /\ q[2] = Object(v)[1]
      <4>1. v # "null"
        OBVIOUS
      <4> QED BY ONLY v \in {"empty", "contents"}, <3>1, <3>4, <4>1, PaddedIs
    <3>6. f[a + 1] = q[1] /\ f[a + 2] = q[2]
      <4>1. PICK k \in Nat : k = Len(q) /\ k >= 2
        BY <3>5, LenProperties
      <4>2. 1 \in 1..k /\ 2 \in 1..k
        BY <4>1
      <4>3. \A j \in 1..Len(o[i]) : f[Ahead(o, i) + j] = o[i][j]
        BY <1>6 DEF Laid
      <4>4. \A j \in 1..k : f[a + j] = q[j]
        BY ONLY <3>2, <3>4, <4>1, <4>3
      <4> QED BY ONLY <4>2, <4>4
    <3>7. PICK to : to = Followed(segments, 1, w)
      OBVIOUS
    <3>8. to = [word |-> segments[2][a + 1], seg |-> 2, w |-> a + 1]
      <4>1. segments[1][w] = word
        BY <2>2, <3>3
      <4>2. Uint32At(word, 5) + 1 = 2
        BY <3>3
      <4> QED BY ONLY <3>3, <3>7, <4>1, <4>2 DEF Followed
    <3>9. to.word = PointerTo(v, 0) /\ to.seg = 2 /\ to.w = a + 1
      BY <1>17, <3>5, <3>6, <3>8
    <3>10. (a + 1) + 1 + 0 = a + 2
      BY <3>2
    <3>11. segments[to.seg][to.w + 1 + 0] = Object(v)[1]
      BY <1>17, <3>5, <3>6, <3>9, <3>10
    <3>12. segments[1][w] # ZeroWord
      BY <2>2, <3>3
    <3>13. Fits(8 * 0 + 2)
      BY ONLY SMT DEF Fits
    <3>14. Leads(segments, w, v, 0)
      BY ONLY <3>7, <3>9, <3>11 DEF Leads
    <3>15. PointerRead(segments, w) = v
      <4>1. PICK off \in Nat : off = 0
        OBVIOUS
      <4>2. Fits(8 * off + 2) /\ Leads(segments, w, v, off)
        BY ONLY <4>1, <3>13, <3>14
      <4> QED BY ONLY v \in {"empty", "contents"}, off \in Nat, <3>12, <4>2, PointerIsRead
    <3> QED BY <2>1, <3>1, <3>15
  <2> QED BY <2>3, <2>4
<1>20. \A k \in 1..(1 + n) : segments[1][k] = r[k]
  BY <1>16, <1>17
<1>21. Decoded(segments) = m
  <2>1. \A k \in 1..(1 + m.size.data) : segments[1][k] = r[k]
    BY <1>1, <1>20
  <2>2. \A i \in 1..m.size.pointers : PointerRead(segments, 1 + m.size.data + i) = m.ptrs[i]
    BY <1>1, <1>19
  <2>3. Says(segments, m)
    BY <1>3, <2>1, <2>2 DEF Says
  <2> QED BY <2>3, RestIsDecoded
<1>22. \A i \in 1..Len(segments) : Fits(Len(segments[i]))
  <2>1. \A i \in 1..2 : i = 1 \/ i = 2
    OBVIOUS
  <2> QED BY <1>17, <1>18, <2>1
<1> QED BY <1>17, <1>21, <1>22 DEF Carried

-----------------------------------------------------------------------------
(* The way of a message.                                                     *)

\* What is sent is the message, and the struct is read out of it.
LEMMA MessageIsStruct ==
  ASSUME NEW m \in StructState, NEW split \in BOOLEAN, NEW segments, segments = SegmentsOf(m, split)
  PROVE  /\ Unpack(PackedStream(segments)) = Stream(segments)
         /\ UnpackedWords(PackedStream(segments)) = Len(Stream(segments))
         /\ Decoded(FramedSegments(Unpack(PackedStream(segments)))) = m
<1>1. Carried(segments, m)
  <2>1. CASE split = TRUE
    BY <2>1, FarIsDecoded
  <2>2. CASE split = FALSE
    BY <2>2, NearIsDecoded
  <2> QED BY <2>1, <2>2
<1>2. PICK got \in Seq(Seq(ByteWord)) :
        /\ got = segments /\ Len(got) \in {1, 2} /\ \A i \in 1..Len(got) : Fits(Len(got[i]))
  BY <1>1 DEF Carried
<1>3. got # <<>> /\ Len(got) <= MaxStreamSegments
  <2>1. PICK k \in {1, 2} : k = Len(got)
    BY <1>2
  <2>2. k # 0 /\ k <= MaxStreamSegments
    BY DEF MaxStreamSegments
  <2> QED BY <2>1, <2>2, EmptySeq
<1>4. /\ Unpack(PackedStream(got)) = Stream(got)
      /\ UnpackedWords(PackedStream(got)) = Len(Stream(got))
  BY ONLY got \in Seq(Seq(ByteWord)), <1>3, PackedStreamIsStream
<1>5. FramedSegments(Unpack(PackedStream(got))) = got
  BY ONLY got \in Seq(Seq(ByteWord)), <1>2, <1>3, PackedMessageIsRead
<1> QED BY <1>1, <1>2, <1>4, <1>5 DEF Carried

\* What was built is on its way.
LEMMA StructSent ==
  ASSUME StructInv, Send
  PROVE  StructInv' /\ class' = class /\ expected' = expected /\ phase = "build" /\ phase' = "sent"
<1>1. /\ class \in Classes /\ Built \in StructState /\ DOMAIN expected = Paths(class)
      /\ class' = class /\ expected' = expected /\ phase = "build" /\ phase' = "sent"
      /\ size' = [data |-> 0, pointers |-> 0] /\ ones' = {} /\ ptrs' = <<>>
  BY DEF Send, StructInv, WireTypes
<1>2. \E m \in StructState, split \in BOOLEAN : wire' = PackedStream(SegmentsOf(m, split))
  BY <1>1 DEF Send
<1>3. Built' \in StructState
  <2>1. 0 \in Uint16
    BY SmallNumbers, SMT
  <2>2. <<>> \in Seq(Values) /\ Len(<<>>) = 0
    BY EmptySeq
  <2> QED BY <1>1, <2>1, <2>2 DEF Built, StructState
<1> QED BY <1>1, <1>2, <1>3 DEF StructInv, WireTypes

LEMMA WireSend ==
  ASSUME WireInv, Send
  PROVE  WireInv'
<1>1. StructInv' /\ class' = class /\ expected' = expected /\ phase = "build" /\ phase' = "sent"
  BY StructSent, WireIsStruct
<1>2. PICK split \in BOOLEAN : wire' = PackedStream(SegmentsOf(Built, split))
  BY DEF Send
<1>3. PICK m \in StructState : m = Built /\ Agrees(m)
  BY <1>1 DEF WireInv, WireTypes
<1>4. wire' = PackedStream(SegmentsOf(m, split))
  BY <1>2, <1>3
<1>5. \A s \in SlotsOf[class] : expected'[s.path] = ReadOf(m, s)
  BY <1>1, <1>3 DEF Agrees
<1>6. UnderWay'
  BY <1>1, <1>4, <1>5 DEF UnderWay, Agrees
<1> QED BY <1>1, <1>6 DEF WireInv, StructInv

\* What was on its way is received.
LEMMA StructReceived ==
  ASSUME WireTypes, Receive, NEW m \in StructState, NEW split \in BOOLEAN,
         wire = PackedStream(SegmentsOf(m, split))
  PROVE  Built' = m /\ StructInv' /\ class' = class /\ expected' = expected /\ phase' = "received"
<1>1. /\ class \in Classes /\ DOMAIN expected = Paths(class)
      /\ class' = class /\ expected' = expected /\ phase' = "received"
  BY DEF Receive, WireTypes
<1>2. Decoded(FramedSegments(Unpack(wire))) = m
  BY MessageIsStruct
<1>3. size' = m.size /\ ones' = m.ones /\ ptrs' = m.ptrs
  BY <1>2 DEF Receive
<1>4. Built' = m
  BY <1>3, StructIs DEF Built
<1> QED BY <1>1, <1>4 DEF StructInv, WireTypes

LEMMA WireReceive ==
  ASSUME WireInv, Receive
  PROVE  WireInv'
<1>1. PICK m \in StructState, split \in BOOLEAN :
        wire = PackedStream(SegmentsOf(m, split)) /\ Agrees(m)
  BY DEF Receive, WireInv, UnderWay
<1>2. Built' = m /\ StructInv' /\ class' = class /\ expected' = expected /\ phase' = "received"
  BY <1>1, StructReceived DEF WireInv
<1>3. Agrees(Built)'
  BY <1>1, <1>2 DEF Agrees
<1> QED BY <1>2, <1>3 DEF WireInv, StructInv

\* A copy with more room.
LEMMA StructGrown ==
  ASSUME WireTypes, Grow
  PROVE  /\ StructInv' /\ class' = class /\ expected' = expected /\ phase = "received"
         /\ phase' = "grown" /\ ones' = ones
         /\ \E n \in Nat, h \in Nat :
              /\ n = size.pointers /\ h = size'.pointers /\ h >= n
              /\ ptrs' = [i \in 1..h |-> IF i <= n THEN ptrs[i] ELSE "null"]
<1>1. /\ class \in Classes /\ Built \in StructState /\ DOMAIN expected = Paths(class)
      /\ class' = class /\ expected' = expected /\ phase = "received" /\ phase' = "grown"
      /\ size' = Grown /\ ones' = ones /\ ptrs' = CopiedPointers(Grown.pointers)
  BY DEF Grow, WireTypes
<1>2. PICK n \in Nat, p \in Nat : n = size.data /\ p = size.pointers
  BY <1>1, BuiltFields
<1>3. /\ size \in [data : Uint16, pointers : Uint16] /\ ones \subseteq 0..(64 * n - 1)
      /\ ptrs \in Seq(Values) /\ DOMAIN ptrs = 1..p /\ Len(ptrs) = p
  BY <1>1, <1>2, BuiltFields
<1>4. \A a, b \in Uint16 : Max({a, b}) \in Uint16 /\ Max({a, b}) >= a
  <2>1. ASSUME NEW a \in Nat, NEW b \in Nat PROVE Max({a, b}) \in {a, b} /\ Max({a, b}) >= a
    <3>1. \E x \in {a, b} : \A y \in {a, b} : x >= y
      OBVIOUS
    <3> QED BY <3>1 DEF Max
  <2> QED BY <2>1, Sixteen
<1>5. PICK g \in Uint16, h \in Uint16 :
        /\ Grown = [data |-> g, pointers |-> h] /\ g >= n /\ h >= p
  <2>1. Layouts[class].data \in Uint16 /\ Layouts[class].pointers \in Uint16
    BY <1>1, LayoutsAssumption
  <2>2. n \in Uint16 /\ p \in Uint16
    BY <1>2, <1>3
  <2> QED BY <1>2, <1>4, <2>1, <2>2 DEF Grown
<1>6. g \in Nat /\ h \in Nat
  BY Sixteen
<1>7. ptrs' = [i \in 1..h |-> IF i <= p THEN ptrs[i] ELSE "null"] /\ size'.pointers = h
      /\ size'.data = g
  BY <1>1, <1>2, <1>5 DEF CopiedPointers
<1>8. Built' \in StructState
  <2>1. "null" \in Values
    BY DEF Values
  <2>2. \A i \in 1..h : i <= p => i \in 1..p
    BY <1>2
  <2>3. ptrs' \in [1..h -> Values]
    BY <1>3, <1>7, <2>1, <2>2
  <2>4. ptrs' \in Seq(Values) /\ Len(ptrs') = h
    BY <1>6, <2>3, SeqOfFunction
  <2>5. ones' \subseteq 0..(64 * g - 1) /\ ones' \subseteq Nat
    BY <1>1, <1>2, <1>3, <1>5, <1>6
  <2>6. size' \in [data : Uint16, pointers : Uint16]
    BY <1>1, <1>5
  <2> QED BY <1>7, <2>4, <2>5, <2>6 DEF Built, StructState
<1>9. StructInv'
  BY <1>1, <1>8 DEF StructInv, WireTypes
<1> QED BY <1>1, <1>2, <1>5, <1>6, <1>7, <1>9

\* It reads as the struct did.
LEMMA WireGrow ==
  ASSUME WireInv, Grow
  PROVE  WireInv'
<1>1. /\ StructInv' /\ class' = class /\ expected' = expected /\ phase = "received"
      /\ phase' = "grown" /\ ones' = ones /\ class \in Classes /\ Agrees(Built)
  BY StructGrown DEF WireInv, WireTypes
<1>2. PICK p \in Nat, h \in Nat :
        /\ p = size.pointers /\ h = size'.pointers /\ h >= p
        /\ ptrs' = [i \in 1..h |-> IF i <= p THEN ptrs[i] ELSE "null"]
  BY StructGrown DEF WireInv
<1>3. ASSUME NEW s \in SlotsOf[class] PROVE ReadOf(Built', s) = ReadOf(Built, s)
  <2>1. s.at \in Nat
    BY <1>1, GuardsOf DEF Slot
  <2>2. PICK c, d : c = Built /\ d = Built'
    OBVIOUS
  <2>3. c.ones = ones /\ d.ones = ones /\ c.ptrs = ptrs /\ d.ptrs = ptrs'
        /\ c.size.pointers = p /\ d.size.pointers = h
    BY <1>1, <1>2, <2>2 DEF Built
  <2>4. PointerOf(d, s) = PointerOf(c, s)
    <3>1. CASE s.at < p
      <4>1. s.at < h /\ s.at + 1 \in 1..h /\ s.at + 1 <= p
        BY <1>2, <2>1, <3>1
      <4> QED BY <1>2, <2>3, <3>1, <4>1 DEF PointerOf
    <3>2. CASE ~ (s.at < p)
      <4>1. ~ (s.at + 1 <= p) /\ (s.at < h => s.at + 1 \in 1..h)
        BY <1>2, <2>1, <3>2
      <4> QED BY <1>2, <2>3, <3>2, <4>1 DEF PointerOf
    <3> QED BY <3>1, <3>2
  <2>5. ReadOf(d, s) = ReadOf(c, s)
    BY <2>3, <2>4 DEF ReadOf, ValueOf, NumberOf
  <2> QED BY <2>2, <2>5
<1>4. Agrees(Built)'
  BY <1>1, <1>3 DEF Agrees
<1> QED BY <1>1, <1>4 DEF WireInv, StructInv

\* Nothing happens.
LEMMA WireStutter ==
  ASSUME WireTypes, UNCHANGED vars
  PROVE  /\ StructInv => StructInv'
         /\ WireInv => WireInv'
BY DEF StructInv, WireInv, WireTypes, UnderWay, Agrees, Built, vars

\* An accessor leaves a struct, also where it chooses a group over leftovers.
LEMMA StructAccessed ==
  ASSUME StructInv, SetNumber \/ SetVoid \/ SetPointer \/ InitPointer \/ GetPointer \/ Disown \/ InitGroup
  PROVE  StructInv'
<1>1. class \in Classes /\ Built \in StructState /\ WireTypes /\ DOMAIN expected = Paths(class)
  BY DEF StructInv, WireTypes
<1>2. \A s, value : DOMAIN After(s, value) = Paths(class)
  BY <1>1 DEF After
<1>3. ASSUME NEW s \in SlotsOf[class], Writing(s), DOMAIN expected' = Paths(class),
             \A b : b \notin Bits(s) => (b \in ones' <=> b \in WithTag(s)),
             \/ ptrs' = ptrs
             \/ IsPointer(s) /\ \E value \in Values : ptrs' = [ptrs EXCEPT ![s.at + 1] = value]
      PROVE  StructInv'
  <2>1. InBounds(s) /\ size' = size /\ phase' = phase /\ phase # "sent"
    BY <1>3 DEF Writing
  <2>2. /\ ptrs' \in Seq(Values) /\ Len(ptrs') = size.pointers
        /\ \A i \in 1..size.pointers : ptrs'[i] = ptrs[i] \/ (IsPointer(s) /\ i = s.at + 1)
    <3>1. CASE ptrs' = ptrs
      BY <1>1, <3>1, BuiltFields
    <3>2. CASE IsPointer(s) /\ \E value \in Values : ptrs' = [ptrs EXCEPT ![s.at + 1] = value]
      BY <1>1, <2>1, <3>2, PutReads
    <3> QED BY <1>3, <3>1, <3>2
  <2>3. WireTypes'
    BY <1>1, <1>3, <2>2, WriteAgrees
  <2> QED BY <2>1, <2>3 DEF StructInv
<1>4. ASSUME NEW s \in SlotsOf[class], Writing(s), Chosen(s.own), ones' = ones
      PROVE  WithTag(s) = ones
  <2>1. s.own # <<>> => ones \cap TagBits(s.own[1].at) = TagOnes(s.own[1])
    BY <1>1, <1>4, ChosenIs DEF Held
  <2> QED BY <2>1 DEF WithTag
<1>5. \A v \in {"null", "empty", "contents"} : v \in Values
  BY DEF Values
<1>6. CASE SetNumber
  <2>1. PICK s \in SlotsOf[class], value \in {"zeros", "ones"} :
          /\ Writing(s) /\ ones' = (WithTag(s) \ Bits(s)) \cup Stored(s, value)
          /\ expected' = After(s, value) /\ ptrs' = ptrs
    BY <1>6 DEF SetNumber
  <2>2. Stored(s, value) \in {{}, Bits(s)}
    BY DEF Stored
  <2> QED BY <1>2, <1>3, <2>1, <2>2
<1>7. CASE SetVoid \/ InitGroup
  BY <1>2, <1>3, <1>7 DEF SetVoid, InitGroup
<1>8. CASE SetPointer \/ InitPointer
  <2>1. PICK s \in SlotsOf[class], value \in Values :
          /\ IsPointer(s) /\ Writing(s) /\ ones' = WithTag(s)
          /\ ptrs' = [ptrs EXCEPT ![s.at + 1] = value] /\ expected' = After(s, value)
    BY <1>5, <1>8 DEF SetPointer, InitPointer, IsPointer, PointerKinds
  <2> QED BY <1>2, <1>3, <2>1
<1>9. CASE GetPointer \/ Disown
  <2>1. PICK s \in SlotsOf[class], value \in Values :
          /\ IsPointer(s) /\ Writing(s) /\ Chosen(s.own) /\ ones' = ones
          /\ ptrs' = [ptrs EXCEPT ![s.at + 1] = value]
          /\ expected' = [expected EXCEPT ![s.path] = value]
    BY <1>5, <1>9 DEF GetPointer, Disown, IsPointer, PointerKinds
  <2>2. DOMAIN expected' = Paths(class)
    BY <1>1, <2>1
  <2> QED BY <1>3, <1>4, <2>1, <2>2
<1> QED BY <1>6, <1>7, <1>8, <1>9

\* The struct is one, whatever the application does, and so is what the message on
\* its way says.
THEOREM WireTypesCorrect == Spec => []StructInv
<1>1. Init => StructInv
  BY WireInit, WireIsStruct
<1>2. StructInv /\ [Next]_vars => StructInv'
  <2> SUFFICES ASSUME StructInv, [Next]_vars PROVE StructInv'
    OBVIOUS
  <2>1. WireTypes
    BY DEF StructInv
  <2>2. CASE SetNumber \/ SetVoid \/ SetPointer \/ InitPointer \/ GetPointer \/ Disown \/ InitGroup
    BY <2>2, StructAccessed
  <2>3. CASE Send
    BY <2>3, StructSent
  <2>4. CASE Receive
    <3>1. PICK m \in StructState, split \in BOOLEAN : wire = PackedStream(SegmentsOf(m, split))
      BY <2>4 DEF Receive, StructInv
    <3> QED BY <2>1, <2>4, <3>1, StructReceived
  <2>5. CASE Grow
    BY <2>1, <2>5, StructGrown
  <2>6. CASE UNCHANGED vars
    BY <2>1, <2>6, WireStutter
  <2> QED BY <2>2, <2>3, <2>4, <2>5, <2>6 DEF Next, Done
<1> QED BY <1>1, <1>2, PTL DEF Spec

\* Every state of a struct that the application builds without choosing a group
\* over leftovers reads as expected, in the message and out of it.
THEOREM WireInvariant ==
  ASSUME "switch group" \notin Uses
  PROVE  Spec => []WireInv
<1>1. Init => WireInv
  BY WireInit
<1>2. WireInv /\ [Next]_vars => WireInv'
  <2> SUFFICES ASSUME WireInv, [Next]_vars PROVE WireInv'
    OBVIOUS
  <2>1. CASE SetNumber
    BY <2>1, WireSetNumber
  <2>2. CASE SetVoid
    BY <2>2, WireSetVoid
  <2>3. CASE SetPointer \/ InitPointer
    BY <2>3, WireSetPointer
  <2>4. CASE GetPointer \/ Disown
    BY <2>4, WireChangePointer
  <2>5. CASE InitGroup
    BY <2>5, WireInitGroup
  <2>6. CASE Send
    BY <2>6, WireSend
  <2>7. CASE Receive
    BY <2>7, WireReceive
  <2>8. CASE Grow
    BY <2>8, WireGrow
  <2>9. CASE Done
    BY <2>9, WireStutter DEF Done, WireInv
  <2>10. CASE UNCHANGED vars
    BY <2>10, WireStutter DEF WireInv
  <2> QED BY <2>1, <2>2, <2>3, <2>4, <2>5, <2>6, <2>7, <2>8, <2>9, <2>10 DEF Next
<1> QED BY <1>1, <1>2, PTL DEF Spec

\* Every field an accessor can reach reads as it was last given, whatever the
\* classes: Layouts only has to be as LayoutsAssumption says.
THEOREM WrittenIsRead ==
  ASSUME "switch group" \notin Uses
  PROVE  Spec => []ReadsAsWritten
<1>1. WireInv => ReadsAsWritten
  <2> SUFFICES ASSUME WireInv, NEW s \in SlotsOf[class], phase # "sent"
               PROVE  Read(s) = expected[s.path]
    BY DEF ReadsAsWritten
  <2>1. class \in Classes /\ Agrees(Built)
    BY DEF WireInv, WireTypes
  <2> QED BY <2>1, ReadIs DEF Agrees
<1> QED BY <1>1, WireInvariant, PTL

\* The getter of a member that was given up refuses it.
THEOREM DeadIsRefused ==
  ASSUME "switch group" \notin Uses
  PROVE  Spec => []DeadMembersRefused
<1>1. WireInv => DeadMembersRefused
  <2> SUFFICES ASSUME WireInv, NEW s \in SlotsOf[class], phase # "sent", expected[s.path] = "dead"
               PROVE  Read(s) = "dead"
    BY DEF DeadMembersRefused
  <2>1. class \in Classes /\ Agrees(Built)
    BY DEF WireInv, WireTypes
  <2> QED BY <2>1, ReadIs DEF Agrees
<1> QED BY <1>1, WireInvariant, PTL

\* Every message the application builds is unpacked as it was packed.
THEOREM PackedIsUnpacked == Spec => []PackingRoundTrip
<1>1. StructInv => PackingRoundTrip
  <2> SUFFICES ASSUME StructInv, NEW split \in BOOLEAN, NEW segments, segments = SegmentsOf(Built, split)
               PROVE  /\ Unpack(PackedStream(segments)) = Stream(segments)
                      /\ UnpackedWords(PackedStream(segments)) = Len(Stream(segments))
    BY DEF PackingRoundTrip
  <2>1. Built \in StructState
    BY DEF StructInv, WireTypes
  <2> QED BY <2>1, MessageIsStruct
<1> QED BY <1>1, WireTypesCorrect, PTL
=============================================================================
