------------------------------- MODULE Packing -------------------------------
(***************************************************************************)
(* The packed encoding of a stream of words (src/serialization/packing.ts) *)
(* and the framing of a message's segments (src/serialization/message.ts). *)
(* A word is a tuple of 8 bytes, a segment a sequence of words.            *)
(***************************************************************************)
EXTENDS Integers, FiniteSets, SequencesExt, Subsequences, Sums

CONSTANTS MaxRun,          \* the longest count a byte holds, 255 in the code
          SpanThreshold    \* PACK_SPAN_THRESHOLD

ASSUME PackingAssumption == MaxRun \in Nat \ {0} /\ SpanThreshold \in Nat \ {0}

ZeroTag == 0
SpanTag == 255

Power == <<1, 2, 4, 8, 16, 32, 64, 128, 256, 512, 1024, 2048, 4096, 8192, 16384, 32768>>
HasBit(n, i) == (n \div Power[i + 1]) % 2 = 1

\* The byte whose bits B(0) to B(7) say are set.
Byte(B(_)) ==
  LET v(i) == IF B(i) THEN 1 ELSE 0
  IN v(0) + 2 * v(1) + 4 * v(2) + 8 * v(3) + 16 * v(4) + 32 * v(5) + 64 * v(6) + 128 * v(7)
TagByte(w) == Byte(LAMBDA i: w[i + 1] # 0)
ZeroBytes(w) == Cardinality({i \in 1..8 : w[i] = 0})
NonzeroBytes(w) == Only(w, 1..255)

-----------------------------------------------------------------------------
(* pack(). A zero word is followed by a count of zero words, a word without    *)
(* zero bytes by a count of words that are copied as they are; counts are      *)
(* bytes. The code writes the count of a run when the run ends.                *)

CountByte(n) == n % (MaxRun + 1)

\* Does this word continue a run or span that began with such a tag?
Continues(tag, w) ==
  \/ tag = ZeroTag /\ TagByte(w) = ZeroTag
  \/ tag = SpanTag /\ ZeroBytes(w) < SpanThreshold
\* Mutant: the length is checked after the word was added.
RunLengthLate(words, i) ==
  CHOOSE n \in 0..(MaxRun + 1) :
    /\ i + n <= Len(words)
    /\ \A k \in 1..n : Continues(TagByte(words[i]), words[i + k])
    /\ n = MaxRun + 1 \/ i + n = Len(words) \/ ~Continues(TagByte(words[i]), words[i + n + 1])
\* A run ends at the word that does not continue it or finds it MaxRun long.
RunLength(words, i) ==
  CHOOSE n \in 0..MaxRun :
    /\ i + n <= Len(words)
    /\ \A k \in 1..n : Continues(TagByte(words[i]), words[i + k])
    /\ n = MaxRun \/ i + n = Len(words) \/ ~Continues(TagByte(words[i]), words[i + n + 1])

BytesOf(words) == [k \in 1..(8 * Len(words)) |-> words[(k - 1) \div 8 + 1][((k - 1) % 8) + 1]]

\* The bytes for word i and the run or span it begins.
Packet(words, i) ==
  LET tag == TagByte(words[i])
      n == RunLength(words, i)
  IN <<tag>> \o NonzeroBytes(words[i]) \o
       (CASE tag = ZeroTag -> <<CountByte(n)>>
          [] tag = SpanTag -> <<CountByte(n)>> \o BytesOf(SubSeq(words, i + 1, i + n))
          [] OTHER -> <<>>)

Pack(words) ==
  LET from[i \in Nat \ {0}] ==
        IF i > Len(words) THEN <<>> ELSE Packet(words, i) \o from[i + RunLength(words, i) + 1]
  IN from[1]

-----------------------------------------------------------------------------
(* unpack(), from the tag at byte i on, and the length getUnpackedByteLength() *)
(* counts for the buffer it fills.                                             *)

ZeroWord == [j \in 1..8 |-> 0]
SetBits(tag, n) == Cardinality({b \in 0..(n - 1) : HasBit(tag, b)})
\* getHammingWeight(): the bytes that follow a tag.
Following(tag) == SetBits(tag, 8)
TaggedWord(bytes, i) ==
  [j \in 1..8 |-> IF HasBit(bytes[i], j - 1) THEN bytes[i + 1 + SetBits(bytes[i], j - 1)] ELSE 0]
WordsAt(bytes, i, n) == [k \in 1..n |-> SubSeq(bytes, i + 8 * (k - 1), i + 8 * k - 1)]

\* The byte behind the tagged word, where a run or span has its count; the loop
\* of a stream that is cut off there ends.
AfterTag(bytes, i) == i + Following(bytes[i]) + 1
CountAfter(bytes, i) ==
  LET count == AfterTag(bytes, i)
  IN IF count > Len(bytes) THEN 0 ELSE bytes[count]

PacketWords(bytes, i) ==
  <<TaggedWord(bytes, i)>> \o
    (CASE bytes[i] = ZeroTag -> [k \in 1..CountAfter(bytes, i) |-> ZeroWord]
       [] bytes[i] = SpanTag -> WordsAt(bytes, AfterTag(bytes, i) + 1, CountAfter(bytes, i))
       [] OTHER -> <<>>)
NextPacket(bytes, i) ==
  CASE bytes[i] = ZeroTag -> AfterTag(bytes, i) + 1
    [] bytes[i] = SpanTag -> AfterTag(bytes, i) + 1 + 8 * CountAfter(bytes, i)
    [] OTHER -> AfterTag(bytes, i)

Unpack(bytes) ==
  LET from[i \in Nat \ {0}] ==
        IF i > Len(bytes) THEN <<>> ELSE PacketWords(bytes, i) \o from[NextPacket(bytes, i)]
  IN from[1]

CountedWords(bytes, i) ==
  IF bytes[i] \in {ZeroTag, SpanTag} THEN 1 + CountAfter(bytes, i) ELSE 1
UnpackedWords(bytes) ==
  LET from[i \in Nat \ {0}] ==
        IF i > Len(bytes) THEN 0 ELSE CountedWords(bytes, i) + from[NextPacket(bytes, i)]
  IN from[1]

-----------------------------------------------------------------------------
(* Framing: the number of segments less one and their lengths in words, as     *)
(* 32-bit numbers, the least significant byte first, padded to a whole word.   *)

MaxStreamSegments == 512

Uint32(n) == <<n % 256, (n \div 256) % 256, (n \div 65536) % 256, (n \div 16777216) % 256>>
\* The number in a word from byte j on.
Uint32At(w, j) == w[j] + 256 * w[j + 1] + 65536 * w[j + 2] + 16777216 * w[j + 3]

FrameHeader(segments) ==
  LET numbers == <<Len(segments) - 1>> \o [i \in 1..Len(segments) |-> Len(segments[i])]
      padded == IF Len(numbers) % 2 = 0 THEN numbers ELSE Append(numbers, 0)
  IN [i \in 1..(Len(padded) \div 2) |-> Uint32(padded[2 * i - 1]) \o Uint32(padded[2 * i])]

\* toArrayBuffer() and toPackedArrayBuffer(): the header and each segment are
\* packed on their own.
Stream(segments) == FrameHeader(segments) \o FlattenSeq(segments)
PackedStream(segments) ==
  Pack(FrameHeader(segments)) \o FlattenSeq([i \in 1..Len(segments) |-> Pack(segments[i])])

\* getFramedSegments(): the segments, or none if the header is refused.
FramedSegments(words) ==
  LET count == Uint32At(words[1], 1) + 1
      length(i) == IF i % 2 = 0 THEN Uint32At(words[i \div 2 + 1], 1)
                   ELSE Uint32At(words[i \div 2 + 1], 5)
      start(i) == count \div 2 + 1 + SumOf([j \in 1..(i - 1) |-> length(j)])
  IN IF words = <<>> \/ count > MaxStreamSegments \/ count \div 2 + 1 > Len(words)
     THEN <<>>
     ELSE IF start(count + 1) > Len(words) THEN <<>>
     ELSE [i \in 1..count |-> SubSeq(words, start(i) + 1, start(i) + length(i))]
=============================================================================
