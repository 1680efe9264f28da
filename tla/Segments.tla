------------------------------ MODULE Segments ------------------------------
(***************************************************************************)
(* The memory of a message under construction: segments of words, their    *)
(* allocation (serialization/segment.ts, message.ts, arena/) and the       *)
(* encoding of pointers in it (pointers/pointer.utils.ts).                 *)
(*                                                                         *)
(* A word is a record tagged with what it encodes. The zero word is at     *)
(* once the number 0, the null pointer and the empty struct pointer. An    *)
(* address is a segment id and a word offset, both counted from 0. A       *)
(* memory m has the segments, the message's table of capabilities and the   *)
(* kind of its arena.                                                      *)
(***************************************************************************)
EXTENDS Integers, Sequences

CONSTANTS DefaultWords,   \* DEFAULT_BUFFER_SIZE, in words
          SingleGrowth    \* MIN_SINGLE_SEGMENT_GROWTH, in words

ASSUME SegmentsAssumption == DefaultWords \in Nat \ {0} /\ SingleGrowth \in Nat \ {0}

-----------------------------------------------------------------------------
(* Words. `e` is the element size of a list; a size has d data words and p   *)
(* pointers. The number of elements of a composite list is in its tag.       *)

StructWord(off, size) == [t |-> "struct", off |-> off, d |-> size.d, p |-> size.p]
Zero == StructWord(0, [d |-> 0, p |-> 0])
ListWord(off, e, len) == [t |-> "list", off |-> off, e |-> e, len |-> len]
FarWord(double, off, id) == [t |-> "far", double |-> double, off |-> off, id |-> id]
CapWord(off, id) == [t |-> "other", off |-> off, id |-> id]
DataWord(v) == IF v = 0 THEN Zero ELSE [t |-> "data", v |-> v]
NoWord == [t |-> "none"]       \* what lies outside every segment

Addr(id, w) == [s |-> id, w |-> w]
Plus(a, n) == Addr(a.s, a.w + n)
SizeOf(word) == [d |-> word.d, p |-> word.p]
WordLength(size) == size.d + size.p

Allocated(m, a) == a.s + 1 \in DOMAIN m.segs /\ a.w + 1 \in DOMAIN m.segs[a.s + 1].words
Word(m, a) == IF Allocated(m, a) THEN m.segs[a.s + 1].words[a.w + 1] ELSE NoWord
Put(m, a, word) == [m EXCEPT !.segs[a.s + 1].words[a.w + 1] = word]

Zeros(n) == [i \in 1 .. n |-> Zero]

\* Words from a on, as many as there are in `words`, are overwritten.
Overwrite(m, a, words) == [m EXCEPT !.segs[a.s + 1].words =
  SubSeq(@, 1, a.w) \o words \o SubSeq(@, a.w + Len(words) + 1, Len(@))]
Fill(m, a, n) == Overwrite(m, a, Zeros(n))
CopyWords(m, a, src, n) == Overwrite(m, a, [i \in 1 .. n |-> Word(m, Plus(src, i - 1))])

-----------------------------------------------------------------------------
(* Allocation. A full segment sends the request to the message: a multi-     *)
(* segment arena adds a segment, a single-segment arena grows the only one.  *)

Larger(x, y) == IF x > y THEN x ELSE y

HasCapacity(m, id, n) == m.segs[id + 1].cap - Len(m.segs[id + 1].words) >= n

AllocateSegment(m, n) ==
  IF m.single
  THEN [m EXCEPT !.segs[1].cap = @ + Larger(n, SingleGrowth)]
  ELSE [m EXCEPT !.segs = Append(@, [words |-> <<>>, cap |-> Larger(n, DefaultWords)])]

\* The segment with room for n more words, and the memory that has it.
RoomFor(m, id, n) ==
  IF HasCapacity(m, id, n) THEN [m |-> m, id |-> id]
  ELSE [m |-> AllocateSegment(m, n), id |-> IF m.single THEN 0 ELSE Len(m.segs)]
Extend(room, n) ==
  [m  |-> [room.m EXCEPT !.segs[room.id + 1].words = @ \o Zeros(n)],
   at |-> Addr(room.id, Len(room.m.segs[room.id + 1].words))]

\* The memory with n more words, and the address of the first of them.
Allocate(m, id, n) == Extend(RoomFor(m, id, n), n)

-----------------------------------------------------------------------------
(* Following a pointer: p is the address of the pointer itself.              *)

IsFar(m, p) == Word(m, p).t = "far"
IsDoubleFar(m, p) == IsFar(m, p) /\ Word(m, p).double
FollowFar(m, p) == Addr(Word(m, p).id, Word(m, p).off)
FollowFars(m, p) ==
  IF ~ IsFar(m, p) THEN p ELSE Plus(FollowFar(m, p), IF IsDoubleFar(m, p) THEN 1 ELSE 0)
Target(m, p) == Word(m, FollowFars(m, p))

IsComposite(m, p) == Target(m, p).t = "list" /\ Target(m, p).e = "comp"

\* Where the object starts: for a composite list, its tag.
ObjectStart(m, p) ==
  IF IsDoubleFar(m, p) THEN FollowFar(m, FollowFar(m, p))
  ELSE Plus(FollowFars(m, p), 1 + Target(m, p).off)
Content(m, p) == Plus(ObjectStart(m, p), IF IsComposite(m, p) THEN 1 ELSE 0)

Tag(m, p) == Word(m, Plus(Content(m, p), -1))
Length(m, p) == IF IsComposite(m, p) THEN Tag(m, p).off ELSE Target(m, p).len

-----------------------------------------------------------------------------
(* Writing a pointer. Point(m, c, p) makes p lead to c as far as far         *)
(* pointers go; the word still to be written belongs at `at`, with offset    *)
(* `off`.                                                                    *)

FarTo(pad, c, p) ==
  [m |-> Put(pad.m, p, FarWord(FALSE, pad.at.w, pad.at.s)), at |-> pad.at,
   off |-> c.w - pad.at.w - 1]
DoubleFarTo(pad, c, p) ==
  [m |-> Put(Put(pad.m, p, FarWord(TRUE, pad.at.w, pad.at.s)), pad.at, FarWord(FALSE, c.w, c.s)),
   at |-> Plus(pad.at, 1), off |-> 0]

Point(m, c, p) ==
  IF p.s = c.s THEN [m |-> m, at |-> p, off |-> c.w - p.w - 1]
  ELSE IF HasCapacity(m, c.s, 1) THEN FarTo(Allocate(m, c.s, 1), c, p)
  ELSE DoubleFarTo(Allocate(m, p.s, 2), c, p)

Write(r, word) == Put(r.m, r.at, [word EXCEPT !.off = r.off])
PointStruct(m, c, p, size) == Write(Point(m, c, p), StructWord(0, size))
PointList(m, c, p, e, len) == Write(Point(m, c, p), ListWord(0, e, len))

\* The pointer and its landing pads become zero, not what it leads to.
ErasePointer(m, p) ==
  Put(IF IsFar(m, p) THEN Fill(m, FollowFar(m, p), IF IsDoubleFar(m, p) THEN 2 ELSE 1) ELSE m,
      p, Zero)
=============================================================================
