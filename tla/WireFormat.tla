------------------------------ MODULE WireFormat ------------------------------
(***************************************************************************)
(* A struct on its way through a message: built by the generated accessors *)
(* of its class (RpcSchema, MetaSchema; the accessors call                 *)
(* src/serialization/pointers/struct.utils.ts), packed, framed, unpacked   *)
(* and read by a class of the same or of a newer schema, which a writable  *)
(* copy makes room for by resizing.                                        *)
(*                                                                         *)
(* Data is kept bit by bit, so that accessors with overlapping offsets     *)
(* show; a number is written with all its bits set or none. A pointer is   *)
(* null, or leads to a fresh object ("empty") or to contents.              *)
(***************************************************************************)
EXTENDS Packing

CONSTANTS Layouts,   \* the generated classes: name -> Layout(...) of StructLayout
          MaxSets,   \* writes, by setters or by getters
          Uses       \* see InitGroup

ASSUME WireAssumption == MaxSets \in Nat /\ Uses \subseteq {"switch group"}

Classes == DOMAIN Layouts
SlotsOf == [c \in Classes |-> Layouts[c].slots]
Paths(c) == {s.path : s \in SlotsOf[c]}
Guards(s) == s.outer \o s.own

Range_(at, width) == at..(at + width - 1)
Bits(s) == Range_(s.at, s.width)
PointerKinds == {"text", "data", "list", "struct", "any"}
IsPointer(s) == s.kind \in PointerKinds
\* The discriminant of a union: a uint16 `at` this many bytes.
TagBits(at) == Range_(8 * at, 16)

-----------------------------------------------------------------------------
(* What a class must be like, and every class of the repository is: TLC        *)
(* evaluates the assumption on Layouts.                                        *)

MaxUint16 == 65535
Uint16 == 0..MaxUint16
Guard == [union : Seq(STRING), at : Nat, tag : Uint16]
Slot == [path : Seq(STRING), kind : PointerKinds \cup {"number", "void", "group"}, at : Nat,
         width : Nat, mask : BOOLEAN, outer : Seq(Guard), own : Seq(Guard)]

First(n, guards) == SubSeq(guards, 1, n)
\* All of these guards can hold at once.
Agree(guards, others) ==
  \A i \in DOMAIN guards \cap DOMAIN others :
    guards[i].union = others[i].union => guards[i].tag = others[i].tag

\* A union is one place, reached one way; each member is there once, and only
\* the members of a group are found below its guard.
WellNested(slots) ==
  /\ \A s \in slots : Len(s.own) <= 1 /\ (s.kind = "number" => s.width > 0)
  /\ \A s, x \in slots :
       /\ s.path = x.path => s = x
       /\ \A i \in DOMAIN Guards(s), j \in DOMAIN Guards(x) :
            Guards(s)[i].union = Guards(x)[j].union =>
              /\ i = j /\ Guards(s)[i].at = Guards(x)[j].at
              /\ First(i - 1, Guards(s)) = First(i - 1, Guards(x))
       /\ x # s /\ s.own # <<>> /\ Len(Guards(s)) <= Len(Guards(x))
            /\ First(Len(Guards(s)), Guards(x)) = Guards(s) =>
          /\ s.kind = "group" /\ Len(s.path) < Len(x.path)
          /\ SubSeq(x.path, 1, Len(s.path)) = s.path
  /\ \A x \in slots : \A i \in DOMAIN x.outer :
       \E s \in slots : s.own # <<>> /\ Guards(s) = First(i, Guards(x))

\* What can be there at once is in different places.
WellSpaced(slots) ==
  \A s, x \in slots :
    /\ x # s /\ Agree(Guards(s), Guards(x)) =>
         /\ Bits(s) \cap Bits(x) = {}
         /\ IsPointer(s) /\ IsPointer(x) => s.at # x.at
    /\ \A i \in DOMAIN Guards(x) :
         /\ Agree(Guards(s), First(i - 1, Guards(x))) =>
              TagBits(Guards(x)[i].at) \cap Bits(s) = {}
         /\ \A j \in DOMAIN Guards(s) :
              Guards(s)[j].union # Guards(x)[i].union
                /\ Agree(First(j - 1, Guards(s)), First(i - 1, Guards(x))) =>
              TagBits(Guards(s)[j].at) \cap TagBits(Guards(x)[i].at) = {}

ASSUME LayoutsAssumption ==
  \A c \in Classes :
    /\ Layouts[c].data \in Uint16 /\ Layouts[c].pointers \in Uint16
    /\ SlotsOf[c] \subseteq Slot
    /\ WellNested(SlotsOf[c]) /\ WellSpaced(SlotsOf[c])

VARIABLES
  class,     \* the struct's class
  size,      \* words of its data and pointer sections
  ones,      \* bits of its data section that are set
  ptrs,      \* its pointers, by index + 1
  phase,     \* "build", "sent", "received" (read-only), "grown" (a writable copy)
  wire,      \* the bytes on their way
  expected,  \* history: what each slot was last given, "dead" in a union
             \* that is something else
  sets       \* history: the number of writes

vars == <<class, size, ones, ptrs, phase, wire, expected, sets>>

SlotAt(path) == CHOOSE s \in SlotsOf[class] : s.path = path

-----------------------------------------------------------------------------
(* Accessors. *)

TagOnes(g) == {b \in TagBits(g.at) : HasBit(g.tag, b - 8 * g.at)}
\* testWhich().
Chosen(guards) == \A i \in DOMAIN guards : ones \cap TagBits(guards[i].at) = TagOnes(guards[i])

\* checkDataBounds() and checkReadPointerBounds().
InBounds(s) ==
  /\ \A i \in DOMAIN s.own : TagBits(s.own[i].at) \subseteq 0..(64 * size.data - 1)
  /\ Bits(s) \subseteq 0..(64 * size.data - 1)
  /\ IsPointer(s) => s.at < size.pointers

\* Mutant: the default is left out of the xor.
StoredPlain(s, value) == IF value = "ones" THEN Bits(s) ELSE {}
\* What is stored for a number: its bits and those of the default, xor.
Stored(s, value) == IF (value = "ones") = s.mask THEN {} ELSE Bits(s)
NumberIn(s) ==
  CASE ones \cap Bits(s) = {} -> IF s.mask THEN "ones" ELSE "zeros"
    [] Bits(s) \subseteq ones -> IF s.mask THEN "zeros" ELSE "ones"
    [] OTHER -> "mixed"

\* Past the end of a section a read-only struct has defaults.
ValueIn(s) ==
  CASE s.kind = "number" -> NumberIn(s)
    [] IsPointer(s) -> IF s.at < size.pointers THEN ptrs[s.at + 1] ELSE "null"
    [] OTHER -> "void"
\* Mutant: the getter does not test the discriminant.
ReadUntested(s) == ValueIn(s)
\* A getter.
Read(s) == IF Chosen(Guards(s)) THEN ValueIn(s) ELSE "dead"

\* What a setter leaves in the data section, the discriminant written first.
WithTag(s) ==
  IF s.own = <<>> THEN ones ELSE (ones \ TagBits(s.own[1].at)) \cup TagOnes(s.own[1])

-----------------------------------------------------------------------------
(* What the application expects to read. *)

Fresh(s) ==
  CASE s.kind = "number" -> IF s.mask THEN "ones" ELSE "zeros"
    [] IsPointer(s) -> "null"
    [] OTHER -> "void"
FreshUnless(s, guards) == IF \E i \in DOMAIN guards : guards[i].tag # 0 THEN "dead" ELSE Fresh(s)

FirstValue(s) == FreshUnless(s, Guards(s))

\* Choosing a member of a union ends the others and begins its own members anew:
\* what slot x is expected to read once s was given the value, `guards` being the
\* unions x is in, of which number i is the one s chooses in (0 if none is).
AfterChoice(x, s, guards, i) ==
  CASE i = 0 -> expected[x.path]
    [] i > 0 /\ guards[i].tag # s.own[1].tag -> "dead"
    [] i > 0 /\ guards[i].tag = s.own[1].tag /\ expected[s.path] # "dead" -> expected[x.path]
    [] i > 0 /\ guards[i].tag = s.own[1].tag /\ expected[s.path] = "dead" ->
         FreshUnless(x, SubSeq(guards, i + 1, Len(guards)))
Union(s, guards) ==
  LET same == {i \in DOMAIN guards : s.own # <<>> /\ guards[i].union = s.own[1].union}
  IN IF same = {} THEN 0 ELSE Max(same)
AfterFor(x, s, value) ==
  IF x.path = s.path THEN value ELSE AfterChoice(x, s, Guards(x), Union(s, Guards(x)))
After(s, value) == [p \in DOMAIN expected |-> AfterFor(SlotAt(p), s, value)]

-----------------------------------------------------------------------------
(* Building. *)

\* The struct is allocated with the size its class has, or had in an older
\* schema, when it had no last word or no pointers yet.
Sizes(layout) ==
  {[data |-> d, pointers |-> p] :
     d \in {layout.data} \cup ({layout.data - 1} \cap Nat),
     p \in {layout.pointers} \cup ({layout.pointers - 1} \cap Nat)}

Init ==
  /\ class \in Classes
  /\ size \in Sizes(Layouts[class])
  /\ ones = {}
  /\ ptrs = [i \in 1..size.pointers |-> "null"]
  /\ phase = "build" /\ wire = <<>>
  /\ expected = [p \in Paths(class) |-> FirstValue(SlotAt(p))]
  /\ sets = 0

\* A setter reached through the getters of its groups.
Writing(s) ==
  /\ phase \in {"build", "grown"} /\ sets < MaxSets
  /\ InBounds(s) /\ Chosen(s.outer)
  /\ sets' = sets + 1
  /\ UNCHANGED <<class, size, phase, wire>>

SetNumber ==
  \E s \in {x \in SlotsOf[class] : x.kind = "number"}, value \in {"zeros", "ones"} :
    /\ Writing(s)
    /\ ones' = (WithTag(s) \ Bits(s)) \cup Stored(s, value)
    /\ expected' = After(s, value)
    /\ UNCHANGED ptrs

SetVoid ==
  \E s \in {x \in SlotsOf[class] : x.kind = "void" /\ x.own # <<>>} :
    /\ Writing(s)
    /\ ones' = WithTag(s)
    /\ expected' = After(s, "void")
    /\ UNCHANGED ptrs

\* set, _adopt: whatever the pointer led to is erased first.
SetPointer ==
  \E s \in {x \in SlotsOf[class] : IsPointer(x)} :
    /\ Writing(s)
    /\ ones' = WithTag(s)
    /\ ptrs' = [ptrs EXCEPT ![s.at + 1] = "contents"]
    /\ expected' = After(s, "contents")
\* _init: the same, with a new object of its class.
InitPointer ==
  \E s \in {x \in SlotsOf[class] : x.kind \in {"data", "list", "struct"}} :
    /\ Writing(s)
    /\ ones' = WithTag(s)
    /\ ptrs' = [ptrs EXCEPT ![s.at + 1] = "empty"]
    /\ expected' = After(s, "empty")

\* In a writable message getting a null object creates it.
GetPointer ==
  \E s \in {x \in SlotsOf[class] : x.kind \in {"data", "list", "struct"}} :
    /\ Writing(s) /\ Chosen(s.own) /\ ptrs[s.at + 1] = "null"
    /\ ptrs' = [ptrs EXCEPT ![s.at + 1] = "empty"]
    /\ expected' = [expected EXCEPT ![s.path] = "empty"]
    /\ UNCHANGED ones

\* _disown: the getter, then the pointer becomes an orphan's.
Disown ==
  \E s \in {x \in SlotsOf[class] : IsPointer(x) /\ x.kind # "text"} :
    /\ Writing(s) /\ Chosen(s.own) /\ ptrs[s.at + 1] # "null"
    /\ ptrs' = [ptrs EXCEPT ![s.at + 1] = "null"]
    /\ expected' = [expected EXCEPT ![s.path] = "null"]
    /\ UNCHANGED ones

\* _init of a group writes the discriminant and nothing else: what another member
\* of the union left in the group's fields stays there. "switch group" in Uses
\* lets the application choose a group over such leftovers.
Leftovers(s) ==
  LET members == {x \in SlotsOf[class] : Len(x.path) > Len(s.path)
                                           /\ SubSeq(x.path, 1, Len(s.path)) = s.path}
  IN \/ \E x \in members : ones \cap Bits(x) # {} \/ ones \cap UNION {TagBits(x.own[i].at) : i \in DOMAIN x.own} # {}
     \/ \E x \in members : IsPointer(x) /\ x.at < size.pointers /\ ptrs[x.at + 1] # "null"
InitGroup ==
  \E s \in {x \in SlotsOf[class] : x.kind = "group" /\ x.own # <<>>} :
    /\ Writing(s)
    /\ Chosen(s.own) \/ ~Leftovers(s) \/ "switch group" \in Uses
    /\ ones' = WithTag(s)
    /\ expected' = After(s, "void")
    /\ UNCHANGED ptrs

-----------------------------------------------------------------------------
(* The message: root pointer, data section, pointer section and what the       *)
(* pointers lead to, in a second segment behind landing pads if `split`.        *)

\* The struct: its sizes, bits and pointers.
Built == [size |-> size, ones |-> ones, ptrs |-> ptrs]

DataWords(m) ==
  [w \in 1..m.size.data |->
    [j \in 1..8 |-> Byte(LAMBDA i: 64 * (w - 1) + 8 * (j - 1) + i \in m.ones)]]
SizeBytes(n) == <<n % 256, n \div 256>>
StructSize(sz) == SizeBytes(sz.data) \o SizeBytes(sz.pointers)
RootWord(sz) == Uint32(0) \o StructSize(sz)
\* A struct of one word, and a text of 23 letters with its terminator.
Object(v) ==
  CASE v = "null" -> <<>>
    [] v = "empty" -> <<ZeroWord>>
    [] v = "contents" -> <<[j \in 1..8 |-> 99], [j \in 1..8 |-> 99],
                           [j \in 1..8 |-> IF j = 8 THEN 0 ELSE 99]>>
PointerTo(v, off) ==
  CASE v = "null" -> ZeroWord
    [] v = "empty" -> Uint32(4 * off) \o StructSize([data |-> 1, pointers |-> 0])
    [] v = "contents" -> Uint32(4 * off + 1) \o Uint32(8 * 24 + 2)
FarPointer(off) == Uint32(8 * off + 2) \o Uint32(1)
Pad(v) == IF v = "null" THEN <<>> ELSE <<PointerTo(v, 0)>>

\* The words before the object of pointer i.
Ahead(objects, i) == SumOf([k \in 1..(i - 1) |-> Len(objects[k])])
NearPointers(ptrs_, objects) ==
  [i \in DOMAIN ptrs_ |-> PointerTo(ptrs_[i], Len(ptrs_) - i + Ahead(objects, i))]
FarPointers(ptrs_, objects) ==
  [i \in DOMAIN ptrs_ |-> IF ptrs_[i] = "null" THEN ZeroWord ELSE FarPointer(Ahead(objects, i))]
SegmentsOf(m, split) ==
  LET objects == [i \in DOMAIN m.ptrs |-> Object(m.ptrs[i])]
      padded == [i \in DOMAIN m.ptrs |-> Pad(m.ptrs[i]) \o Object(m.ptrs[i])]
      root == <<RootWord(m.size)>> \o DataWords(m)
  IN IF split THEN <<root \o FarPointers(m.ptrs, padded), FlattenSeq(padded)>>
     ELSE <<root \o NearPointers(m.ptrs, objects) \o FlattenSeq(objects)>>

\* Reading it: followFars() and the kind and place of the object.
Followed(segments, seg, w) ==
  LET word == segments[seg][w]
  IN IF word[1] % 4 = 2
     THEN LET pad == [seg |-> Uint32At(word, 5) + 1, w |-> Uint32At(word, 1) \div 8 + 1]
          IN [word |-> segments[pad.seg][pad.w], seg |-> pad.seg, w |-> pad.w]
     ELSE [word |-> word, seg |-> seg, w |-> w]
PointerRead(segments, w) ==
  IF segments[1][w] = ZeroWord THEN "null"
  ELSE LET to == Followed(segments, 1, w)
           object == segments[to.seg][to.w + 1 + Uint32At(to.word, 1) \div 4]
       IN CASE to.word[1] % 4 = 0 /\ object = ZeroWord -> "empty"
            [] to.word[1] % 4 = 1 /\ object[1] # 0 -> "contents"
            [] OTHER -> "broken"
SizeRead(root) == [data |-> root[5] + 256 * root[6], pointers |-> root[7] + 256 * root[8]]
BitRead(words, b) == HasBit(words[b \div 64 + 2][(b % 64) \div 8 + 1], b % 8)
Decoded(segments) ==
  LET sz == SizeRead(segments[1][1])
  IN [size |-> sz,
      ones |-> {b \in 0..(64 * sz.data - 1) : BitRead(segments[1], b)},
      ptrs |-> [i \in 1..sz.pointers |-> PointerRead(segments, 1 + sz.data + i)]]

\* The sender packs the message, the receiver's is read-only.
Send ==
  /\ phase = "build" /\ phase' = "sent"
  /\ \E split \in BOOLEAN : \E segments \in {SegmentsOf(Built, split)} : wire' = PackedStream(segments)
  /\ size' = [data |-> 0, pointers |-> 0] /\ ones' = {} /\ ptrs' = <<>>
  /\ UNCHANGED <<class, expected, sets>>

Receive ==
  /\ phase = "sent" /\ phase' = "received"
  /\ wire' = <<>>
  /\ \E got \in {FramedSegments(Unpack(wire))} : \E m \in {Decoded(got)} :
       size' = m.size /\ ones' = m.ones /\ ptrs' = m.ptrs
  /\ UNCHANGED <<class, expected, sets>>

\* A writable copy: getRoot and getStruct resize a struct that is too small, which
\* copies its data section and its pointers.
Grown == [data |-> Max({size.data, Layouts[class].data}),
          pointers |-> Max({size.pointers, Layouts[class].pointers})]
CopiedPointers(n) == [i \in 1..n |-> IF i <= size.pointers THEN ptrs[i] ELSE "null"]
Grow ==
  /\ phase = "received" /\ phase' = "grown"
  /\ size' = Grown
  /\ ptrs' = CopiedPointers(Grown.pointers)
  /\ UNCHANGED <<class, ones, wire, expected, sets>>

Done == phase = "grown" /\ UNCHANGED vars

Next ==
  \/ SetNumber \/ SetVoid \/ SetPointer \/ InitPointer \/ GetPointer \/ Disown \/ InitGroup
  \/ Send \/ Receive \/ Grow \/ Done

Spec == Init /\ [][Next]_vars

-----------------------------------------------------------------------------
(* Every field an accessor can reach reads as the value it was last given, or  *)
(* as its default, before and after the message is packed, sent, read with a    *)
(* class of a newer schema and resized: no two fields of a generated class      *)
(* share bits or a pointer unless they are members of one union.                *)
ReadsAsWritten ==
  \A s \in SlotsOf[class] :
    phase # "sent" /\ expected[s.path] # "dead" /\ (phase # "build" \/ InBounds(s)) => Read(s) = expected[s.path]

(* A member of a union that was given up, however deep in its groups, is        *)
(* refused by its getter and not read out of the bytes another member has       *)
(* written.                                                                     *)
DeadMembersRefused ==
  \A s \in SlotsOf[class] : phase # "sent" /\ expected[s.path] = "dead" => Read(s) = "dead"

(* Unpacking what was packed, header and segments one by one, gives the words   *)
(* of the message, as many as getUnpackedByteLength() makes room for.           *)
PackingRoundTrip ==
  phase = "build" =>
    \A split \in BOOLEAN :
      LET words == Stream(SegmentsOf(Built, split))
          bytes == PackedStream(SegmentsOf(Built, split))
      IN Unpack(bytes) = words /\ UnpackedWords(bytes) = Len(words)
=============================================================================
