--------------------------- MODULE MessageBuilder ---------------------------
(***************************************************************************)
(* A message being built through the generated accessors: what they do to  *)
(* its words (pointers/pointer.utils.ts, struct.utils.ts, orphan.ts,       *)
(* list/list.ts), beside what they mean (Document).                        *)
(*                                                                         *)
(* A reference to an object is the address of its pointer and, for an      *)
(* element of a composite list, the index of the element: the list's       *)
(* pointer then stands for the element (Pointer._capnp.compositeIndex).    *)
(* References are made anew by each access, as the accessors do.           *)
(***************************************************************************)
EXTENDS Segments, Document

CONSTANTS Clients,      \* capabilities
          Values,       \* what data words are set to
          Made,         \* sizes of the structs that are made
          Opened,       \* sizes that structs are opened with: those of newer schemas
          Lists,        \* the lists that are made: kind, length and element size
          RootSize,     \* size of the root struct
          FirstWords,   \* size of the buffer the application gives an arena
          Arenas,       \* how messages are made
          MaxWords,     \* bound: words of a message
          MaxCaps,      \* bound: capability table
          MaxOrphans,   \* bound: orphans held
          MaxSteps,     \* bound: operations on a message
          Uses          \* what the application does besides the plain uses

ASSUME MessageBuilderAssumption ==
  /\ 0 \notin Values
  /\ FirstWords \in Nat \ {0}
  /\ Arenas \subseteq {"single", "multi", "buffered"}
  /\ Uses \subseteq {"assign elements", "copy own part", "bit lists", "dispose lists",
                     "move capabilities", "adopt composite lists", "grow far structs"}

VARIABLES mem,       \* the memory (Segments)
          orphans,   \* Orphan objects: a sequence
          steps      \* operations so far

vars == <<mem, orphans, steps, doc, held>>

None == -1
Ref(a, i) == [s |-> a.s, w |-> a.w, ci |-> i]
RootRef == Ref(Addr(0, 0), None)

-----------------------------------------------------------------------------
(* Objects. Object(m, p) is what the pointer at p leads to: its kind, where  *)
(* its content is, the length of a list, the size of a struct or of the      *)
(* elements of a composite list, the id of a capability (which is read from  *)
(* the pointer itself, far or not). An Orphan keeps just this.               *)

NoSize == [d |-> 0, p |-> 0]
Kind(word) ==
  CASE word.t = "struct" -> "struct" [] word.t = "list" -> word.e [] OTHER -> "cap"
SizeFor(m, p, k) ==
  CASE k = "struct" -> SizeOf(Target(m, p)) [] k = "comp" -> SizeOf(Tag(m, p)) [] OTHER -> NoSize
LengthFor(m, p, k) == IF k \in {"struct", "cap"} THEN 0 ELSE Length(m, p)
ObjectAt(m, p, k) ==
  [k |-> k, at |-> Content(m, p), len |-> LengthFor(m, p, k), size |-> SizeFor(m, p, k),
   id |-> IF k = "cap" THEN Word(m, p).id ELSE None]
Object(m, p) == ObjectAt(m, p, Kind(Target(m, p)))

ListWords(e, len, size) ==
  CASE e = "comp" -> 1 + len * WordLength(size)
    [] e \in {"void", "cap"} -> 0
    [] e = "bit" -> IF len = 0 THEN 0 ELSE 1
    [] OTHER -> len
WordsOf(o) == IF o.k = "struct" THEN WordLength(o.size) ELSE ListWords(o.k, o.len, o.size)
FirstOf(o) == IF o.k = "comp" THEN Plus(o.at, -1) ELSE o.at
ListWordOf(o) ==
  ListWord(0, o.k, IF o.k = "comp" THEN o.len * WordLength(o.size) ELSE o.len)

\* The structs of a composite list, and the pointers in an object.
Element(o, i) == [o EXCEPT !.k = "struct", !.len = 0, !.at = Plus(@, (i - 1) * WordLength(o.size))]
StructPointers(o) == [i \in 1 .. o.size.p |-> Plus(o.at, o.size.d + i - 1)]
PointersIn(o) ==
  CASE o.k = "struct" -> StructPointers(o)
    [] o.k = "ptr" -> [i \in 1 .. o.len |-> Plus(o.at, i - 1)]
    [] o.k = "comp" -> FlattenSeq([i \in 1 .. o.len |-> StructPointers(Element(o, i))])
    [] OTHER -> <<>>

\* The object that a reference stands for, and the reference to its child.
Named(m, r) == IF r.ci = None THEN Object(m, r) ELSE Element(Object(m, r), r.ci + 1)
Child(o, r, i) ==
  CASE o.k = "comp" -> Ref(r, i - 1)
    [] o.k = "ptr" -> Ref(Plus(o.at, i - 1), None)
    [] OTHER -> Ref(Plus(o.at, o.size.d + i - 1), None)
RefTo(m, path) == FoldLeft(LAMBDA r, i : Child(Named(m, r), r, i), RootRef, path)

-----------------------------------------------------------------------------
(* Erasing and copying.                                                      *)

RECURSIVE Erase(_, _), EraseAll(_, _), CopyFrom(_, _, _), CopyAll(_, _, _)

\* The contents of a list of bits stay: their length in bytes is not a number.
Wipe(m, o) ==
  CASE o.k = "struct" -> Fill(m, o.at, o.size.d)
    [] o.k \in {"comp", "word"} -> Fill(m, FirstOf(o), WordsOf(o))
    [] OTHER -> m
EraseObject(m, o) == Wipe(EraseAll(m, PointersIn(o)), o)
EraseAll(m, ps) == IF ps = <<>> THEN m ELSE EraseAll(Erase(m, Head(ps)), Tail(ps))
Erase(m, p) ==
  IF Word(m, p) = Zero THEN m ELSE ErasePointer(EraseObject(m, Object(m, p)), p)

\* A new entry in the capability table of the message.
AddCap(m, client) == [m EXCEPT !.caps = Append(@, client)]
CopyCap(m, o, dst) ==
  IF o.id + 1 \notin DOMAIN m.caps THEN m
  ELSE Put(AddCap(m, m.caps[o.id + 1]), dst, CapWord(0, Len(m.caps)))

\* Pointers are copied one by one, into words cleared before.
CopyAll(m, srcs, dsts) ==
  IF srcs = <<>> THEN m
  ELSE CopyAll(CopyFrom(Put(m, Head(dsts), Zero), Head(srcs), Ref(Head(dsts), None)),
               Tail(srcs), Tail(dsts))
CopyPointers(m, o, new) == CopyAll(m, PointersIn(o), PointersIn(new))

\* An element of a composite list keeps its place, so its copy is not linked.
LinkStruct(m, new, dst) == IF dst.ci # None THEN m ELSE PointStruct(m, new.at, dst, new.size)
StructCopied(a, o, new, dst) ==
  LinkStruct(CopyPointers(CopyWords(a.m, a.at, o.at, o.size.d), o, new), new, dst)
ListCopied(a, o, new, dst) ==
  Write(Point(CopyPointers(IF o.k = "ptr" THEN a.m ELSE CopyWords(a.m, a.at, FirstOf(o), WordsOf(o)),
                           o, new), a.at, dst),
        ListWordOf(o))
CopyObject(m, o, dst) ==
  LET a == Allocate(m, dst.s, WordsOf(o))
  IN CASE o.k = "struct" -> StructCopied(a, o, [o EXCEPT !.at = a.at], dst)
       [] o.k = "comp" -> ListCopied(a, o, [o EXCEPT !.at = Plus(a.at, 1)], dst)
       [] o.k = "cap" -> CopyCap(m, o, dst)
       [] OTHER -> ListCopied(a, o, [o EXCEPT !.at = a.at], dst)

CopyInto(m, src, dst) ==
  IF Word(m, src) = Zero THEN m
  ELSE CopyObject(m, Object(m, src), dst)
CopyFrom(m, src, dst) ==
  IF src.s = dst.s /\ src.w = dst.w THEN m ELSE CopyInto(Erase(m, dst), src, dst)

-----------------------------------------------------------------------------
(* Moving an object: the pointer word is written again with a new offset.    *)

Repoint(m, src, dst) ==
  IF Word(m, src) = Zero THEN m ELSE Write(Point(m, ObjectStart(m, src), dst), Target(m, src))

Min2(x, y) == IF x < y THEN x ELSE y

\* resize: the object o of p moves to a, as `new`; its old words become zero.
RepointAll(m, srcs, dsts) ==
  FoldLeft(LAMBDA y, i : Repoint(y, srcs[i], dsts[i]), m,
           [i \in 1 .. Min2(Len(srcs), Len(dsts)) |-> i])
\* Mutant: the old words stay.
MovedKept(a, p, o, new) ==
  RepointAll(PointStruct(CopyWords(a.m, a.at, o.at, Min2(o.size.d, new.size.d)), a.at, p, new.size),
             PointersIn(o), PointersIn(new))
Moved(a, p, o, new) ==
  Fill(RepointAll(PointStruct(CopyWords(a.m, a.at, o.at, Min2(o.size.d, new.size.d)),
                              a.at, p, new.size),
                  PointersIn(o), PointersIn(new)),
       o.at, WordsOf(o))
MovedTo(a, p, o, size) == Moved(a, p, o, [o EXCEPT !.at = a.at, !.size = size])
Resize(m, p, size) == MovedTo(Allocate(m, p.s, WordLength(size)), p, Object(m, p), size)

-----------------------------------------------------------------------------
(* Orphans.                                                                  *)

IsList(o) == o.k \notin {"struct", "cap"}

\* Mutant: the tag word of a composite list is not skipped.
AdoptedUntagged(r, o) ==
  CASE o.k = "struct" -> Write(r, StructWord(0, o.size))
    [] o.k = "cap" -> Put(r.m, r.at, CapWord(0, o.id))
    [] OTHER -> Write(r, ListWordOf(o))
Adopted(r, o) ==
  CASE o.k = "struct" -> Write(r, StructWord(0, o.size))
    [] o.k = "comp" -> Write([r EXCEPT !.off = @ - 1], ListWordOf(o))
    [] o.k = "cap" -> Put(r.m, r.at, CapWord(0, o.id))
    [] OTHER -> Write(r, ListWordOf(o))
AdoptInto(m, o, p) == Adopted(Point(Erase(m, p), o.at, p), o)

\* A list's length in bytes is taken for a number of words; it throws, and the
\* orphan stays, when that leaves the buffer. What a list points to stays.
ListBytes(o) == 8 * (WordsOf(o) - IF o.k = "comp" THEN 1 ELSE 0)
CanDispose(m, o) == IsList(o) => o.at.w + ListBytes(o) <= m.segs[o.at.s + 1].cap
DisposeOf(m, o) ==
  CASE o.k = "struct" -> Fill(EraseAll(m, PointersIn(o)), o.at, WordsOf(o))
    [] IsList(o) -> Fill(m, o.at, ListBytes(o))
    [] OTHER -> m

-----------------------------------------------------------------------------
(* Reading the words back as a document. `depth` stands for the depth limit. *)

BadNode == Node("bad", <<>>, <<>>)
Data(word) == IF word = Zero THEN 0 ELSE IF word.t = "data" THEN word.v ELSE -1
DataFrom(m, c, n) == [i \in 1 .. n |-> Data(Word(m, Plus(c, i - 1)))]

RECURSIVE Read(_, _, _), ReadObject(_, _, _)
ReadAll(m, ps, depth) == [i \in DOMAIN ps |-> Read(m, ps[i], depth - 1)]
ReadObject(m, o, depth) ==
  CASE o.k = "struct" -> Node("struct", DataFrom(m, o.at, o.size.d), ReadAll(m, PointersIn(o), depth))
    [] o.k = "cap" -> IF o.id + 1 \in DOMAIN m.caps THEN CapNode(m.caps[o.id + 1]) ELSE NullNode
    [] o.k = "comp" -> Node("comp", <<o.size.d, o.size.p>>,
                            [i \in 1 .. o.len |-> ReadObject(m, Element(o, i), depth - 1)])
    [] o.k = "ptr" -> Node("ptr", <<>>, ReadAll(m, PointersIn(o), depth))
    [] o.k = "void" -> Node("void", [i \in 1 .. o.len |-> 0], <<>>)
    [] OTHER -> Node(o.k, DataFrom(m, o.at, o.len), <<>>)

Readable(m, p) ==
  /\ IsFar(m, p) => Allocated(m, FollowFar(m, p))
  /\ IsDoubleFar(m, p) => Word(m, FollowFar(m, p)).t = "far"
  /\ Target(m, p).t \in {"struct", "list", "other"}
  /\ IsComposite(m, p) => /\ Tag(m, p).t = "struct"
                          /\ Target(m, p).len = Tag(m, p).off * WordLength(SizeOf(Tag(m, p)))
Read(m, p, depth) ==
  CASE Word(m, p) = Zero -> NullNode
    [] Word(m, p) = NoWord \/ depth = 0 -> BadNode
    [] OTHER -> IF Readable(m, p) THEN ReadObject(m, Object(m, p), depth) ELSE BadNode

MaxDepth == MaxWords

-----------------------------------------------------------------------------
(* The accessors.                                                            *)

Used(m) == FoldLeft(LAMBDA n, seg : n + Len(seg.words), 0, m.segs)
Fits(m) == Used(m) <= MaxWords /\ Len(m.caps) <= MaxCaps

\* A segment over a buffer of the application is full from the start.
NewMessage(kind) ==
  [single |-> kind = "single", caps |-> <<>>,
   segs |-> << IF kind = "buffered" THEN [words |-> Zeros(FirstWords), cap |-> FirstWords]
               ELSE [words |-> Zeros(1), cap |-> DefaultWords] >>]
StructMade(a, p, size) == PointStruct(a.m, a.at, p, size)
InitStruct(m, p, size) == StructMade(Allocate(Erase(m, p), p.s, WordLength(size)), p, size)
ListMade(a, p, o) ==
  Write(Point(IF o.k = "comp" THEN Put(a.m, a.at, StructWord(o.len, o.size)) ELSE a.m, a.at, p),
        ListWordOf(o))
InitList(m, p, o) ==
  IF o.k = "void" THEN Put(Erase(m, p), p, ListWordOf(o))
  ELSE ListMade(Allocate(Erase(m, p), p.s, WordsOf(o)), p, o)

Init ==
  /\ \E kind \in Arenas : mem = InitStruct(NewMessage(kind), RootRef, RootSize)
  /\ orphans = <<>>
  /\ steps = 0
  /\ doc = EmptyStruct(RootSize)
  /\ held = <<>>

To(m) ==
  /\ steps < MaxSteps
  /\ mem' = m /\ Fits(m)
  /\ steps' = steps + 1
At2(path) == RefTo(mem, path)

InitStructAt(path, size) ==
  /\ To(InitStruct(mem, At2(path), size))
  /\ Set(path, EmptyStruct(size))
  /\ UNCHANGED orphans

InitListAt(path, list) ==
  /\ list.k = "bit" => "bit lists" \in Uses
  /\ To(InitList(mem, At2(path), list))
  /\ Set(path, EmptyList(list.k, list.len, list.size))
  /\ UNCHANGED orphans

WriteData(path, i, v) ==
  /\ i \in DOMAIN At(doc, path).data
  /\ At(doc, path).k \in {"struct", "word", "bit"}
  /\ To(Put(mem, Plus(Named(mem, At2(path)).at, i - 1), DataWord(v)))
  /\ SetData(path, i, v)
  /\ UNCHANGED orphans

SetInterface(path, client) ==
  /\ At(doc, path).k \in {"null", "cap"}
  /\ To(Put(AddCap(mem, client), At2(path), CapWord(0, Len(mem.caps))))
  /\ Set(path, CapNode(client))
  /\ UNCHANGED orphans

\* A setter for a pointer field, or List.set. Of a list of structs only the first
\* element is set: for another, the word before it would be taken for the tag.
CopyTo(src, dst) ==
  /\ src # dst
  /\ IsPrefix(dst, src) => "copy own part" \in Uses
  /\ IsElement(dst) => /\ "assign elements" \in Uses /\ Last(dst) = 1
                       /\ At(doc, src).k = "struct"
                       /\ Named(mem, At2(src)).size = Named(mem, At2(dst)).size
  /\ To(CopyFrom(mem, At2(src), At2(dst)))
  /\ Copy(src, dst)
  /\ UNCHANGED orphans

\* Mutant: the pointer is not erased.
DisownKept(path) ==
  /\ At(doc, path) # NullNode
  /\ Len(orphans) < MaxOrphans
  /\ orphans' = Append(orphans, Object(mem, At2(path)))
  /\ To(mem)
  /\ TakeOut(path)
Disown(path) ==
  /\ At(doc, path) # NullNode
  /\ Len(orphans) < MaxOrphans
  /\ orphans' = Append(orphans, Object(mem, At2(path)))
  /\ To(ErasePointer(mem, At2(path)))
  /\ TakeOut(path)

\* Whether a pointer at p to an object in segment id must be far, or double far.
NeedsFar(p, id) == p.s # id
NeedsDoubleFar(p, id) == NeedsFar(p, id) /\ ~ HasCapacity(mem, id, 1)

Adopt(i, path) ==
  LET o == orphans[i]
  IN /\ o.k = "cap" /\ NeedsFar(At2(path), o.at.s) => "move capabilities" \in Uses
     /\ o.k = "comp" /\ NeedsDoubleFar(At2(path), o.at.s) => "adopt composite lists" \in Uses
     /\ To(AdoptInto(mem, o, At2(path)))
     /\ orphans' = RemoveAt(orphans, i)
     /\ PutIn(i, path)

Dispose(i) ==
  /\ IsList(orphans[i]) => "dispose lists" \in Uses
  /\ CanDispose(mem, orphans[i])
  /\ To(DisposeOf(mem, orphans[i]))
  /\ orphans' = RemoveAt(orphans, i)
  /\ Drop(i)

\* Whether p, or a pointer in the struct it leads to, is far.
FarAround(p) ==
  IsFar(mem, p) \/ \E a \in ToSet(PointersIn(Object(mem, p))) : IsFar(mem, a)
\* Whether a capability pointer of the struct moves out of its segment.
CapMoves(path, id) ==
  /\ id # Object(mem, At2(path)).at.s
  /\ \E i \in DOMAIN At(doc, path).kids : At(doc, path).kids[i].k = "cap"

\* getStruct and getRoot of a class whose structs are larger than this one.
OpenStruct(path, size) ==
  /\ At(doc, path).k = "struct"
  /\ LET old == Object(mem, At2(path)).size IN old.d < size.d \/ old.p < size.p
  /\ CapMoves(path, RoomFor(mem, At2(path).s, WordLength(size)).id) =>
       "move capabilities" \in Uses
  /\ FarAround(At2(path)) => "grow far structs" \in Uses
  /\ To(Resize(mem, At2(path), size))
  /\ Set(path, Resized(At(doc, path), size))
  /\ UNCHANGED orphans

Next ==
  \/ \E path \in Pointers, size \in Made : InitStructAt(path, size)
  \/ \E path \in Pointers, list \in Lists : InitListAt(path, list)
  \/ \E path \in Places(doc), v \in Values :
       \E i \in DOMAIN At(doc, path).data : WriteData(path, i, v)
  \/ \E path \in Pointers, client \in Clients : SetInterface(path, client)
  \/ \E src \in Pointers \cup {<<>>}, dst \in Places(doc) \ {<<>>} : CopyTo(src, dst)
  \/ \E path \in Pointers : Disown(path)
  \/ \E i \in DOMAIN orphans, path \in Pointers : Adopt(i, path)
  \/ \E i \in DOMAIN orphans : Dispose(i)
  \/ \E path \in Pointers \cup {<<>>}, size \in Opened : OpenStruct(path, size)

Spec == Init /\ [][Next]_vars

-----------------------------------------------------------------------------
(* Properties.                                                               *)

\* Reading the message gives back the document that was built, and each
\* orphan is what was taken out.
MessageIsDocument ==
  /\ Read(mem, RootRef, MaxDepth) = doc
  /\ [i \in DOMAIN orphans |-> ReadObject(mem, orphans[i], MaxDepth)] = held

\* The words of an object and of what it points to, landing pads included.
Pads(m, p) ==
  IF ~ IsFar(m, p) THEN <<>>
  ELSE IF IsDoubleFar(m, p) THEN <<FollowFar(m, p), Plus(FollowFar(m, p), 1)>>
  ELSE <<FollowFar(m, p)>>
RECURSIVE OwnedBy(_, _)
OwnedByAll(m, ps) == FlattenSeq([i \in DOMAIN ps |-> OwnedBy(m, ps[i])])
OwnedByObject(m, o) ==
  [i \in 1 .. WordsOf(o) |-> Plus(FirstOf(o), i - 1)] \o OwnedByAll(m, PointersIn(o))
OwnedBy(m, p) ==
  IF Word(m, p) = Zero THEN <<>> ELSE Pads(m, p) \o OwnedByObject(m, Object(m, p))
Owned ==
  <<Addr(0, 0)>> \o OwnedBy(mem, Addr(0, 0)) \o
  FlattenSeq([i \in DOMAIN orphans |-> OwnedByObject(mem, orphans[i])])

\* No word belongs to two objects or landing pads, and all of them are allocated.
NoSharedWords ==
  LET owned == Owned
  IN Cardinality(ToSet(owned)) = Len(owned) /\ \A a \in ToSet(owned) : Allocated(mem, a)

\* A word that belongs to nothing is zero.
HolesAreZero ==
  LET owned == ToSet(Owned)
  IN \A id \in 0 .. Len(mem.segs) - 1 : \A w \in 0 .. Len(mem.segs[id + 1].words) - 1 :
       Word(mem, Addr(id, w)) # Zero => Addr(id, w) \in owned
=============================================================================
