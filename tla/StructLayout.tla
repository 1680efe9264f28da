---------------------------- MODULE StructLayout ----------------------------
(***************************************************************************)
(* What the code generator knows of a struct class: the sizes of its two   *)
(* sections, where its union's discriminant is, and for each field which   *)
(* accessor its getter and setter call, with which offset                  *)
(* (src/compiler/generators/struct.ts). Offsets are those the generated    *)
(* accessors are written with: bytes, bits for booleans, pointer indexes.  *)
(***************************************************************************)
EXTENDS Integers, Sequences

NoTag == -1
NoUnion == -1
ZeroMask == FALSE
OnesMask == TRUE

\* `which` is the byte offset of the discriminant; the data section has `data`
\* words and the pointer section `pointers`.
Struct(data, pointers, which, fields) ==
  [data |-> data, pointers |-> pointers, which |-> which, fields |-> fields]

Nothing == Struct(0, 0, NoUnion, {})

Field_(name, kind, at, width, layout) ==
  [name |-> name, kind |-> kind, at |-> at, width |-> width, layout |-> layout,
   tag |-> NoTag, mask |-> ZeroMask]

Void(name) == Field_(name, "void", 0, 0, Nothing)
Bit(name, bit) == Field_(name, "number", bit, 1, Nothing)
Number(name, byte, bytes) == Field_(name, "number", 8 * byte, 8 * bytes, Nothing)
Text(name, index) == Field_(name, "text", index, 0, Nothing)
Data(name, index) == Field_(name, "data", index, 0, Nothing)
List(name, index) == Field_(name, "list", index, 0, Nothing)
StructAt(name, index) == Field_(name, "struct", index, 0, Nothing)
AnyPointer(name, index) == Field_(name, "any", index, 0, Nothing)
Group(name, layout) == Field_(name, "group", 0, 0, layout)

\* A member of the struct's union, chosen by this value of the discriminant.
Case(tag, field) == [field EXCEPT !.tag = tag]
\* A default value with every bit set: it is written as zeros.
DefaultOnes(field) == [field EXCEPT !.mask = OnesMask]

-----------------------------------------------------------------------------
(* A slot is one accessor pair reachable from the struct, its groups' members *)
(* included. `outer` are the union members its enclosing groups must be,      *)
(* `own` the one it is itself. Generated setters write `own`, generated       *)
(* getters test it, and getting a group on the way tests `outer`.             *)

RECURSIVE SlotsIn(_, _, _)
SlotsIn(layout, path, outer) ==
  UNION {
    LET own == IF f.tag = NoTag THEN <<>>
               ELSE <<[union |-> path, at |-> layout.which, tag |-> f.tag]>>
        slot == [path |-> Append(path, f.name), kind |-> f.kind, at |-> f.at,
                 width |-> f.width, mask |-> f.mask, outer |-> outer, own |-> own]
    IN {slot} \cup SlotsIn(f.layout, slot.path, outer \o own)
    : f \in layout.fields}

\* What WireFormat has to know of a class.
Layout(struct) ==
  [data |-> struct.data, pointers |-> struct.pointers, slots |-> SlotsIn(struct, <<>>, <<>>)]
=============================================================================
