------------------------------ MODULE Document ------------------------------
(***************************************************************************)
(* What a message is to the code that builds it: a tree of structs, lists, *)
(* capabilities and null pointers under the root pointer, and the orphans  *)
(* that were taken out of it. Each accessor of the library changes one     *)
(* place of the tree; segments, offsets and far pointers do not exist here.*)
(*                                                                         *)
(* A node has a kind, its data words (the size of the elements for a       *)
(* composite list, the client for a capability) and its children. A place  *)
(* is the path of child indices that leads to it from the root.            *)
(***************************************************************************)
EXTENDS Integers, Sequences, SequencesExt

VARIABLES doc,     \* the tree
          held     \* the orphans the application holds: a sequence of trees

Node(k, data, kids) == [k |-> k, data |-> data, kids |-> kids]
NullNode == Node("null", <<>>, <<>>)
CapNode(client) == Node("cap", <<client>>, <<>>)
EmptyStruct(size) ==
  Node("struct", [i \in 1 .. size.d |-> 0], [i \in 1 .. size.p |-> NullNode])
EmptyList(e, len, size) ==
  CASE e = "ptr" -> Node(e, <<>>, [i \in 1 .. len |-> NullNode])
    [] e = "comp" -> Node(e, <<size.d, size.p>>, [i \in 1 .. len |-> EmptyStruct(size)])
    [] OTHER -> Node(e, [i \in 1 .. len |-> 0], <<>>)

RECURSIVE At(_, _), Replaced(_, _, _), Places(_)
At(node, path) ==
  IF path = <<>> THEN node
  ELSE IF Head(path) \notin DOMAIN node.kids THEN NullNode
  ELSE At(node.kids[Head(path)], Tail(path))
Replaced(node, path, v) ==
  IF path = <<>> THEN v
  ELSE [node EXCEPT !.kids[Head(path)] = Replaced(@, Tail(path), v)]
Places(node) ==
  {<<>>} \cup UNION {{<<i>> \o q : q \in Places(node.kids[i])} : i \in DOMAIN node.kids}

\* The pointers of the tree; the elements of a composite list are not pointers.
IsElement(path) == path # <<>> /\ At(doc, Front(path)).k = "comp"
Pointers == {path \in Places(doc) \ {<<>>} : ~ IsElement(path)}
Structs == {path \in Places(doc) : At(doc, path).k = "struct"}

\* data and pointers cut or filled up to a new size: a newer version of a schema.
Resized(node, size) ==
  Node("struct",
       [i \in 1 .. size.d |-> IF i \in DOMAIN node.data THEN node.data[i] ELSE 0],
       [i \in 1 .. size.p |-> IF i \in DOMAIN node.kids THEN node.kids[i] ELSE NullNode])

-----------------------------------------------------------------------------
(* Operations.                                                               *)

Set(path, v) == doc' = Replaced(doc, path, v) /\ UNCHANGED held

SetData(path, i, v) == Set(path, [At(doc, path) EXCEPT !.data[i] = v])

\* dst is cleared first: a copy of what contains dst does not contain itself.
\* What dst contains is copied as it was before.
Copy(src, dst) ==
  Set(dst, IF IsPrefix(dst, src) THEN At(doc, src)
           ELSE At(Replaced(doc, dst, NullNode), src))

TakeOut(path) ==
  /\ held' = Append(held, At(doc, path))
  /\ doc' = Replaced(doc, path, NullNode)

PutIn(i, path) ==
  /\ doc' = Replaced(doc, path, held[i])
  /\ held' = RemoveAt(held, i)

Drop(i) == held' = RemoveAt(held, i) /\ UNCHANGED doc
=============================================================================
