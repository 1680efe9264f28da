-------------------------- MODULE MCMessageBuilder --------------------------
(* MessageBuilder on structs with one pointer, opened by a newer schema with *)
(* two, and on a list of words, one of pointers and one of structs.          *)
EXTENDS MessageBuilder

OldSize == [d |-> 1, p |-> 1]
NewSize == [d |-> 1, p |-> 2]
MCMade == {OldSize}
MCOpened == {NewSize}
MCLists ==
  {[k |-> "word", len |-> 1, size |-> NoSize], [k |-> "ptr", len |-> 1, size |-> NoSize],
   [k |-> "comp", len |-> 2, size |-> OldSize]}
=============================================================================
