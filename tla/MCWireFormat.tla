---------------------------- MODULE MCWireFormat ----------------------------
(* Every generated class of the repository. *)
EXTENDS WireFormat, RpcSchema, MetaSchema

Structs == RpcLayouts @@ MetaLayouts
MCLayouts == [c \in DOMAIN Structs |-> Layout(Structs[c])]
=============================================================================
