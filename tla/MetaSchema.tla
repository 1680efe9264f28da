------------------------------ MODULE MetaSchema ------------------------------
(***************************************************************************)
(* The generated classes of src/capnp/schema.ts, as in RpcSchema. A struct  *)
(* for a group has the section sizes of the struct it is a group of.        *)
(***************************************************************************)
EXTENDS StructLayout

-----------------------------------------------------------------------------
(* schema.capnp: the schema the compiler plugin reads.                    *)

Node_Parameter == Struct(0, 1, NoUnion, {
  Text("name", 0)})

Node_NestedNode == Struct(1, 1, NoUnion, {
  Text("name", 0), Number("id", 0, 8)})

Node_SourceInfo_Member == Struct(0, 1, NoUnion, {
  Text("docComment", 0)})

Node_SourceInfo == Struct(1, 2, NoUnion, {
  Number("id", 0, 8), Text("docComment", 0), List("members", 1)})

Node_Struct == Struct(5, 6, NoUnion, {
  Number("dataWordCount", 14, 2), Number("pointerCount", 24, 2),
  Number("preferredListEncoding", 26, 2), Bit("isGroup", 224),
  Number("discriminantCount", 30, 2), Number("discriminantOffset", 32, 4),
  List("fields", 3)})

Node_Enum == Struct(5, 6, NoUnion, {
  List("enumerants", 3)})

Node_Interface == Struct(5, 6, NoUnion, {
  List("methods", 3), List("superclasses", 4)})

Node_Const == Struct(5, 6, NoUnion, {
  StructAt("type", 3), StructAt("value", 4)})

Node_Annotation == Struct(5, 6, NoUnion, {
  StructAt("type", 3), Bit("targetsFile", 112), Bit("targetsConst", 113),
  Bit("targetsEnum", 114), Bit("targetsEnumerant", 115),
  Bit("targetsStruct", 116), Bit("targetsField", 117),
  Bit("targetsUnion", 118), Bit("targetsGroup", 119),
  Bit("targetsInterface", 120), Bit("targetsMethod", 121),
  Bit("targetsParam", 122), Bit("targetsAnnotation", 123)})

Node == Struct(5, 6, 12, {
  Number("id", 0, 8), Text("displayName", 0),
  Number("displayNamePrefixLength", 8, 4), Number("scopeId", 16, 8),
  List("parameters", 5), Bit("isGeneric", 288), List("nestedNodes", 1),
  List("annotations", 2), Case(0, Void("file")),
  Case(1, Group("struct", Node_Struct)), Case(2, Group("enum", Node_Enum)),
  Case(3, Group("interface", Node_Interface)),
  Case(4, Group("const", Node_Const)),
  Case(5, Group("annotation", Node_Annotation))})

Field_Slot == Struct(3, 4, NoUnion, {
  Number("offset", 4, 4), StructAt("type", 2), StructAt("defaultValue", 3),
  Bit("hadExplicitDefault", 128)})

Field_Group == Struct(3, 4, NoUnion, {
  Number("typeId", 16, 8)})

Field_Ordinal == Struct(3, 4, 10, {
  Case(0, Void("implicit")), Case(1, Number("explicit", 12, 2))})

Field == Struct(3, 4, 8, {
  Text("name", 0), Number("codeOrder", 0, 2), List("annotations", 1),
  DefaultOnes(Number("discriminantValue", 2, 2)),
  Case(0, Group("slot", Field_Slot)), Case(1, Group("group", Field_Group)),
  Group("ordinal", Field_Ordinal)})

Enumerant == Struct(1, 2, NoUnion, {
  Text("name", 0), Number("codeOrder", 0, 2), List("annotations", 1)})

Superclass == Struct(1, 1, NoUnion, {
  Number("id", 0, 8), StructAt("brand", 0)})

Method == Struct(3, 5, NoUnion, {
  Text("name", 0), Number("codeOrder", 0, 2), List("implicitParameters", 4),
  Number("paramStructType", 8, 8), StructAt("paramBrand", 2),
  Number("resultStructType", 16, 8), StructAt("resultBrand", 3),
  List("annotations", 1)})

Type_List == Struct(3, 1, NoUnion, {
  StructAt("elementType", 0)})

Type_Enum == Struct(3, 1, NoUnion, {
  Number("typeId", 8, 8), StructAt("brand", 0)})

Type_Struct == Struct(3, 1, NoUnion, {
  Number("typeId", 8, 8), StructAt("brand", 0)})

Type_Interface == Struct(3, 1, NoUnion, {
  Number("typeId", 8, 8), StructAt("brand", 0)})

Type_AnyPointer_Unconstrained == Struct(3, 1, 10, {
  Case(0, Void("anyKind")), Case(1, Void("struct")), Case(2, Void("list")),
  Case(3, Void("capability"))})

Type_AnyPointer_Parameter == Struct(3, 1, NoUnion, {
  Number("scopeId", 16, 8), Number("parameterIndex", 10, 2)})

Type_AnyPointer_ImplicitMethodParameter == Struct(3, 1, NoUnion, {
  Number("parameterIndex", 10, 2)})

Type_AnyPointer == Struct(3, 1, 8, {
  Case(0, Group("unconstrained", Type_AnyPointer_Unconstrained)),
  Case(1, Group("parameter", Type_AnyPointer_Parameter)),
  Case(2, Group("implicitMethodParameter", Type_AnyPointer_ImplicitMethodParameter))})

Type == Struct(3, 1, 0, {
  Case(0, Void("void")), Case(1, Void("bool")), Case(2, Void("int8")),
  Case(3, Void("int16")), Case(4, Void("int32")), Case(5, Void("int64")),
  Case(6, Void("uint8")), Case(7, Void("uint16")), Case(8, Void("uint32")),
  Case(9, Void("uint64")), Case(10, Void("float32")),
  Case(11, Void("float64")), Case(12, Void("text")), Case(13, Void("data")),
  Case(14, Group("list", Type_List)), Case(15, Group("enum", Type_Enum)),
  Case(16, Group("struct", Type_Struct)),
  Case(17, Group("interface", Type_Interface)),
  Case(18, Group("anyPointer", Type_AnyPointer))})

Brand_Scope == Struct(2, 1, 8, {
  Number("scopeId", 0, 8), Case(0, List("bind", 0)), Case(1, Void("inherit"))})

Brand_Binding == Struct(1, 1, 0, {
  Case(0, Void("unbound")), Case(1, StructAt("type", 0))})

Brand == Struct(0, 1, NoUnion, {
  List("scopes", 0)})

Value == Struct(2, 1, 0, {
  Case(0, Void("void")), Case(1, Bit("bool", 16)),
  Case(2, Number("int8", 2, 1)), Case(3, Number("int16", 2, 2)),
  Case(4, Number("int32", 4, 4)), Case(5, Number("int64", 8, 8)),
  Case(6, Number("uint8", 2, 1)), Case(7, Number("uint16", 2, 2)),
  Case(8, Number("uint32", 4, 4)), Case(9, Number("uint64", 8, 8)),
  Case(10, Number("float32", 4, 4)), Case(11, Number("float64", 8, 8)),
  Case(12, Text("text", 0)), Case(13, Data("data", 0)),
  Case(14, AnyPointer("list", 0)), Case(15, Number("enum", 2, 2)),
  Case(16, AnyPointer("struct", 0)), Case(17, Void("interface")),
  Case(18, AnyPointer("anyPointer", 0))})

Annotation == Struct(1, 2, NoUnion, {
  Number("id", 0, 8), StructAt("brand", 1), StructAt("value", 0)})

CapnpVersion == Struct(1, 0, NoUnion, {
  Number("major", 0, 2), Number("minor", 2, 1), Number("micro", 3, 1)})

CodeGeneratorRequest_RequestedFile_Import == Struct(1, 1, NoUnion, {
  Number("id", 0, 8), Text("name", 0)})

CodeGeneratorRequest_RequestedFile == Struct(1, 2, NoUnion, {
  Number("id", 0, 8), Text("filename", 0), List("imports", 1)})

CodeGeneratorRequest == Struct(0, 4, NoUnion, {
  StructAt("capnpVersion", 2), List("nodes", 0), List("sourceInfo", 3),
  List("requestedFiles", 1)})

\* The classes that are not a group of another.
MetaLayouts == [Node_Parameter |-> Node_Parameter,
  Node_NestedNode |-> Node_NestedNode,
  Node_SourceInfo_Member |-> Node_SourceInfo_Member,
  Node_SourceInfo |-> Node_SourceInfo, Node |-> Node, Field |-> Field,
  Enumerant |-> Enumerant, Superclass |-> Superclass, Method |-> Method,
  Type |-> Type, Brand_Scope |-> Brand_Scope, Brand_Binding |-> Brand_Binding,
  Brand |-> Brand, Value |-> Value, Annotation |-> Annotation,
  CapnpVersion |-> CapnpVersion,
  CodeGeneratorRequest_RequestedFile_Import |-> CodeGeneratorRequest_RequestedFile_Import,
  CodeGeneratorRequest_RequestedFile |-> CodeGeneratorRequest_RequestedFile,
  CodeGeneratorRequest |-> CodeGeneratorRequest]
=============================================================================
