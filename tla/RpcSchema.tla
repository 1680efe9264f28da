------------------------------ MODULE RpcSchema ------------------------------
(***************************************************************************)
(* The generated classes of src/capnp/rpc.ts, rpc-twoparty.ts and          *)
(* persistent.ts. A class is the accessors of its fields, which differ from *)
(* field to field only in the offsets and tags below; what an accessor does *)
(* with them is in WireFormat.                                              *)
(***************************************************************************)
EXTENDS StructLayout

-----------------------------------------------------------------------------
(* rpc.capnp: the messages of the RPC protocol.                           *)

Message == Struct(1, 1, 0, {
  Case(0, StructAt("unimplemented", 0)), Case(1, StructAt("abort", 0)),
  Case(8, StructAt("bootstrap", 0)), Case(2, StructAt("call", 0)),
  Case(3, StructAt("return", 0)), Case(4, StructAt("finish", 0)),
  Case(5, StructAt("resolve", 0)), Case(6, StructAt("release", 0)),
  Case(13, StructAt("disembargo", 0)), Case(7, AnyPointer("obsoleteSave", 0)),
  Case(9, AnyPointer("obsoleteDelete", 0)), Case(10, StructAt("provide", 0)),
  Case(11, StructAt("accept", 0)), Case(12, StructAt("join", 0))})

Bootstrap == Struct(1, 1, NoUnion, {
  Number("questionId", 0, 4), AnyPointer("deprecatedObjectId", 0)})

Call_SendResultsTo == Struct(3, 3, 6, {
  Case(0, Void("caller")), Case(1, Void("yourself")),
  Case(2, AnyPointer("thirdParty", 2))})

Call == Struct(3, 3, NoUnion, {
  Number("questionId", 0, 4), StructAt("target", 0),
  Number("interfaceId", 8, 8), Number("methodId", 4, 2),
  Bit("allowThirdPartyTailCall", 128), Bit("noPromisePipelining", 129),
  Bit("onlyPromisePipeline", 130), StructAt("params", 1),
  Group("sendResultsTo", Call_SendResultsTo)})

Return == Struct(2, 1, 6, {
  Number("answerId", 0, 4), DefaultOnes(Bit("releaseParamCaps", 32)),
  Bit("noFinishNeeded", 33), Case(0, StructAt("results", 0)),
  Case(1, StructAt("exception", 0)), Case(2, Void("canceled")),
  Case(3, Void("resultsSentElsewhere")),
  Case(4, Number("takeFromOtherQuestion", 8, 4)),
  Case(5, AnyPointer("acceptFromThirdParty", 0))})

Finish == Struct(1, 0, NoUnion, {
  Number("questionId", 0, 4), DefaultOnes(Bit("releaseResultCaps", 32)),
  DefaultOnes(Bit("requireEarlyCancellationWorkaround", 33))})

Resolve == Struct(1, 1, 4, {
  Number("promiseId", 0, 4), Case(0, StructAt("cap", 0)),
  Case(1, StructAt("exception", 0))})

Release == Struct(1, 0, NoUnion, {
  Number("id", 0, 4), Number("referenceCount", 4, 4)})

Disembargo_Context == Struct(1, 1, 4, {
  Case(0, Number("senderLoopback", 0, 4)),
  Case(1, Number("receiverLoopback", 0, 4)), Case(2, Void("accept")),
  Case(3, Number("provide", 0, 4))})

Disembargo == Struct(1, 1, NoUnion, {
  StructAt("target", 0), Group("context", Disembargo_Context)})

Provide == Struct(1, 2, NoUnion, {
  Number("questionId", 0, 4), StructAt("target", 0),
  AnyPointer("recipient", 1)})

Accept == Struct(1, 1, NoUnion, {
  Number("questionId", 0, 4), AnyPointer("provision", 0), Bit("embargo", 32)})

Join == Struct(1, 2, NoUnion, {
  Number("questionId", 0, 4), StructAt("target", 0), AnyPointer("keyPart", 1)})

MessageTarget == Struct(1, 1, 4, {
  Case(0, Number("importedCap", 0, 4)),
  Case(1, StructAt("promisedAnswer", 0))})

Payload == Struct(0, 2, NoUnion, {
  AnyPointer("content", 0), List("capTable", 1)})

CapDescriptor == Struct(1, 1, 0, {
  Case(0, Void("none")), Case(1, Number("senderHosted", 4, 4)),
  Case(2, Number("senderPromise", 4, 4)),
  Case(3, Number("receiverHosted", 4, 4)),
  Case(4, StructAt("receiverAnswer", 0)),
  Case(5, StructAt("thirdPartyHosted", 0)),
  DefaultOnes(Number("attachedFd", 2, 1))})

PromisedAnswer_Op == Struct(1, 0, 0, {
  Case(0, Void("noop")), Case(1, Number("getPointerField", 2, 2))})

PromisedAnswer == Struct(1, 1, NoUnion, {
  Number("questionId", 0, 4), List("transform", 0)})

ThirdPartyCapDescriptor == Struct(1, 1, NoUnion, {
  AnyPointer("id", 0), Number("vineId", 0, 4)})

Exception == Struct(1, 2, NoUnion, {
  Text("reason", 0), Number("type", 4, 2), Bit("obsoleteIsCallersFault", 0),
  Number("obsoleteDurability", 2, 2), Text("trace", 1)})

-----------------------------------------------------------------------------
(* rpc-twoparty.capnp.                                                    *)

VatId == Struct(1, 0, NoUnion, {
  Number("side", 0, 2)})

ProvisionId == Struct(1, 0, NoUnion, {
  Number("joinId", 0, 4)})

RecipientId == Struct(0, 0, NoUnion, {})

ThirdPartyCapId == Struct(0, 0, NoUnion, {})

JoinKeyPart == Struct(1, 0, NoUnion, {
  Number("joinId", 0, 4), Number("partCount", 4, 2), Number("partNum", 6, 2)})

JoinResult == Struct(1, 1, NoUnion, {
  Number("joinId", 0, 4), Bit("succeeded", 32), AnyPointer("cap", 0)})

-----------------------------------------------------------------------------
(* persistent.capnp.                                                      *)

Persistent_SaveParams == Struct(0, 1, NoUnion, {
  AnyPointer("sealFor", 0)})

Persistent_SaveResults == Struct(0, 1, NoUnion, {
  AnyPointer("sturdyRef", 0)})

\* The classes that are not a group of another.
RpcLayouts == [Message |-> Message, Bootstrap |-> Bootstrap, Call |-> Call,
  Return |-> Return, Finish |-> Finish, Resolve |-> Resolve,
  Release |-> Release, Disembargo |-> Disembargo, Provide |-> Provide,
  Accept |-> Accept, Join |-> Join, MessageTarget |-> MessageTarget,
  Payload |-> Payload, CapDescriptor |-> CapDescriptor,
  PromisedAnswer_Op |-> PromisedAnswer_Op, PromisedAnswer |-> PromisedAnswer,
  ThirdPartyCapDescriptor |-> ThirdPartyCapDescriptor,
  Exception |-> Exception, VatId |-> VatId, ProvisionId |-> ProvisionId,
  RecipientId |-> RecipientId, ThirdPartyCapId |-> ThirdPartyCapId,
  JoinKeyPart |-> JoinKeyPart, JoinResult |-> JoinResult,
  Persistent_SaveParams |-> Persistent_SaveParams,
  Persistent_SaveResults |-> Persistent_SaveResults]
=============================================================================
