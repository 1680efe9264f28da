------------------------------ MODULE CapTables ------------------------------
(***************************************************************************)
(* Capabilities on one connection: the export table of the vat that hosts  *)
(* objects, the import table of the vat that uses them, and the wire       *)
(* reference counts that tie an entry of one to an entry of the other      *)
(* (src/rpc/conn.ts, import-client.ts, refcount.ts, ref.ts).  A Conn plays *)
(* both roles; the two directions share no table entry.                    *)
(*                                                                         *)
(* The host hands objects out as parameters of its own calls and in the    *)
(* results of the holder's calls.  The holder calls imported objects,      *)
(* sends them back, and closes its references (or lets them be collected:  *)
(* a finalizer does what Ref.close does) in any order.  Questions and      *)
(* answers are the subject of RpcCalls: here a question of the host is     *)
(* used once, and the holder's calls are only counted.                     *)
(***************************************************************************)
EXTENDS Integers, Sequences, FiniteSets, Functions, Sums

CONSTANTS
  Objs,        \* the objects of the host
  Main,        \* its main interface (Conn.initMain)
  Questions,   \* the host's calls that pass an object, each made once
  NoQuestion,  \* the question of a message that answers none
  MaxExport,   \* bound: export ids are 0..MaxExport
  MaxAsks,     \* bound: requests the holder makes
  MayMismatch, \* the holder may lack the interface or method of a call
  MayReexport  \* the host may pass an object again while its code keeps a Ref
               \* that was sent back to it under an earlier export

ASSUME CapTablesAssumption ==
  /\ Main \in Objs
  /\ NoQuestion \notin Questions
  /\ MaxExport \in Nat /\ MaxAsks \in Nat
  /\ {MayMismatch, MayReexport} \subseteq BOOLEAN

VARIABLES
  nextId, freeIds, \* IDGen.i and IDGen.free of Conn.exportID
  exports,         \* Conn.exports: the RefCount under an id, or NoRc
  wireRefs,        \* Export.wireRefs
  rcs,             \* the RefCounts the host made: object and RefCount.refs
  paramCap,        \* Question.paramCaps: the id that was passed, or -1
  running,         \* requests of the holder that are being answered
  disposed,        \* objects whose client has been closed (Server.close)
  hostOpen,        \* ~Conn.closed of the host
  imports,         \* Conn.imports of the holder
  serving,         \* the host's calls the holder has not returned
  asks,            \* requests the holder has made
  holderOpen,      \* ~Conn.closed of the holder
  unknown,         \* history: calls the holder did not know, by the id passed
  toHolder, toHost \* messages in flight

tableVars == <<nextId, freeIds, exports, wireRefs, rcs, disposed>>
hostVars == <<tableVars, paramCap, running, hostOpen>>
holderVars == <<imports, serving, asks, holderOpen, unknown>>
vars == <<nextId, freeIds, exports, wireRefs, rcs, disposed, paramCap, running,
          hostOpen, imports, serving, asks, holderOpen, unknown, toHolder, toHost>>

Ids == 0..MaxExport

\* RefCounts are numbered from 1 in the order they are made.
NoRc == 0

\* refs: ImportEntry.refs; local: the refs of its RefCount; rc: history, the
\* RefCount the id stood for when the entry was made.
NoImport == [refs |-> 0, local |-> 0, rc |-> NoRc]

\* What the host sends: a capability descriptor in a call or a result.
ToHolder(type, e, r, q) == [type |-> type, id |-> e, rc |-> r, question |-> q]

\* What the holder sends; returnReleasing is a Return with releaseParamCaps.
ToHost(type, e, r, n, q) ==
  [type |-> type, id |-> e, rc |-> r, count |-> n, question |-> q]

\* Conn.initMain has exported the main interface.
Init ==
  /\ nextId = 1
  /\ freeIds = <<>>
  /\ exports = [e \in Ids |-> IF e = 0 THEN 1 ELSE NoRc]
  /\ wireRefs = [e \in Ids |-> IF e = 0 THEN 1 ELSE 0]
  /\ rcs = <<[obj |-> Main, refs |-> 1]>>
  /\ disposed = {}
  /\ paramCap = [q \in Questions |-> -1]
  /\ running = 0
  /\ hostOpen = TRUE
  /\ imports = [e \in Ids |-> NoImport]
  /\ serving = {}
  /\ asks = 0
  /\ holderOpen = TRUE
  /\ unknown = [e \in Ids |-> 0]
  /\ toHolder = <<>>
  /\ toHost = <<>>

-----------------------------------------------------------------------------
(* The host's export table.                                                *)

\* IDGen.next: the id freed last, or a new one.
IdToUse == IF freeIds = <<>> THEN nextId ELSE freeIds[Len(freeIds)]

TakeId ==
  IF freeIds = <<>>
  THEN nextId' = nextId + 1 /\ UNCHANGED freeIds
  ELSE freeIds' = SubSeq(freeIds, 1, Len(freeIds) - 1) /\ UNCHANGED nextId

Exported(o) == {e \in Ids : exports[e] # NoRc /\ rcs[exports[e]].obj = o}

\* Mutant: an object already in the table is sent without being counted.
AddExportUncounted(o, e) ==
  \/ /\ e \in Exported(o)
     /\ UNCHANGED tableVars
  \/ /\ Exported(o) = {}
     /\ e = IdToUse
     /\ e \in Ids
     /\ TakeId
     /\ rcs' = Append(rcs, [obj |-> o, refs |-> 1])
     /\ exports' = [exports EXCEPT ![e] = Len(rcs) + 1]
     /\ wireRefs' = [wireRefs EXCEPT ![e] = 1]
     /\ UNCHANGED disposed

\* Conn.addExport: the id of the object if it is in the table, or a new entry
\* with a RefCount of its own.
AddExport(o, e) ==
  \/ /\ e \in Exported(o)
     /\ wireRefs' = [wireRefs EXCEPT ![e] = @ + 1]
     /\ UNCHANGED <<nextId, freeIds, exports, rcs, disposed>>
  \/ /\ Exported(o) = {}
     /\ e = IdToUse
     /\ e \in Ids
     /\ TakeId
     /\ rcs' = Append(rcs, [obj |-> o, refs |-> 1])
     /\ exports' = [exports EXCEPT ![e] = Len(rcs) + 1]
     /\ wireRefs' = [wireRefs EXCEPT ![e] = 1]
     /\ UNCHANGED disposed

\* Mutant: closing any reference closes the object.
DecrefClosing(R) ==
  /\ rcs' = [r \in DOMAIN rcs |->
               IF r \in R THEN [rcs[r] EXCEPT !.refs = @ - 1] ELSE rcs[r]]
  /\ disposed' = disposed \cup {rcs[r].obj : r \in R}

\* RefCount.decref of each RefCount in R: the last reference closes the object.
Decref(R) ==
  /\ rcs' = [r \in DOMAIN rcs |->
               IF r \in R THEN [rcs[r] EXCEPT !.refs = @ - 1] ELSE rcs[r]]
  /\ disposed' = disposed \cup {rcs[r].obj : r \in {x \in R : rcs[x].refs = 1}}

\* Mutant: the count goes below zero and the entry stays.
releaseExportNotReclaimed(e, n) ==
  /\ wireRefs' = [wireRefs EXCEPT ![e] = IF exports[e] = NoRc THEN @ ELSE @ - n]
  /\ UNCHANGED <<nextId, freeIds, exports, rcs, disposed>>

\* Mutant: the id is freed once more when the entry is already gone.
releaseExportTwice(e, n) ==
  IF wireRefs[e] > n
  THEN /\ wireRefs' = [wireRefs EXCEPT ![e] = @ - n]
       /\ UNCHANGED <<nextId, freeIds, exports, rcs, disposed>>
  ELSE /\ wireRefs' = [wireRefs EXCEPT ![e] = 0]
       /\ Decref({exports[e]} \ {NoRc})
       /\ exports' = [exports EXCEPT ![e] = NoRc]
       /\ freeIds' = Append(freeIds, e)
       /\ UNCHANGED nextId

\* Conn.releaseExport: more references than are held count as all of them.
releaseExport(e, n) ==
  IF exports[e] = NoRc THEN UNCHANGED tableVars
  ELSE IF wireRefs[e] > n
  THEN /\ wireRefs' = [wireRefs EXCEPT ![e] = @ - n]
       /\ UNCHANGED <<nextId, freeIds, exports, rcs, disposed>>
  ELSE /\ wireRefs' = [wireRefs EXCEPT ![e] = 0]
       /\ Decref({exports[e]})
       /\ exports' = [exports EXCEPT ![e] = NoRc]
       /\ freeIds' = Append(freeIds, e)
       /\ UNCHANGED nextId

-----------------------------------------------------------------------------
(* What the host does.                                                     *)

\* Bound: the ids are not used up, so that the main interface, which may be
\* exported again, has one.
RoomForMain ==
  Exported(Main) # {} \/ Cardinality({e \in Ids : exports[e] = NoRc}) > 1

\* The host's code passes its own client of an object, never one that has been
\* closed.
MayPass(o) ==
  /\ o \notin disposed
  /\ RoomForMain
  /\ \/ MayReexport
     \/ \A r \in DOMAIN rcs :
          rcs[r].obj = o /\ rcs[r].refs > 0 => r \in Range(exports)

\* ImportClient.call or Question.pipelineCall with an object as parameter:
\* fillParams exports it and notes its id.
PassParam(q, o) ==
  /\ hostOpen
  /\ paramCap[q] = -1
  /\ MayPass(o)
  /\ \E e \in Ids :
       /\ AddExport(o, e)
       /\ paramCap' = [paramCap EXCEPT ![q] = e]
       /\ toHolder' = Append(toHolder, ToHolder("call", e, exports'[e], q))
  /\ UNCHANGED <<running, hostOpen, holderVars, toHost>>

\* AnswerEntry.fulfill with an object in the results.
AnswerWith(o) ==
  /\ hostOpen
  /\ running > 0
  /\ running' = running - 1
  /\ MayPass(o)
  /\ \E e \in Ids :
       /\ AddExport(o, e)
       /\ toHolder' = Append(toHolder, ToHolder("results", e, exports'[e], NoQuestion))
  /\ UNCHANGED <<paramCap, hostOpen, holderVars, toHost>>

\* ... or without one, or AnswerEntry.reject.
AnswerPlain ==
  /\ hostOpen
  /\ running > 0
  /\ running' = running - 1
  /\ UNCHANGED <<tableVars, paramCap, hostOpen, holderVars, toHolder, toHost>>

\* Code of the host closes a Ref to an object that was sent back to it.
CloseBackRef(r) ==
  /\ rcs[r].refs > IF r \in Range(exports) THEN 1 ELSE 0
  /\ Decref({r})
  /\ UNCHANGED <<nextId, freeIds, exports, wireRefs, paramCap, running, hostOpen,
                 holderVars, toHolder, toHost>>

ArrivedAtHost(m) == hostOpen /\ toHost # <<>> /\ m = Head(toHost) /\ toHost' = Tail(toHost)

HandleBootstrap ==
  \E m \in Range(toHost) :
    /\ ArrivedAtHost(m)
    /\ m.type = "bootstrap"
    /\ \E e \in Ids :
         /\ AddExport(Main, e)
         /\ toHolder' = Append(toHolder, ToHolder("results", e, exports'[e], NoQuestion))
    /\ UNCHANGED <<paramCap, running, hostOpen, holderVars>>

\* routeCallMessage: the target of a Call is in the table.
HandleCall ==
  \E m \in Range(toHost) :
    /\ ArrivedAtHost(m)
    /\ m.type = "call"
    /\ exports[m.id] # NoRc
    /\ running' = running + 1
    /\ UNCHANGED <<tableVars, paramCap, hostOpen, holderVars, toHolder>>

\* populateMessageCapTable: a receiverHosted capability; the host's code gets
\* a Ref of the export's RefCount.
HandleSentBack ==
  \E m \in Range(toHost) :
    /\ ArrivedAtHost(m)
    /\ m.type = "sentBack"
    /\ exports[m.id] # NoRc
    /\ rcs' = [rcs EXCEPT ![exports[m.id]].refs = @ + 1]
    /\ UNCHANGED <<nextId, freeIds, exports, wireRefs, disposed, paramCap, running,
                   hostOpen, holderVars, toHolder>>

\* BadTarget or UnknownExportId: Abort is sent and shutdown() closes every
\* export and frees its id in the order of the table.
HandleUnknownExport ==
  \E m \in Range(toHost) :
    LET live == {e \in Ids : exports[e] # NoRc}
    IN /\ ArrivedAtHost(m)
       /\ m.type \in {"call", "sentBack"}
       /\ exports[m.id] = NoRc
       /\ toHolder' = Append(toHolder, ToHolder("abort", m.id, NoRc, NoQuestion))
       /\ hostOpen' = FALSE
       /\ Decref(Range(exports) \ {NoRc})
       /\ exports' = [e \in Ids |-> NoRc]
       /\ wireRefs' = [e \in Ids |-> 0]
       /\ \E s \in [1..Cardinality(live) -> live] :
            /\ Range(s) = live
            /\ \A i, j \in DOMAIN s : i < j => s[i] < s[j]
            /\ freeIds' = freeIds \o s
       /\ UNCHANGED <<nextId, paramCap, running, holderVars>>

HandleRelease ==
  \E m \in Range(toHost) :
    /\ ArrivedAtHost(m)
    /\ m.type = "release"
    /\ releaseExport(m.id, m.count)
    /\ UNCHANGED <<paramCap, running, hostOpen, holderVars, toHolder>>

\* handleReturnMessage: with releaseParamCaps the parameters are released.
HandleReturn ==
  \E m \in Range(toHost) :
    /\ ArrivedAtHost(m)
    /\ m.type \in {"return", "returnReleasing"}
    /\ IF m.type = "returnReleasing" THEN releaseExport(paramCap[m.question], 1)
       ELSE UNCHANGED tableVars
    /\ UNCHANGED <<paramCap, running, hostOpen, holderVars, toHolder>>

-----------------------------------------------------------------------------
(* What the holder does.                                                   *)

\* Conn.addImport
AddImport(m) ==
  imports' = [imports EXCEPT ![m.id] =
    IF @.refs > 0 THEN [refs |-> @.refs + 1, local |-> @.local + 1, rc |-> @.rc]
    ELSE [refs |-> 1, local |-> 1, rc |-> m.rc]]

ArrivedAtHolder(m) ==
  holderOpen /\ toHolder # <<>> /\ m = Head(toHolder) /\ toHolder' = Tail(toHolder)

\* handleReturnMessage with results.
HandleResults ==
  \E m \in Range(toHolder) :
    /\ ArrivedAtHolder(m)
    /\ m.type = "results"
    /\ AddImport(m)
    /\ UNCHANGED <<hostVars, serving, asks, holderOpen, unknown, toHost>>

\* handleCallMessage of a call the holder knows.
HandleParam ==
  \E m \in Range(toHolder) :
    /\ ArrivedAtHolder(m)
    /\ m.type = "call"
    /\ AddImport(m)
    /\ serving' = serving \cup {m.question}
    /\ UNCHANGED <<hostVars, asks, holderOpen, unknown, toHost>>

\* ... and of one it does not: the parameters have been imported before
\* sendReturnException sends a Return that leaves releaseParamCaps set.
HandleParamUnimplemented ==
  \E m \in Range(toHolder) :
    /\ MayMismatch
    /\ ArrivedAtHolder(m)
    /\ m.type = "call"
    /\ AddImport(m)
    /\ toHost' = Append(toHost, ToHost("returnReleasing", m.id, m.rc, 0, m.question))
    /\ unknown' = [unknown EXCEPT ![m.id] = @ + 1]
    /\ UNCHANGED <<hostVars, serving, asks, holderOpen>>

\* shutdown(): the import table is emptied and nothing is sent.
HandleAbort ==
  \E m \in Range(toHolder) :
    /\ ArrivedAtHolder(m)
    /\ m.type = "abort"
    /\ holderOpen' = FALSE
    /\ imports' = [e \in Ids |-> NoImport]
    /\ UNCHANGED <<hostVars, serving, asks, unknown, toHost>>

\* Mutant: the parameters are released with the Return although their Refs
\* are open.
ReturnCallReleasing(q) ==
  /\ holderOpen
  /\ q \in serving
  /\ serving' = serving \ {q}
  /\ toHost' = Append(toHost, ToHost("returnReleasing", 0, NoRc, 0, q))
  /\ UNCHANGED <<hostVars, imports, asks, holderOpen, unknown, toHolder>>

\* AnswerEntry.fulfill and AnswerEntry.reject clear releaseParamCaps.
ReturnCall(q) ==
  /\ holderOpen
  /\ q \in serving
  /\ serving' = serving \ {q}
  /\ toHost' = Append(toHost, ToHost("return", 0, NoRc, 0, q))
  /\ UNCHANGED <<hostVars, imports, asks, holderOpen, unknown, toHolder>>

\* Mutant: closing an import releases one reference.
CloseRefReleasingOne(e) ==
  /\ holderOpen
  /\ imports[e].local > 0
  /\ IF imports[e].local > 1
     THEN imports' = [imports EXCEPT ![e].local = @ - 1] /\ UNCHANGED toHost
     ELSE /\ imports' = [imports EXCEPT ![e] = NoImport]
          /\ toHost' = Append(toHost, ToHost("release", e, imports[e].rc, 1, NoQuestion))
  /\ UNCHANGED <<hostVars, serving, asks, holderOpen, unknown, toHolder>>

\* Ref.close, or its finalizer: the last Ref closes the ImportClient, and
\* releaseImportAll gives back every wire reference in one Release.
CloseRef(e) ==
  /\ holderOpen
  /\ imports[e].local > 0
  /\ IF imports[e].local > 1
     THEN imports' = [imports EXCEPT ![e].local = @ - 1] /\ UNCHANGED toHost
     ELSE /\ imports' = [imports EXCEPT ![e] = NoImport]
          /\ toHost' = Append(toHost,
               ToHost("release", e, imports[e].rc, imports[e].refs, NoQuestion))
  /\ UNCHANGED <<hostVars, serving, asks, holderOpen, unknown, toHolder>>

\* The holder asks for the main interface.
Bootstrap ==
  /\ holderOpen
  /\ asks < MaxAsks
  /\ asks' = asks + 1
  /\ toHost' = Append(toHost, ToHost("bootstrap", 0, NoRc, 0, NoQuestion))
  /\ UNCHANGED <<hostVars, imports, serving, holderOpen, unknown, toHolder>>

\* The holder calls an imported capability (ImportClient.call), or passes it
\* to the host (descriptorForClient: receiverHosted).
UseImport(e, type) ==
  /\ holderOpen
  /\ asks < MaxAsks
  /\ imports[e].local > 0
  /\ asks' = asks + 1
  /\ toHost' = Append(toHost, ToHost(type, e, imports[e].rc, 0, NoQuestion))
  /\ UNCHANGED <<hostVars, imports, serving, holderOpen, unknown, toHolder>>

-----------------------------------------------------------------------------

HostHandles ==
  \/ HandleBootstrap \/ HandleCall \/ HandleSentBack \/ HandleUnknownExport
  \/ HandleRelease \/ HandleReturn

HolderHandles ==
  HandleResults \/ HandleParam \/ HandleParamUnimplemented \/ HandleAbort

Next ==
  \/ HostHandles
  \/ HolderHandles
  \/ \E q \in Questions, o \in Objs : PassParam(q, o)
  \/ \E o \in Objs : AnswerWith(o)
  \/ AnswerPlain
  \/ \E r \in DOMAIN rcs : CloseBackRef(r)
  \/ \E q \in Questions : ReturnCall(q)
  \/ \E e \in Ids : CloseRef(e) \/ UseImport(e, "call") \/ UseImport(e, "sentBack")
  \/ Bootstrap

\* Each vat's work loop handles the next message (Conn.work).  The programs
\* owe nothing: references may be kept for ever.
Fairness == WF_vars(HostHandles) /\ WF_vars(HolderHandles)

Spec == Init /\ [][Next]_vars /\ Fairness

-----------------------------------------------------------------------------

TypeOK ==
  /\ nextId \in 0..(MaxExport + 1)
  /\ freeIds \in Seq(Ids)
  /\ rcs \in Seq([obj : Objs, refs : Nat])
  /\ exports \in [Ids -> {NoRc} \cup DOMAIN rcs]
  /\ wireRefs \in [Ids -> Nat]
  /\ disposed \subseteq Objs
  /\ paramCap \in [Questions -> Ids \cup {-1}]
  /\ running \in Nat
  /\ imports \in [Ids -> [refs : Nat, local : Nat, rc : {NoRc} \cup DOMAIN rcs]]
  /\ serving \subseteq Questions
  /\ asks \in 0..MaxAsks
  /\ hostOpen \in BOOLEAN /\ holderOpen \in BOOLEAN
  /\ unknown \in [Ids -> Nat]
  /\ \A m \in Range(toHolder) : m.type \in {"call", "results", "abort"} /\ m.id \in Ids
  /\ \A m \in Range(toHost) :
       /\ m.type \in {"bootstrap", "call", "sentBack", "release", "return", "returnReleasing"}
       /\ m.id \in Ids /\ m.count \in Nat

-----------------------------------------------------------------------------
(* Properties.                                                             *)

\* An object is exported under one id, an id in use is not free and none is
\* lost, an entry holds a reference of its RefCount and at least one of the
\* peer's: addExport and releaseExport on every path, double releases and
\* shutdown() included.
ExportTableOK ==
  /\ \A d, e \in Ids :
       exports[d] # NoRc /\ exports[e] # NoRc
         /\ rcs[exports[d]].obj = rcs[exports[e]].obj => d = e
  /\ IsInjective(freeIds)
  /\ Range(freeIds) = {e \in Ids : e < nextId /\ exports[e] = NoRc}
  /\ \A e \in Ids :
       IF exports[e] = NoRc THEN wireRefs[e] = 0
       ELSE e < nextId /\ wireRefs[e] > 0 /\ rcs[exports[e]].refs > 0

\* Descriptors of e on their way to the holder.
IntroducedBy(m, e) == IF m.id = e /\ m.type # "abort" THEN 1 ELSE 0
IntroducedIn(s, e) == SumOf([i \in DOMAIN s |-> IntroducedBy(s[i], e)])
Introduced(e) == IntroducedIn(toHolder, e)

\* References to e that the holder has given back and the host not yet got.
ReleasedBy(m, e) == IF m.type = "release" /\ m.id = e THEN m.count ELSE 0
ReleasedIn(s, e) == SumOf([i \in DOMAIN s |-> ReleasedBy(s[i], e)])
Released(e) == ReleasedIn(toHost, e)

\* The reference Conn.initMain took for itself.
Own(e) == IF exports[e] = 1 THEN 1 ELSE 0

\* References to e that the holder has, or that are on their way.
Held(e) == imports[e].refs + Introduced(e) + Released(e) + Own(e)

\* Every wire reference the host counts is held by the holder or on its way in
\* one direction, and the other way round, so that an export lives exactly as
\* long as the peer can name it, however Releases and descriptors cross
\* (Export.wireRefs and ImportEntry.refs).  A call the holder does not know
\* returns its parameter's reference and keeps it (releaseParamCaps): it costs
\* the host one reference of that export, never two and never another's.
WireRefsAgree ==
  hostOpen /\ holderOpen =>
    \A e \in Ids : wireRefs[e] <= Held(e) /\ Held(e) <= wireRefs[e] + unknown[e]

\* "An ImportId remains valid ... until the importer has sent Release
\* messages": the host finds a capability the holder names, and it is the one
\* the holder was given, not a later one under the same id; but for an id that
\* was passed in a call the holder did not know.
NamesReachTheirObject ==
  \A m \in Range(toHost) :
    hostOpen /\ m = Head(toHost) /\ m.type \in {"call", "sentBack"} /\ unknown[m.id] = 0
      => exports[m.id] = m.rc

\* "No further calls to the client should be made after calling Close": what
\* the table exports has not been closed.
NoCallAfterClose ==
  \A e \in Ids : exports[e] # NoRc => rcs[exports[e]].obj \notin disposed

\* What the table exports has been closed in one way only: addExport gave the
\* object another RefCount beside or after one that closed it.  No order of
\* releases, double releases, closes and shutdown() does it otherwise.
ClosedOnlyIfWrappedAgain ==
  \A e \in Ids :
    exports[e] # NoRc /\ rcs[exports[e]].obj \in disposed
      => \E r \in DOMAIN rcs \ {exports[e]} :
           rcs[r].obj = rcs[exports[e]].obj /\ rcs[r].refs = 0

\* No leak: an export the peer holds no reference to is released, unless a
\* descriptor for it is still on its way to the peer.
UnheldExportsAreReleased ==
  \A e \in Ids :
    exports[e] > 1 /\ imports[e].refs = 0 ~> exports[e] = NoRc \/ imports[e].refs > 0
=============================================================================
