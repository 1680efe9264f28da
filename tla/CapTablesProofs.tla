-------------------------- MODULE CapTablesProofs --------------------------
(***************************************************************************)
(* Proofs about CapTables: the export table stays sound whatever is sent   *)
(* and released (Conn.addExport, Conn.releaseExport, RefCount.decref),     *)
(* both vats agree on every wire reference but those that calls the holder *)
(* does not know give back twice, and what is exported has been closed by  *)
(* another RefCount of the same object or not at all.  No theorem takes a  *)
(* hypothesis: unknown methods, repeated exports and shutdown() included.  *)
(***************************************************************************)
EXTENDS CapTables, SequenceLemmas, FiniteSetTheorems, TLAPS

\* The messages, as the handlers build them.
HolderMessage ==
  [type : {"call", "results", "abort"}, id : Ids, rc : Nat,
   question : Questions \cup {NoQuestion}]

HostMessage ==
  [type : {"bootstrap", "call", "sentBack", "release", "return", "returnReleasing"},
   id : Ids, rc : Nat, count : Nat, question : Questions \cup {NoQuestion}]

\* The part of TypeOK that the operations of the export table touch.
TableTypeOK ==
  /\ nextId \in 0..(MaxExport + 1)
  /\ freeIds \in Seq(Ids)
  /\ rcs \in Seq([obj : Objs, refs : Nat])
  /\ exports \in [Ids -> {NoRc} \cup DOMAIN rcs]
  /\ wireRefs \in [Ids -> Nat]
  /\ disposed \subseteq Objs

\* The host's and the holder's own state.
PeersTypeOK ==
  /\ paramCap \in [Questions -> Ids \cup {-1}]
  /\ running \in Nat
  /\ hostOpen \in BOOLEAN
  /\ imports \in [Ids -> [refs : Nat, local : Nat, rc : Nat]]
  /\ serving \subseteq Questions
  /\ asks \in 0..MaxAsks
  /\ holderOpen \in BOOLEAN
  /\ unknown \in [Ids -> Nat]

\* The RefCount of a message or an import has been made.
KnownRc(r) == r \in {NoRc} \cup DOMAIN rcs

\* A call on its way, and a Return that releases, know the id that was passed.
MessagesOK ==
  /\ toHolder \in Seq(HolderMessage)
  /\ toHost \in Seq(HostMessage)
  /\ \A m \in Range(toHolder) :
       KnownRc(m.rc) /\ (m.type = "call" => m.question \in Questions /\ paramCap[m.question] = m.id)
  /\ \A m \in Range(toHost) :
       m.type = "returnReleasing" => m.question \in Questions /\ paramCap[m.question] = m.id

ImportsKnown == \A e \in Ids : KnownRc(imports[e].rc)

TableOK == TableTypeOK /\ ExportTableOK

CapInv == TableOK /\ PeersTypeOK /\ MessagesOK /\ ImportsKnown

-----------------------------------------------------------------------------
(* What holds while both ends are open.                                    *)

NoAbort == \A m \in Range(toHolder) : m.type # "abort"

\* The first RefCount is the one of the main interface (Own).
MainMade == 1 \in DOMAIN rcs

\* Returns on their way that will release a reference to e.
ReturningBy(m, e) == IF m.type = "returnReleasing" /\ m.id = e THEN 1 ELSE 0
ReturningIn(s, e) == SumOf([i \in DOMAIN s |-> ReturningBy(s[i], e)])
Returning(e) == ReturningIn(toHost, e)

\* WireRefsAgree, less the references that such Returns have still to take.
ReferencesAgree ==
  \A e \in Ids : /\ wireRefs[e] <= Held(e)
                 /\ Held(e) + Returning(e) <= wireRefs[e] + unknown[e]

\* An import has references of the wire as long as it has Refs, and stands for
\* what the host has exported under its id.
ImportsAgree ==
  \A e \in Ids : /\ imports[e].refs > 0 <=> imports[e].local > 0
                 /\ unknown[e] = 0 /\ imports[e].refs > 0 => exports[e] = imports[e].rc

DescriptorsAgree ==
  \A m \in Range(toHolder) : unknown[m.id] = 0 => exports[m.id] = m.rc

\* References to e that leave after the message at i.
ReleasedAfter(i, e) ==
  \E j \in DOMAIN toHost :
    j > i /\ toHost[j].type = "release" /\ toHost[j].id = e /\ toHost[j].count > 0

\* A message that names an export is followed by the Release of references
\* that keep the export alive until then, or the holder still has them.
NamesAgree ==
  \A i \in DOMAIN toHost :
    toHost[i].type \in {"call", "sentBack"} /\ unknown[toHost[i].id] = 0 =>
      /\ exports[toHost[i].id] = toHost[i].rc
      /\ imports[toHost[i].id].refs > 0 \/ ReleasedAfter(i, toHost[i].id)

WireInv ==
  NoAbort /\ MainMade /\ ReferencesAgree /\ ImportsAgree /\ DescriptorsAgree /\ NamesAgree

\* shutdown() of the host clears its tables; the holder's follows its Abort.
ConnectedInv == hostOpen => holderOpen /\ WireInv

-----------------------------------------------------------------------------
(* The export table.                                                       *)

\* A RefCount that was made has an object and a count.
LEMMA RefCountsTyped ==
  ASSUME TableTypeOK, NEW r \in DOMAIN rcs
  PROVE  rcs[r].obj \in Objs /\ rcs[r].refs \in Nat
<1>1. rcs[r] \in [obj : Objs, refs : Nat]
  BY LenProperties, ElementOfSeq DEF TableTypeOK
<1> QED BY <1>1

\* IDGen.next takes an id of no export: the last one freed, or a new one.
LEMMA TakeIdKeepsFree ==
  ASSUME TableOK, NEW e \in Ids, e = IdToUse, TakeId
  PROVE  /\ exports[e] = NoRc
         /\ nextId' \in 0..(MaxExport + 1) /\ freeIds' \in Seq(Ids) /\ IsInjective(freeIds')
         /\ \A d \in Ids : d \in Range(freeIds') <=> d \in Range(freeIds) /\ d # e
         /\ \A d \in Ids : d < nextId' <=> d < nextId \/ d = e
<1>1. freeIds \in Seq(Ids) /\ IsInjective(freeIds) /\ nextId \in 0..(MaxExport + 1)
  BY DEF TableOK, TableTypeOK, ExportTableOK
<1>2. CASE freeIds = <<>>
  <2>1. e = nextId /\ nextId' = nextId + 1 /\ freeIds' = freeIds
    BY <1>2 DEF IdToUse, TakeId
  <2>2. e \in 0..MaxExport /\ MaxExport \in Nat
    BY CapTablesAssumption DEF Ids
  <2>3. exports[e] = NoRc
    BY <2>1, <2>2 DEF TableOK, ExportTableOK
  <2> QED BY <1>1, <1>2, <2>1, <2>2, <2>3, RangeOfEmpty DEF Ids
<1>3. CASE freeIds # <<>>
  <2>1. /\ e = freeIds[Len(freeIds)] /\ nextId' = nextId
        /\ freeIds' = SubSeq(freeIds, 1, Len(freeIds) - 1)
    BY <1>3 DEF IdToUse, TakeId
  <2>2. /\ freeIds' \in Seq(Ids) /\ IsInjective(freeIds')
        /\ Range(freeIds) = Range(freeIds') \cup {e} /\ e \notin Range(freeIds')
    BY <1>1, <1>3, <2>1, RangeOfFront
  <2>3. e < nextId /\ exports[e] = NoRc
    BY <2>2 DEF TableOK, ExportTableOK
  <2> QED BY <1>1, <2>1, <2>2, <2>3
<1> QED BY <1>2, <1>3

\* Making an entry with a RefCount of its own.
LEMMA NewExportKeepsTable ==
  ASSUME TableOK, NEW o \in Objs, NEW e \in Ids,
         Exported(o) = {}, e = IdToUse, TakeId,
         rcs' = Append(rcs, [obj |-> o, refs |-> 1]),
         exports' = [exports EXCEPT ![e] = Len(rcs) + 1],
         wireRefs' = [wireRefs EXCEPT ![e] = 1],
         disposed' = disposed
  PROVE  /\ TableOK'
         /\ exports[e] = NoRc
         /\ DOMAIN rcs' = DOMAIN rcs \cup {Len(rcs) + 1} /\ Len(rcs) + 1 \notin DOMAIN rcs
         /\ \A r \in DOMAIN rcs : rcs'[r] = rcs[r]
         /\ rcs'[Len(rcs) + 1] = [obj |-> o, refs |-> 1]
<1> DEFINE n == Len(rcs) + 1
           rec == [obj |-> o, refs |-> 1]
<1>1. /\ exports[e] = NoRc
      /\ nextId' \in 0..(MaxExport + 1) /\ freeIds' \in Seq(Ids) /\ IsInjective(freeIds')
      /\ \A d \in Ids : d \in Range(freeIds') <=> d \in Range(freeIds) /\ d # e
      /\ \A d \in Ids : d < nextId' <=> d < nextId \/ d = e
  BY TakeIdKeepsFree
<1>2. /\ rcs \in Seq([obj : Objs, refs : Nat]) /\ rec \in [obj : Objs, refs : Nat]
      /\ rec.obj = o /\ rec.refs = 1
  BY DEF TableOK, TableTypeOK
<1> HIDE DEF rec
<1>3. /\ rcs' \in Seq([obj : Objs, refs : Nat])
      /\ DOMAIN rcs = 1..Len(rcs) /\ DOMAIN rcs' = 1..n /\ Len(rcs) \in Nat
      /\ \A r \in 1..Len(rcs) : rcs'[r] = rcs[r]
      /\ rcs'[n] = rec
  BY <1>2, AppendProperties, LenProperties DEF rec
<1>4. DOMAIN rcs' = DOMAIN rcs \cup {n} /\ n \notin DOMAIN rcs /\ n # NoRc
  BY <1>3 DEF NoRc
<1> HIDE DEF n
<1>5. /\ exports \in [Ids -> {NoRc} \cup DOMAIN rcs] /\ wireRefs \in [Ids -> Nat]
      /\ exports' \in [Ids -> {NoRc} \cup DOMAIN rcs']
      /\ wireRefs' \in [Ids -> Nat]
      /\ \A d \in Ids : exports'[d] = (IF d = e THEN n ELSE exports[d])
      /\ \A d \in Ids : wireRefs'[d] = (IF d = e THEN 1 ELSE wireRefs[d])
  BY <1>4 DEF TableOK, TableTypeOK, n
<1>6. TableTypeOK'
  BY <1>1, <1>3, <1>5 DEF TableOK, TableTypeOK
<1>7. \A d \in Ids : exports[d] # NoRc => exports[d] \in DOMAIN rcs /\ rcs[exports[d]].obj # o
  BY <1>5 DEF Exported
<1>8. ASSUME NEW c \in Ids, NEW d \in Ids, exports'[c] # NoRc, exports'[d] # NoRc,
             rcs'[exports'[c]].obj = rcs'[exports'[d]].obj
      PROVE  c = d
  <2>1. \A x \in Ids : exports'[x] # NoRc =>
          rcs'[exports'[x]].obj = IF x = e THEN o ELSE rcs[exports[x]].obj
    BY <1>2, <1>3, <1>5, <1>7
  <2>2. \A x \in Ids : x # e => exports'[x] = exports[x]
    BY <1>5
  <2>3. \A x, y \in Ids : exports[x] # NoRc /\ exports[y] # NoRc
          /\ rcs[exports[x]].obj = rcs[exports[y]].obj => x = y
    BY DEF TableOK, ExportTableOK
  <2>4. CASE c = e
    BY <1>7, <1>8, <2>1, <2>2, <2>4
  <2>5. CASE d = e
    BY <1>7, <1>8, <2>1, <2>2, <2>5
  <2>6. CASE c # e /\ d # e
    <3>1. exports'[c] = exports[c] /\ exports'[d] = exports[d]
      BY <2>2, <2>6
    <3>2. rcs[exports[c]].obj = rcs[exports[d]].obj
      BY <1>8, <2>1, <2>6
    <3> QED BY <1>8, <2>3, <3>1, <3>2
  <2> QED BY <2>4, <2>5, <2>6
<1>9. Range(freeIds') = {d \in Ids : d < nextId' /\ exports'[d] = NoRc}
  <2>1. \A d \in Ids : d \in Range(freeIds) <=> d < nextId /\ exports[d] = NoRc
    BY DEF TableOK, ExportTableOK
  <2>2. \A d \in Ids : d \in Range(freeIds') <=> d < nextId' /\ exports'[d] = NoRc
    BY <1>1, <1>4, <1>5, <2>1
  <2>3. Range(freeIds') \subseteq Ids
    BY <1>1, RangeIsElements
  <2> QED BY <2>2, <2>3
<1>10. ASSUME NEW d \in Ids
       PROVE  IF exports'[d] = NoRc THEN wireRefs'[d] = 0
              ELSE d < nextId' /\ wireRefs'[d] > 0 /\ rcs'[exports'[d]].refs > 0
  <2>1. CASE d = e
    BY <1>1, <1>2, <1>3, <1>4, <1>5, <2>1
  <2>2. CASE d # e
    BY <1>1, <1>3, <1>5, <1>7, <2>2 DEF TableOK, ExportTableOK
  <2> QED BY <2>1, <2>2
<1>11. ExportTableOK'
  BY <1>1, <1>8, <1>9, <1>10 DEF ExportTableOK
<1> QED BY <1>1, <1>3, <1>4, <1>6, <1>11 DEF TableOK, n, rec

\* Conn.addExport keeps the table, and the RefCounts it finds; a new entry is
\* made under an id that was not in use.
LEMMA AddExportKeepsTable ==
  ASSUME TableOK, NEW o \in Objs, NEW e \in Ids, AddExport(o, e)
  PROVE  /\ TableOK'
         /\ DOMAIN rcs \subseteq DOMAIN rcs'
         /\ \A r \in DOMAIN rcs : rcs'[r] = rcs[r]
         /\ exports'[e] # NoRc /\ exports'[e] \in DOMAIN rcs'
         /\ \A d \in Ids : d # e \/ exports[d] # NoRc => exports'[d] = exports[d]
         /\ exports[e] = NoRc => exports'[e] \notin DOMAIN rcs
         /\ wireRefs' = [wireRefs EXCEPT ![e] = @ + 1]
         /\ disposed' = disposed
<1>1. CASE /\ e \in Exported(o)
           /\ wireRefs' = [wireRefs EXCEPT ![e] = @ + 1]
           /\ UNCHANGED <<nextId, freeIds, exports, rcs, disposed>>
  <2>1. exports[e] # NoRc /\ exports[e] \in DOMAIN rcs /\ wireRefs \in [Ids -> Nat]
    BY <1>1 DEF Exported, TableOK, TableTypeOK
  <2>2. wireRefs' \in [Ids -> Nat] /\ \A d \in Ids : wireRefs'[d] = IF d = e THEN wireRefs[e] + 1 ELSE wireRefs[d]
    BY <1>1, <2>1
  <2>3. TableTypeOK'
    BY <1>1, <2>2 DEF TableOK, TableTypeOK
  <2>4. ExportTableOK'
    BY <1>1, <2>1, <2>2 DEF TableOK, ExportTableOK
  <2> QED BY <1>1, <2>1, <2>3, <2>4 DEF TableOK
<1>2. CASE /\ Exported(o) = {} /\ e = IdToUse /\ TakeId
           /\ rcs' = Append(rcs, [obj |-> o, refs |-> 1])
           /\ exports' = [exports EXCEPT ![e] = Len(rcs) + 1]
           /\ wireRefs' = [wireRefs EXCEPT ![e] = 1]
           /\ UNCHANGED disposed
  <2>1. /\ TableOK' /\ exports[e] = NoRc
        /\ DOMAIN rcs' = DOMAIN rcs \cup {Len(rcs) + 1} /\ Len(rcs) + 1 \notin DOMAIN rcs
        /\ \A r \in DOMAIN rcs : rcs'[r] = rcs[r]
    BY <1>2, NewExportKeepsTable
  <2>2. exports \in [Ids -> {NoRc} \cup DOMAIN rcs] /\ wireRefs \in [Ids -> Nat] /\ Len(rcs) \in Nat
    BY LenProperties DEF TableOK, TableTypeOK
  <2>3. wireRefs[e] = 0
    BY <2>1 DEF TableOK, ExportTableOK
  <2>4. [wireRefs EXCEPT ![e] = @ + 1] = [wireRefs EXCEPT ![e] = 1]
    BY <2>2, <2>3
  <2>5. exports'[e] = Len(rcs) + 1 /\ exports'[e] # NoRc
        /\ \A d \in Ids : d # e => exports'[d] = exports[d]
    BY <1>2, <2>2 DEF NoRc
  <2> QED BY <1>2, <2>1, <2>4, <2>5
<1> QED BY <1>1, <1>2 DEF AddExport

\* RefCount.decref of RefCounts that are held: the sequence and the objects
\* stay, and the counts of the others.
LEMMA DecrefKeepsRcs ==
  ASSUME TableTypeOK, NEW R \in SUBSET DOMAIN rcs, \A r \in R : rcs[r].refs > 0, Decref(R)
  PROVE  /\ rcs' \in Seq([obj : Objs, refs : Nat])
         /\ DOMAIN rcs' = DOMAIN rcs
         /\ \A r \in DOMAIN rcs :
              /\ rcs'[r].obj = rcs[r].obj
              /\ rcs'[r].refs = IF r \in R THEN rcs[r].refs - 1 ELSE rcs[r].refs
         /\ disposed' \subseteq Objs
         /\ disposed \subseteq disposed'
<1>1. /\ rcs \in Seq([obj : Objs, refs : Nat])
      /\ DOMAIN rcs = 1..Len(rcs) /\ Len(rcs) \in Nat
      /\ \A r \in DOMAIN rcs : rcs[r] \in [obj : Objs, refs : Nat]
  BY LenProperties, ElementOfSeq DEF TableTypeOK
<1>2. rcs' = [r \in 1..Len(rcs) |->
                IF r \in R THEN [rcs[r] EXCEPT !.refs = @ - 1] ELSE rcs[r]]
  BY <1>1 DEF Decref
<1>3. ASSUME NEW r \in 1..Len(rcs)
      PROVE  /\ rcs'[r] \in [obj : Objs, refs : Nat]
             /\ rcs'[r].obj = rcs[r].obj
             /\ rcs'[r].refs = IF r \in R THEN rcs[r].refs - 1 ELSE rcs[r].refs
  <2>1. rcs[r] \in [obj : Objs, refs : Nat] /\ (r \in R => rcs[r].refs > 0)
    BY <1>1
  <2> QED BY <1>2, <2>1
<1>4. rcs' \in Seq([obj : Objs, refs : Nat]) /\ DOMAIN rcs' = 1..Len(rcs)
  <2>1. rcs' \in [1..Len(rcs) -> [obj : Objs, refs : Nat]]
    BY <1>2, <1>3
  <2> QED BY <1>1, <2>1, SeqOfFunction
<1>5. disposed' \subseteq Objs /\ disposed \subseteq disposed'
  BY <1>1 DEF Decref, TableTypeOK
<1> QED BY <1>1, <1>3, <1>4, <1>5

\* Conn.releaseExport of the last references: the entry goes, its id is free,
\* and no other entry shares its RefCount.
LEMMA RemoveExportKeepsTable ==
  ASSUME TableOK, NEW e \in Ids, exports[e] # NoRc,
         wireRefs' = [wireRefs EXCEPT ![e] = 0],
         Decref({exports[e]}),
         exports' = [exports EXCEPT ![e] = NoRc],
         freeIds' = Append(freeIds, e),
         nextId' = nextId
  PROVE  TableOK' /\ DOMAIN rcs' = DOMAIN rcs
<1>1. /\ exports \in [Ids -> {NoRc} \cup DOMAIN rcs] /\ exports[e] \in DOMAIN rcs
      /\ rcs[exports[e]].refs > 0 /\ e < nextId
  BY DEF TableOK, TableTypeOK, ExportTableOK
<1>2. /\ rcs' \in Seq([obj : Objs, refs : Nat])
      /\ DOMAIN rcs' = DOMAIN rcs
      /\ \A r \in DOMAIN rcs :
           /\ rcs'[r].obj = rcs[r].obj
           /\ r # exports[e] => rcs'[r].refs = rcs[r].refs
      /\ disposed' \subseteq Objs
  <2>1. {exports[e]} \in SUBSET DOMAIN rcs /\ \A r \in {exports[e]} : rcs[r].refs > 0
    BY <1>1
  <2> QED BY <2>1, DecrefKeepsRcs DEF TableOK
<1>3. /\ freeIds' \in Seq(Ids) /\ IsInjective(freeIds')
      /\ Range(freeIds') = Range(freeIds) \cup {e}
  <2>1. freeIds \in Seq(Ids) /\ IsInjective(freeIds) /\ e \notin Range(freeIds)
    BY DEF TableOK, TableTypeOK, ExportTableOK
  <2> QED BY <2>1, RangeOfAppend
<1>4. /\ exports' \in [Ids -> {NoRc} \cup DOMAIN rcs']
      /\ wireRefs \in [Ids -> Nat] /\ wireRefs' \in [Ids -> Nat]
      /\ exports'[e] = NoRc /\ wireRefs'[e] = 0
      /\ \A d \in Ids : d # e => exports'[d] = exports[d] /\ wireRefs'[d] = wireRefs[d]
  BY <1>1, <1>2 DEF TableOK, TableTypeOK
<1>5. TableTypeOK'
  BY <1>2, <1>3, <1>4 DEF TableOK, TableTypeOK
<1>6. \A d \in Ids : exports'[d] # NoRc =>
        /\ d # e /\ exports'[d] = exports[d] /\ exports[d] \in DOMAIN rcs
        /\ rcs'[exports[d]].obj = rcs[exports[d]].obj
        /\ rcs'[exports[d]].refs = rcs[exports[d]].refs
  <2> SUFFICES ASSUME NEW d \in Ids, exports'[d] # NoRc
               PROVE  /\ d # e /\ exports'[d] = exports[d] /\ exports[d] \in DOMAIN rcs
                      /\ rcs'[exports[d]].obj = rcs[exports[d]].obj
                      /\ rcs'[exports[d]].refs = rcs[exports[d]].refs
    OBVIOUS
  <2>1. d # e /\ exports'[d] = exports[d] /\ exports[d] \in DOMAIN rcs /\ exports[d] # NoRc
    BY <1>1, <1>4
  <2>2. exports[d] # exports[e]
    BY <2>1 DEF TableOK, ExportTableOK
  <2> QED BY <1>2, <2>1, <2>2
<1>7. \A c, d \in Ids : exports'[c] # NoRc /\ exports'[d] # NoRc
        /\ rcs'[exports'[c]].obj = rcs'[exports'[d]].obj => c = d
  BY <1>6 DEF TableOK, ExportTableOK
<1>8. Range(freeIds') = {d \in Ids : d < nextId' /\ exports'[d] = NoRc}
  BY <1>1, <1>3, <1>4 DEF TableOK, ExportTableOK
<1>9. \A d \in Ids : IF exports'[d] = NoRc THEN wireRefs'[d] = 0
                     ELSE d < nextId' /\ wireRefs'[d] > 0 /\ rcs'[exports'[d]].refs > 0
  BY <1>1, <1>4, <1>6 DEF TableOK, ExportTableOK
<1> QED BY <1>2, <1>3, <1>5, <1>7, <1>8, <1>9 DEF TableOK, ExportTableOK

\* Conn.releaseExport, whatever number of references is released.
LEMMA ReleaseExportKeepsTable ==
  ASSUME TableOK, NEW e \in Ids, NEW n \in Nat, releaseExport(e, n)
  PROVE  TableOK' /\ DOMAIN rcs' = DOMAIN rcs
<1>1. CASE exports[e] = NoRc
  BY <1>1 DEF releaseExport, tableVars, TableOK, TableTypeOK, ExportTableOK
<1>2. CASE exports[e] # NoRc /\ wireRefs[e] > n
  <2>1. /\ wireRefs' = [wireRefs EXCEPT ![e] = @ - n]
        /\ UNCHANGED <<nextId, freeIds, exports, rcs, disposed>>
    BY <1>2 DEF releaseExport
  <2>2. /\ wireRefs \in [Ids -> Nat] /\ wireRefs' \in [Ids -> Nat] /\ wireRefs'[e] > 0
        /\ \A d \in Ids : d # e => wireRefs'[d] = wireRefs[d]
    BY <1>2, <2>1 DEF TableOK, TableTypeOK
  <2>3. TableTypeOK'
    BY <2>1, <2>2 DEF TableOK, TableTypeOK
  <2>4. ExportTableOK'
    BY <1>2, <2>1, <2>2 DEF TableOK, ExportTableOK
  <2> QED BY <2>1, <2>3, <2>4 DEF TableOK
<1>3. CASE exports[e] # NoRc /\ ~ wireRefs[e] > n
  <2>1. /\ wireRefs' = [wireRefs EXCEPT ![e] = 0]
        /\ Decref({exports[e]})
        /\ exports' = [exports EXCEPT ![e] = NoRc]
        /\ freeIds' = Append(freeIds, e)
        /\ nextId' = nextId
    BY <1>3 DEF releaseExport
  <2> QED BY <1>3, <2>1, RemoveExportKeepsTable
<1> QED BY <1>1, <1>2, <1>3

\* A Ref of an export that came back is closed, or one is made: the entries
\* keep their own reference.
LEMMA BackRefsKeepTable ==
  ASSUME TableOK,
         rcs' \in Seq([obj : Objs, refs : Nat]), DOMAIN rcs' = DOMAIN rcs,
         \A r \in DOMAIN rcs : rcs'[r].obj = rcs[r].obj,
         \A e \in Ids : exports[e] # NoRc => rcs'[exports[e]].refs > 0,
         disposed' \subseteq Objs,
         UNCHANGED <<nextId, freeIds, exports, wireRefs>>
  PROVE  TableOK'
<1>1. \A e \in Ids : exports[e] # NoRc =>
        exports[e] \in DOMAIN rcs /\ rcs'[exports[e]].obj = rcs[exports[e]].obj
  BY DEF TableOK, TableTypeOK
<1>2. TableTypeOK'
  BY DEF TableOK, TableTypeOK
<1>3. ExportTableOK'
  BY <1>1 DEF TableOK, ExportTableOK
<1> QED BY <1>2, <1>3 DEF TableOK

\* shutdown(): every export is closed and its id freed.
LEMMA ShutdownKeepsTable ==
  ASSUME TableOK,
         Decref(Range(exports) \ {NoRc}),
         exports' = [e \in Ids |-> NoRc],
         wireRefs' = [e \in Ids |-> 0],
         NEW live, live = {e \in Ids : exports[e] # NoRc},
         NEW s \in [1..Cardinality(live) -> live], Range(s) = live,
         \A i, j \in DOMAIN s : i < j => s[i] < s[j],
         freeIds' = freeIds \o s,
         nextId' = nextId
  PROVE  TableOK' /\ DOMAIN rcs' = DOMAIN rcs
<1>1. IsFiniteSet(live) /\ Cardinality(live) \in Nat
  <2>1. IsFiniteSet(Ids)
    BY FS_Interval, CapTablesAssumption DEF Ids
  <2> QED BY <2>1, FS_Subset, FS_CardinalityType
<1>2. s \in Seq(Ids) /\ DOMAIN s = 1..Cardinality(live)
  <2>1. s \in [1..Cardinality(live) -> Ids]
    OBVIOUS
  <2> QED BY <1>1, <2>1, SeqOfFunction
<1>3. IsInjective(s)
  <2> SUFFICES ASSUME NEW i \in DOMAIN s, NEW j \in DOMAIN s, s[i] = s[j], i # j PROVE FALSE
    BY DEF IsInjective
  <2>1. i \in Nat /\ j \in Nat /\ s[i] \in Int
    BY <1>1, <1>2 DEF Ids
  <2>2. i < j \/ j < i
    BY <2>1
  <2>3. s[i] < s[j] \/ s[j] < s[i]
    BY <2>2
  <2> QED BY <2>1, <2>3
<1>4. freeIds \in Seq(Ids) /\ IsInjective(freeIds) /\ Range(freeIds) \cap Range(s) = {}
  BY DEF TableOK, TableTypeOK, ExportTableOK
<1>5. /\ freeIds' \in Seq(Ids) /\ IsInjective(freeIds')
      /\ Range(freeIds') = Range(freeIds) \cup live
  BY <1>2, <1>3, <1>4, RangeOfConcat
<1>6. Range(exports) \ {NoRc} \in SUBSET DOMAIN rcs
      /\ \A r \in Range(exports) \ {NoRc} : rcs[r].refs > 0
  BY DEF Range, TableOK, TableTypeOK, ExportTableOK
<1>7. rcs' \in Seq([obj : Objs, refs : Nat]) /\ DOMAIN rcs' = DOMAIN rcs /\ disposed' \subseteq Objs
  BY <1>6, DecrefKeepsRcs DEF TableOK
<1>8. TableTypeOK'
  BY <1>5, <1>7 DEF TableOK, TableTypeOK
<1>9. \A d \in Ids : d < nextId <=> d \in Range(freeIds) \/ d \in live
  BY DEF TableOK, ExportTableOK
<1>10. Range(freeIds') = {d \in Ids : d < nextId' /\ exports'[d] = NoRc}
  <2>1. Range(freeIds) \subseteq Ids
    BY <1>4, RangeIsElements
  <2> QED BY <1>5, <1>9, <2>1
<1>11. ExportTableOK'
  BY <1>5, <1>10 DEF ExportTableOK
<1> QED BY <1>7, <1>8, <1>11 DEF TableOK

-----------------------------------------------------------------------------
(* The type invariant and the export table, with every fault.              *)

\* CapInv is TypeOK and ExportTableOK, and what the messages carry.
LEMMA CapInvImplies == CapInv => TypeOK /\ ExportTableOK
<1> SUFFICES ASSUME CapInv PROVE TypeOK
  BY DEF CapInv, TableOK
<1>1. imports \in [Ids -> [refs : Nat, local : Nat, rc : {NoRc} \cup DOMAIN rcs]]
  BY DEF CapInv, PeersTypeOK, ImportsKnown, KnownRc
<1>2. \A m \in Range(toHolder) : m \in HolderMessage
  BY RangeIsElements DEF CapInv, MessagesOK
<1>3. \A m \in Range(toHost) : m \in HostMessage
  BY RangeIsElements DEF CapInv, MessagesOK
<1> QED BY <1>1, <1>2, <1>3
        DEF CapInv, TableOK, TableTypeOK, PeersTypeOK, TypeOK, HolderMessage, HostMessage

\* Conn.initMain makes the first entry.
LEMMA InitCapInv == Init => CapInv
<1> SUFFICES ASSUME Init PROVE CapInv
  OBVIOUS
<1> USE DEF NoRc
<1>1. 0 \in Ids /\ MaxExport \in Nat /\ Main \in Objs
  BY CapTablesAssumption DEF Ids
<1>2. /\ rcs \in Seq([obj : Objs, refs : Nat]) /\ Len(rcs) = 1 /\ DOMAIN rcs = {1}
      /\ rcs[1].refs = 1
  BY <1>1 DEF Init
<1>3. freeIds = <<>> /\ freeIds \in Seq(Ids) /\ Range(freeIds) = {} /\ IsInjective(freeIds)
  BY RangeOfEmpty, EmptySeq DEF Init
<1>4. TableTypeOK
  BY <1>1, <1>2, <1>3 DEF Init, TableTypeOK
<1>5. \A e \in Ids : e < nextId /\ exports[e] = NoRc <=> FALSE
  BY <1>1 DEF Init, Ids
<1>6. ExportTableOK
  BY <1>1, <1>2, <1>3, <1>5 DEF Init, ExportTableOK
<1>7. PeersTypeOK /\ ImportsKnown
  BY CapTablesAssumption DEF Init, PeersTypeOK, ImportsKnown, KnownRc, NoImport
<1>8. MessagesOK
  BY RangeOfEmpty, EmptySeq DEF Init, MessagesOK
<1> QED BY <1>4, <1>6, <1>7, <1>8 DEF CapInv, TableOK

\* What the messages say stays true when RefCounts and parameters are added,
\* and messages that say it are sent.
LEMMA MessagesStayOK ==
  ASSUME CapInv, DOMAIN rcs \subseteq DOMAIN rcs',
         \A q \in Questions : paramCap[q] # -1 => paramCap'[q] = paramCap[q],
         toHolder' \in Seq(HolderMessage), toHost' \in Seq(HostMessage),
         \A m \in Range(toHolder') : m \in Range(toHolder) \/
           (m.rc \in DOMAIN rcs' \cup {NoRc}
              /\ (m.type = "call" => m.question \in Questions /\ paramCap'[m.question] = m.id)),
         \A m \in Range(toHost') : m \in Range(toHost) \/
           (m.type = "returnReleasing" => m.question \in Questions /\ paramCap'[m.question] = m.id)
  PROVE  MessagesOK'
<1>1. \A r : KnownRc(r) => r \in DOMAIN rcs' \cup {NoRc}
  BY DEF KnownRc
<1>2. /\ \A m \in Range(toHolder) : m \in HolderMessage
      /\ \A m \in Range(toHost) : m \in HostMessage
  BY RangeIsElements DEF CapInv, MessagesOK
<1>3. /\ \A m \in Range(toHolder) : m.id # -1
      /\ \A m \in Range(toHost) : m.id # -1
  BY <1>2 DEF HolderMessage, HostMessage, Ids
<1>4. \A m \in Range(toHolder') :
        /\ m.rc \in DOMAIN rcs' \cup {NoRc}
        /\ m.type = "call" => m.question \in Questions /\ paramCap'[m.question] = m.id
  BY <1>1, <1>3 DEF CapInv, MessagesOK
<1>5. \A m \in Range(toHost') :
        m.type = "returnReleasing" => m.question \in Questions /\ paramCap'[m.question] = m.id
  BY <1>3 DEF CapInv, MessagesOK
<1> QED BY <1>4, <1>5 DEF MessagesOK, KnownRc

\* Imports are of RefCounts that stay.
LEMMA ImportsStayKnown ==
  ASSUME ImportsKnown, DOMAIN rcs \subseteq DOMAIN rcs', imports' = imports
  PROVE  ImportsKnown'
BY DEF ImportsKnown, KnownRc

\* The message that arrives, and those that are left.
LEMMA ArrivesAtHost ==
  ASSUME CapInv, NEW m \in Range(toHost), ArrivedAtHost(m)
  PROVE  /\ m \in HostMessage /\ m = toHost[1] /\ toHost # <<>> /\ toHost' = Tail(toHost)
         /\ toHost' \in Seq(HostMessage) /\ Range(toHost') \subseteq Range(toHost)
         /\ m.type = "returnReleasing" => paramCap[m.question] = m.id
<1>1. toHost \in Seq(HostMessage) /\ toHost # <<>> /\ m = Head(toHost) /\ toHost' = Tail(toHost)
  BY DEF CapInv, MessagesOK, ArrivedAtHost
<1>2. m \in HostMessage /\ toHost' \in Seq(HostMessage) /\ Range(toHost') \subseteq Range(toHost)
  BY <1>1, RangeOfTail
<1>3. m = toHost[1]
  BY <1>1, HeadTailProperties
<1>4. m.type = "returnReleasing" => paramCap[m.question] = m.id
  BY DEF CapInv, MessagesOK
<1> QED BY <1>1, <1>2, <1>3, <1>4

LEMMA ArrivesAtHolder ==
  ASSUME CapInv, NEW m \in Range(toHolder), ArrivedAtHolder(m)
  PROVE  /\ m \in HolderMessage /\ m = toHolder[1] /\ toHolder # <<>> /\ toHolder' = Tail(toHolder)
         /\ toHolder' \in Seq(HolderMessage) /\ Range(toHolder') \subseteq Range(toHolder)
         /\ m.rc \in {NoRc} \cup DOMAIN rcs
         /\ m.type = "call" => m.question \in Questions
<1>1. toHolder \in Seq(HolderMessage) /\ toHolder # <<>> /\ m = Head(toHolder) /\ toHolder' = Tail(toHolder)
  BY DEF CapInv, MessagesOK, ArrivedAtHolder
<1>2. m \in HolderMessage /\ toHolder' \in Seq(HolderMessage) /\ Range(toHolder') \subseteq Range(toHolder)
  BY <1>1, RangeOfTail
<1>3. m = toHolder[1]
  BY <1>1, HeadTailProperties
<1>4. m.rc \in {NoRc} \cup DOMAIN rcs /\ (m.type = "call" => m.question \in Questions)
  BY DEF CapInv, MessagesOK, KnownRc
<1> QED BY <1>1, <1>2, <1>3, <1>4

\* A message of the host that carries an export it has just counted.
LEMMA HostIntroduces ==
  ASSUME CapInv, NEW o \in Objs, NEW e \in Ids, AddExport(o, e),
         NEW t \in {"call", "results"}, NEW q \in Questions \cup {NoQuestion},
         t = "call" => q \in Questions /\ paramCap'[q] = e,
         paramCap' \in [Questions -> Ids \cup {-1}],
         \A p \in Questions : paramCap[p] # -1 => paramCap'[p] = paramCap[p],
         running' \in Nat, hostOpen' \in BOOLEAN,
         toHolder' = Append(toHolder, ToHolder(t, e, exports'[e], q)),
         toHost' \in Seq(HostMessage), Range(toHost') \subseteq Range(toHost),
         UNCHANGED holderVars
  PROVE  CapInv'
<1> DEFINE m == ToHolder(t, e, exports'[e], q)
<1>1. /\ TableOK' /\ DOMAIN rcs \subseteq DOMAIN rcs'
      /\ exports'[e] # NoRc /\ exports'[e] \in DOMAIN rcs'
  BY AddExportKeepsTable DEF CapInv
<1>2. exports'[e] \in Nat
  BY <1>1, LenProperties DEF TableOK, TableTypeOK
<1>3. m \in HolderMessage /\ m.rc = exports'[e] /\ m.type = t /\ m.question = q /\ m.id = e
  BY <1>2 DEF ToHolder, HolderMessage
<1> HIDE DEF m
<1>4. toHolder' \in Seq(HolderMessage) /\ Range(toHolder') = Range(toHolder) \cup {m}
  <2>1. toHolder \in Seq(HolderMessage) /\ toHolder' = Append(toHolder, m)
    BY DEF CapInv, MessagesOK, m
  <2> QED BY <1>3, <2>1, RangeOfAppend
<1>5. MessagesOK'
  <2>1. \A x \in Range(toHolder') : x \in Range(toHolder) \/
          (x.rc \in DOMAIN rcs' \cup {NoRc}
             /\ (x.type = "call" => x.question \in Questions /\ paramCap'[x.question] = x.id))
    BY <1>1, <1>3, <1>4
  <2>2. \A x \in Range(toHost') : x \in Range(toHost)
    OBVIOUS
  <2> QED BY <1>1, <1>4, <2>1, <2>2, MessagesStayOK
<1>6. ImportsKnown'
  BY <1>1, ImportsStayKnown DEF holderVars, CapInv
<1>7. PeersTypeOK'
  BY DEF CapInv, PeersTypeOK, holderVars
<1> QED BY <1>1, <1>5, <1>6, <1>7 DEF CapInv

\* A step of the host that only changes the table and takes a message.
LEMMA HostKeepsTable ==
  ASSUME CapInv, TableOK', DOMAIN rcs' = DOMAIN rcs, paramCap' = paramCap,
         running' \in Nat, hostOpen' \in BOOLEAN, UNCHANGED <<holderVars, toHolder>>,
         toHost' \in Seq(HostMessage), Range(toHost') \subseteq Range(toHost)
  PROVE  CapInv'
<1>1. MessagesOK'
  BY DEF CapInv, MessagesOK, KnownRc
<1>2. ImportsKnown' /\ PeersTypeOK'
  BY DEF CapInv, ImportsKnown, KnownRc, PeersTypeOK, holderVars
<1> QED BY <1>1, <1>2 DEF CapInv

\* ImportClient.call and Question.pipelineCall, AnswerEntry.fulfill.
LEMMA PassingKeepsCapInv ==
  ASSUME CapInv, NEW o \in Objs, AnswerWith(o) \/ \E q \in Questions : PassParam(q, o)
  PROVE  CapInv'
<1>1. running \in Nat /\ hostOpen \in BOOLEAN /\ paramCap \in [Questions -> Ids \cup {-1}]
      /\ toHost \in Seq(HostMessage)
  BY DEF CapInv, PeersTypeOK, MessagesOK
<1>2. ASSUME NEW q \in Questions, PassParam(q, o) PROVE CapInv'
  <2>1. PICK e \in Ids : /\ AddExport(o, e)
                         /\ paramCap' = [paramCap EXCEPT ![q] = e]
                         /\ toHolder' = Append(toHolder, ToHolder("call", e, exports'[e], q))
    BY <1>2 DEF PassParam
  <2>2. /\ paramCap' \in [Questions -> Ids \cup {-1}] /\ paramCap'[q] = e
        /\ \A p \in Questions : paramCap[p] # -1 => paramCap'[p] = paramCap[p]
    BY <1>1, <1>2, <2>1 DEF PassParam
  <2> QED BY <1>1, <1>2, <2>1, <2>2, HostIntroduces DEF PassParam
<1>3. CASE AnswerWith(o)
  <2>1. PICK e \in Ids : /\ AddExport(o, e)
                         /\ toHolder' = Append(toHolder, ToHolder("results", e, exports'[e], NoQuestion))
    BY <1>3 DEF AnswerWith
  <2>2. running' \in Nat
    BY <1>1, <1>3 DEF AnswerWith
  <2> QED BY <1>1, <1>3, <2>1, <2>2, HostIntroduces DEF AnswerWith
<1> QED BY <1>2, <1>3

\* Code of the host closes a Ref; the object is closed with its last one.
LEMMA CloseBackRefKeepsCapInv ==
  ASSUME CapInv, NEW r \in DOMAIN rcs, CloseBackRef(r)
  PROVE  CapInv'
<1>1. rcs[r].refs > 0 /\ (r \in Range(exports) => rcs[r].refs > 1)
  <2>1. rcs[r].refs \in Nat
    BY RefCountsTyped DEF CapInv, TableOK
  <2> QED BY <2>1 DEF CloseBackRef
<1>2. {r} \in SUBSET DOMAIN rcs /\ \A s \in {r} : rcs[s].refs > 0
  BY <1>1
<1>3. /\ rcs' \in Seq([obj : Objs, refs : Nat])
      /\ DOMAIN rcs' = DOMAIN rcs
      /\ \A s \in DOMAIN rcs :
           /\ rcs'[s].obj = rcs[s].obj
           /\ rcs'[s].refs = IF s \in {r} THEN rcs[s].refs - 1 ELSE rcs[s].refs
      /\ disposed' \subseteq Objs
  BY <1>2, DecrefKeepsRcs DEF CapInv, TableOK, CloseBackRef
<1>4. ASSUME NEW e \in Ids, exports[e] # NoRc PROVE rcs'[exports[e]].refs > 0
  <2>1. exports[e] \in DOMAIN rcs /\ exports[e] \in Range(exports) /\ rcs[exports[e]].refs > 0
    BY <1>4 DEF CapInv, TableOK, TableTypeOK, ExportTableOK, Range
  <2>2. rcs[r].refs \in Nat
    BY RefCountsTyped DEF CapInv, TableOK
  <2>3. CASE exports[e] = r
    BY <1>1, <1>3, <2>1, <2>2, <2>3
  <2>4. CASE exports[e] # r
    BY <1>3, <2>1, <2>4
  <2> QED BY <2>3, <2>4
<1>5. TableOK'
  BY <1>3, <1>4, BackRefsKeepTable DEF CapInv, CloseBackRef
<1>6. toHost \in Seq(HostMessage) /\ running \in Nat /\ hostOpen \in BOOLEAN
  BY DEF CapInv, MessagesOK, PeersTypeOK
<1> QED BY <1>3, <1>5, <1>6, HostKeepsTable DEF CloseBackRef

\* The handlers of the host (Conn.handleMessage).
LEMMA HostHandlesKeepsCapInv ==
  ASSUME CapInv, HostHandles
  PROVE  CapInv'
<1>1. /\ running \in Nat /\ hostOpen \in BOOLEAN /\ paramCap \in [Questions -> Ids \cup {-1}]
      /\ Main \in Objs /\ TableOK /\ toHolder \in Seq(HolderMessage)
  BY CapTablesAssumption DEF CapInv, PeersTypeOK, MessagesOK
<1>2. CASE HandleBootstrap
  <2>1. PICK m \in Range(toHost) : ArrivedAtHost(m)
    BY <1>2 DEF HandleBootstrap
  <2>2. PICK e \in Ids : /\ AddExport(Main, e)
                         /\ toHolder' = Append(toHolder, ToHolder("results", e, exports'[e], NoQuestion))
    BY <1>2 DEF HandleBootstrap
  <2>3. toHost' \in Seq(HostMessage) /\ Range(toHost') \subseteq Range(toHost)
    BY <2>1, ArrivesAtHost
  <2> QED BY <1>1, <1>2, <2>2, <2>3, HostIntroduces DEF HandleBootstrap
<1>3. CASE HandleCall
  <2>1. PICK m \in Range(toHost) : ArrivedAtHost(m)
    BY <1>3 DEF HandleCall
  <2>2. toHost' \in Seq(HostMessage) /\ Range(toHost') \subseteq Range(toHost)
    BY <2>1, ArrivesAtHost
  <2>3. TableOK' /\ rcs' = rcs /\ running' \in Nat
    BY <1>1, <1>3 DEF HandleCall, tableVars, TableOK, TableTypeOK, ExportTableOK
  <2> QED BY <1>1, <1>3, <2>2, <2>3, HostKeepsTable DEF HandleCall
<1>4. CASE HandleSentBack
  <2>1. PICK m \in Range(toHost) :
          /\ ArrivedAtHost(m) /\ exports[m.id] # NoRc
          /\ rcs' = [rcs EXCEPT ![exports[m.id]].refs = @ + 1]
    BY <1>4 DEF HandleSentBack
  <2>2. toHost' \in Seq(HostMessage) /\ Range(toHost') \subseteq Range(toHost) /\ m.id \in Ids
    BY <2>1, ArrivesAtHost DEF HostMessage
  <2> DEFINE r == exports[m.id]
             back == [rcs[r] EXCEPT !.refs = @ + 1]
  <2>3. /\ rcs \in Seq([obj : Objs, refs : Nat]) /\ DOMAIN rcs = 1..Len(rcs)
        /\ r \in 1..Len(rcs) /\ rcs[r] \in [obj : Objs, refs : Nat]
    BY <1>1, <2>1, <2>2, LenProperties, ElementOfSeq DEF TableOK, TableTypeOK
  <2>4. /\ back \in [obj : Objs, refs : Nat] /\ back.obj = rcs[r].obj /\ back.refs > 0
        /\ rcs' = [rcs EXCEPT ![r] = back]
    BY <2>1, <2>3
  <2> HIDE DEF r, back
  <2>5. /\ rcs' \in Seq([obj : Objs, refs : Nat]) /\ DOMAIN rcs' = DOMAIN rcs
        /\ \A s \in DOMAIN rcs : rcs'[s] = IF s = r THEN back ELSE rcs[s]
    BY <2>3, <2>4, ExceptSeq, LenProperties
  <2>6. \A e \in Ids : exports[e] # NoRc => rcs'[exports[e]].refs > 0
    BY <1>1, <2>4, <2>5 DEF TableOK, TableTypeOK, ExportTableOK
  <2>7. \A s \in DOMAIN rcs : rcs'[s].obj = rcs[s].obj
    BY <2>4, <2>5
  <2>8. disposed' \subseteq Objs
    BY <1>1, <1>4 DEF HandleSentBack, TableOK, TableTypeOK
  <2>9. TableOK'
    BY <1>1, <1>4, <2>5, <2>6, <2>7, <2>8, BackRefsKeepTable DEF HandleSentBack
  <2> QED BY <1>1, <1>4, <2>2, <2>5, <2>9, HostKeepsTable DEF HandleSentBack
<1>5. CASE HandleUnknownExport
  <2> DEFINE live == {e \in Ids : exports[e] # NoRc}
  <2>1. PICK m \in Range(toHost) :
          /\ ArrivedAtHost(m)
          /\ toHolder' = Append(toHolder, ToHolder("abort", m.id, NoRc, NoQuestion))
          /\ hostOpen' = FALSE
          /\ Decref(Range(exports) \ {NoRc})
          /\ exports' = [e \in Ids |-> NoRc]
          /\ wireRefs' = [e \in Ids |-> 0]
          /\ \E s \in [1..Cardinality(live) -> live] :
               /\ Range(s) = live
               /\ \A i, j \in DOMAIN s : i < j => s[i] < s[j]
               /\ freeIds' = freeIds \o s
          /\ UNCHANGED <<nextId, paramCap, running, holderVars>>
    BY <1>5 DEF HandleUnknownExport
  <2>2. /\ toHost' \in Seq(HostMessage) /\ Range(toHost') \subseteq Range(toHost)
        /\ m.id \in Ids
    BY <2>1, ArrivesAtHost DEF HostMessage
  <2>3. TableOK' /\ DOMAIN rcs' = DOMAIN rcs
    <3>1. PICK s \in [1..Cardinality(live) -> live] :
               /\ Range(s) = live
               /\ \A i, j \in DOMAIN s : i < j => s[i] < s[j]
               /\ freeIds' = freeIds \o s
      BY <2>1
    <3> QED BY <1>1, <2>1, <3>1, ShutdownKeepsTable
  <2> DEFINE a == ToHolder("abort", m.id, NoRc, NoQuestion)
  <2>4. a \in HolderMessage /\ a.type = "abort" /\ a.rc = NoRc
    BY <2>2 DEF ToHolder, HolderMessage, NoRc
  <2> HIDE DEF a
  <2>5. toHolder' \in Seq(HolderMessage) /\ Range(toHolder') = Range(toHolder) \cup {a}
    BY <1>1, <2>1, <2>4, RangeOfAppend DEF a
  <2>6. MessagesOK'
    <3>1. DOMAIN rcs \subseteq DOMAIN rcs' /\ paramCap' = paramCap
      BY <2>1, <2>3
    <3>2. \A x \in Range(toHolder') : x \in Range(toHolder) \/
            (x.rc \in DOMAIN rcs' \cup {NoRc}
               /\ (x.type = "call" => x.question \in Questions /\ paramCap'[x.question] = x.id))
      BY <2>4, <2>5
    <3> QED BY <2>2, <2>5, <3>1, <3>2, MessagesStayOK
  <2>7. ImportsKnown' /\ PeersTypeOK'
    BY <2>1, <2>3, ImportsStayKnown DEF CapInv, PeersTypeOK, holderVars
  <2> QED BY <2>3, <2>6, <2>7 DEF CapInv
<1>6. CASE HandleRelease
  <2>1. PICK m \in Range(toHost) : ArrivedAtHost(m) /\ releaseExport(m.id, m.count)
    BY <1>6 DEF HandleRelease
  <2>2. /\ toHost' \in Seq(HostMessage) /\ Range(toHost') \subseteq Range(toHost)
        /\ m.id \in Ids /\ m.count \in Nat
    BY <2>1, ArrivesAtHost DEF HostMessage
  <2>3. TableOK' /\ DOMAIN rcs' = DOMAIN rcs
    BY <1>1, <2>1, <2>2, ReleaseExportKeepsTable
  <2> QED BY <1>1, <1>6, <2>2, <2>3, HostKeepsTable DEF HandleRelease
<1>7. CASE HandleReturn
  <2>1. PICK m \in Range(toHost) :
          /\ ArrivedAtHost(m)
          /\ IF m.type = "returnReleasing" THEN releaseExport(paramCap[m.question], 1)
             ELSE UNCHANGED tableVars
    BY <1>7 DEF HandleReturn
  <2>2. /\ toHost' \in Seq(HostMessage) /\ Range(toHost') \subseteq Range(toHost)
        /\ m.id \in Ids /\ (m.type = "returnReleasing" => paramCap[m.question] = m.id)
    BY <2>1, ArrivesAtHost DEF HostMessage
  <2>3. TableOK' /\ DOMAIN rcs' = DOMAIN rcs
    <3>1. CASE m.type = "returnReleasing"
      BY <1>1, <2>1, <2>2, <3>1, ReleaseExportKeepsTable
    <3>2. CASE m.type # "returnReleasing"
      BY <1>1, <2>1, <3>2 DEF tableVars, TableOK, TableTypeOK, ExportTableOK
    <3> QED BY <3>1, <3>2
  <2> QED BY <1>1, <1>7, <2>2, <2>3, HostKeepsTable DEF HandleReturn
<1> QED BY <1>2, <1>3, <1>4, <1>5, <1>6, <1>7 DEF HostHandles

\* What the holder sends names no parameter to release, or one that was passed.
LEMMA HolderSendsKeepsMessages ==
  ASSUME CapInv, NEW m \in HostMessage,
         m.type = "returnReleasing" => m.question \in Questions /\ paramCap[m.question] = m.id,
         toHost' = Append(toHost, m),
         toHolder' \in Seq(HolderMessage), Range(toHolder') \subseteq Range(toHolder),
         UNCHANGED <<rcs, paramCap>>
  PROVE  MessagesOK'
<1>1. toHost \in Seq(HostMessage)
  BY DEF CapInv, MessagesOK
<1>2. toHost' \in Seq(HostMessage) /\ Range(toHost') = Range(toHost) \cup {m}
  BY <1>1, RangeOfAppend
<1>3. \A x \in Range(toHolder') : x \in Range(toHolder)
  OBVIOUS
<1>4. \A x \in Range(toHost') : x \in Range(toHost) \/
        (x.type = "returnReleasing" => x.question \in Questions /\ paramCap'[x.question] = x.id)
  BY <1>2
<1> QED BY <1>2, <1>3, <1>4, MessagesStayOK

\* Conn.addImport makes an entry of the import table.
LEMMA AddImportTyped ==
  ASSUME CapInv, NEW m \in Range(toHolder), ArrivedAtHolder(m), AddImport(m), rcs' = rcs
  PROVE  imports' \in [Ids -> [refs : Nat, local : Nat, rc : Nat]] /\ ImportsKnown'
<1>1. /\ m.id \in Ids /\ m.rc \in Nat /\ m.rc \in {NoRc} \cup DOMAIN rcs
      /\ imports \in [Ids -> [refs : Nat, local : Nat, rc : Nat]]
  BY ArrivesAtHolder DEF HolderMessage, CapInv, PeersTypeOK
<1> DEFINE old == imports[m.id]
           x == IF old.refs > 0
                THEN [refs |-> old.refs + 1, local |-> old.local + 1, rc |-> old.rc]
                ELSE [refs |-> 1, local |-> 1, rc |-> m.rc]
<1>2. old \in [refs : Nat, local : Nat, rc : Nat] /\ KnownRc(old.rc)
  BY <1>1 DEF CapInv, ImportsKnown
<1>3. imports' = [imports EXCEPT ![m.id] = x]
  BY <1>1 DEF AddImport
<1>4. x \in [refs : Nat, local : Nat, rc : Nat] /\ KnownRc(x.rc)
  <2>1. CASE old.refs > 0
    BY <1>2, <2>1
  <2>2. CASE ~ old.refs > 0
    BY <1>1, <2>2 DEF KnownRc
  <2> QED BY <2>1, <2>2
<1> HIDE DEF x
<1>5. imports' \in [Ids -> [refs : Nat, local : Nat, rc : Nat]]
  BY <1>1, <1>3, <1>4
<1>6. ASSUME NEW e \in Ids PROVE KnownRc(imports'[e].rc)
  BY <1>1, <1>3, <1>4, <1>6 DEF CapInv, ImportsKnown
<1> QED BY <1>5, <1>6 DEF ImportsKnown, KnownRc

\* The table is the host's: no step of the holder touches it.
LEMMA HolderLeavesTable ==
  ASSUME CapInv, UNCHANGED hostVars
  PROVE  /\ TableOK'
         /\ DOMAIN rcs' = DOMAIN rcs /\ UNCHANGED <<rcs, paramCap, running, hostOpen>>
         /\ imports' = imports => ImportsKnown'
BY DEF CapInv, hostVars, tableVars, TableOK, TableTypeOK, ExportTableOK, ImportsKnown, KnownRc

\* The handlers of the holder.
LEMMA HolderHandlesKeepsCapInv ==
  ASSUME CapInv, HolderHandles
  PROVE  CapInv'
<1>1. /\ PeersTypeOK /\ toHost \in Seq(HostMessage)
  BY DEF CapInv, MessagesOK
<1>2. CASE HandleResults \/ HandleParam
  <2>1. PICK m \in Range(toHolder) :
          /\ ArrivedAtHolder(m) /\ AddImport(m)
          /\ serving' = serving \/ (serving' = serving \cup {m.question} /\ m.type = "call")
          /\ UNCHANGED <<hostVars, asks, holderOpen, unknown, toHost>>
    BY <1>2 DEF HandleResults, HandleParam
  <2>2. /\ toHolder' \in Seq(HolderMessage) /\ Range(toHolder') \subseteq Range(toHolder)
        /\ m.type = "call" => m.question \in Questions
    BY <2>1, ArrivesAtHolder
  <2>3. TableOK' /\ UNCHANGED <<rcs, paramCap, running, hostOpen>>
    BY <2>1, HolderLeavesTable
  <2>4. imports' \in [Ids -> [refs : Nat, local : Nat, rc : Nat]] /\ ImportsKnown'
    BY <2>1, <2>3, AddImportTyped
  <2>5. PeersTypeOK'
    BY <1>1, <2>1, <2>2, <2>3, <2>4 DEF PeersTypeOK
  <2>6. MessagesOK'
    BY <2>1, <2>2, <2>3 DEF CapInv, MessagesOK, KnownRc
  <2> QED BY <2>3, <2>4, <2>5, <2>6 DEF CapInv
<1>3. CASE HandleParamUnimplemented
  <2>1. PICK m \in Range(toHolder) :
          /\ ArrivedAtHolder(m) /\ AddImport(m) /\ m.type = "call"
          /\ toHost' = Append(toHost, ToHost("returnReleasing", m.id, m.rc, 0, m.question))
          /\ unknown' = [unknown EXCEPT ![m.id] = @ + 1]
          /\ UNCHANGED <<hostVars, serving, asks, holderOpen>>
    BY <1>3 DEF HandleParamUnimplemented
  <2>2. /\ toHolder' \in Seq(HolderMessage) /\ Range(toHolder') \subseteq Range(toHolder)
        /\ m.id \in Ids /\ m.rc \in Nat /\ m.question \in Questions /\ paramCap[m.question] = m.id
    BY <2>1, ArrivesAtHolder DEF HolderMessage, CapInv, MessagesOK
  <2>3. TableOK' /\ UNCHANGED <<rcs, paramCap, running, hostOpen>>
    BY <2>1, HolderLeavesTable
  <2>4. imports' \in [Ids -> [refs : Nat, local : Nat, rc : Nat]] /\ ImportsKnown'
    BY <2>1, <2>3, AddImportTyped
  <2>5. unknown' \in [Ids -> Nat]
    BY <1>1, <2>1, <2>2 DEF PeersTypeOK
  <2>6. PeersTypeOK'
    BY <1>1, <2>1, <2>3, <2>4, <2>5 DEF PeersTypeOK
  <2> DEFINE a == ToHost("returnReleasing", m.id, m.rc, 0, m.question)
  <2>7. a \in HostMessage /\ a.question = m.question /\ a.id = m.id
    BY <2>2 DEF ToHost, HostMessage
  <2> HIDE DEF a
  <2>8. MessagesOK'
    BY <2>1, <2>2, <2>3, <2>7, HolderSendsKeepsMessages DEF a
  <2> QED BY <2>3, <2>4, <2>6, <2>8 DEF CapInv
<1>4. CASE HandleAbort
  <2>1. PICK m \in Range(toHolder) :
          /\ ArrivedAtHolder(m)
          /\ holderOpen' = FALSE
          /\ imports' = [e \in Ids |-> NoImport]
          /\ UNCHANGED <<hostVars, serving, asks, unknown, toHost>>
    BY <1>4 DEF HandleAbort
  <2>2. toHolder' \in Seq(HolderMessage) /\ Range(toHolder') \subseteq Range(toHolder)
    BY <2>1, ArrivesAtHolder
  <2>3. TableOK' /\ UNCHANGED <<rcs, paramCap, running, hostOpen>>
    BY <2>1, HolderLeavesTable
  <2>4. PeersTypeOK' /\ ImportsKnown'
    BY <1>1, <2>1, <2>3 DEF PeersTypeOK, ImportsKnown, KnownRc, NoImport, NoRc
  <2>5. MessagesOK'
    BY <2>1, <2>2, <2>3 DEF CapInv, MessagesOK, KnownRc
  <2> QED BY <2>3, <2>4, <2>5 DEF CapInv
<1> QED BY <1>2, <1>3, <1>4 DEF HolderHandles

\* A message of the holder's code: nothing but its own state changes.
LEMMA HolderSendsKeepsCapInv ==
  ASSUME CapInv, NEW m \in HostMessage, m.type # "returnReleasing",
         toHost' = Append(toHost, m),
         serving' \subseteq serving, asks' \in 0..MaxAsks,
         imports' \in [Ids -> [refs : Nat, local : Nat, rc : Nat]],
         \A e \in Ids : imports'[e].rc \in {NoRc, imports[e].rc},
         UNCHANGED <<hostVars, holderOpen, unknown, toHolder>>
  PROVE  CapInv'
<1>1. TableOK' /\ UNCHANGED <<rcs, paramCap, running, hostOpen>>
  BY HolderLeavesTable
<1>2. MessagesOK'
  <2>1. toHolder' \in Seq(HolderMessage) /\ Range(toHolder') \subseteq Range(toHolder)
    BY DEF CapInv, MessagesOK
  <2> QED BY <1>1, <2>1, HolderSendsKeepsMessages
<1>3. ImportsKnown'
  BY <1>1 DEF CapInv, ImportsKnown, KnownRc
<1>4. PeersTypeOK'
  BY <1>1 DEF CapInv, PeersTypeOK
<1> QED BY <1>1, <1>2, <1>3, <1>4 DEF CapInv

\* Returns, calls and closed references of the holder.
LEMMA HolderActsKeepsCapInv ==
  ASSUME CapInv,
         \/ \E q \in Questions : ReturnCall(q)
         \/ \E e \in Ids : CloseRef(e) \/ UseImport(e, "call") \/ UseImport(e, "sentBack")
         \/ Bootstrap
  PROVE  CapInv'
<1>1. /\ imports \in [Ids -> [refs : Nat, local : Nat, rc : Nat]]
      /\ serving \subseteq Questions /\ asks \in 0..MaxAsks /\ MaxAsks \in Nat
      /\ 0 \in Ids /\ NoRc \in Nat /\ 0 \in Nat
  BY CapTablesAssumption DEF CapInv, PeersTypeOK, Ids, NoRc
<1>2. ASSUME NEW q \in Questions, ReturnCall(q) PROVE CapInv'
  <2> DEFINE m == ToHost("return", 0, NoRc, 0, q)
  <2>1. m \in HostMessage /\ m.type = "return"
    BY <1>1 DEF ToHost, HostMessage
  <2>2. /\ toHost' = Append(toHost, m) /\ serving' \subseteq serving
        /\ UNCHANGED <<hostVars, imports, asks, holderOpen, unknown, toHolder>>
    BY <1>2 DEF ReturnCall
  <2> HIDE DEF m
  <2> QED BY <1>1, <2>1, <2>2, HolderSendsKeepsCapInv
<1>3. ASSUME NEW e \in Ids, CloseRef(e) PROVE CapInv'
  <2>1. CASE imports[e].local > 1
    <3>1. /\ imports' = [imports EXCEPT ![e].local = @ - 1]
          /\ UNCHANGED <<hostVars, serving, asks, holderOpen, unknown, toHolder, toHost>>
      BY <1>3, <2>1 DEF CloseRef
    <3>2. /\ imports' \in [Ids -> [refs : Nat, local : Nat, rc : Nat]]
          /\ \A d \in Ids : imports'[d].rc = imports[d].rc
      BY <1>1, <2>1, <3>1
    <3>3. TableOK' /\ UNCHANGED <<rcs, paramCap, running, hostOpen>>
      BY <3>1, HolderLeavesTable
    <3>4. PeersTypeOK' /\ MessagesOK' /\ ImportsKnown'
      BY <3>1, <3>2, <3>3 DEF CapInv, PeersTypeOK, MessagesOK, ImportsKnown, KnownRc
    <3> QED BY <3>3, <3>4 DEF CapInv
  <2>2. CASE ~ imports[e].local > 1
    <3> DEFINE m == ToHost("release", e, imports[e].rc, imports[e].refs, NoQuestion)
    <3>1. m \in HostMessage /\ m.type = "release"
      BY <1>1 DEF ToHost, HostMessage
    <3>2. /\ toHost' = Append(toHost, m)
          /\ imports' = [imports EXCEPT ![e] = NoImport]
          /\ UNCHANGED <<hostVars, serving, asks, holderOpen, unknown, toHolder>>
      BY <1>3, <2>2 DEF CloseRef
    <3>3. /\ imports' \in [Ids -> [refs : Nat, local : Nat, rc : Nat]]
          /\ \A d \in Ids : imports'[d].rc \in {NoRc, imports[d].rc}
      BY <1>1, <3>2 DEF NoImport
    <3> HIDE DEF m
    <3> QED BY <1>1, <3>1, <3>2, <3>3, HolderSendsKeepsCapInv
  <2> QED BY <2>1, <2>2
<1>4. ASSUME NEW e \in Ids, NEW t \in {"call", "sentBack"}, UseImport(e, t) PROVE CapInv'
  <2> DEFINE m == ToHost(t, e, imports[e].rc, 0, NoQuestion)
  <2>1. m \in HostMessage /\ m.type = t
    BY <1>1 DEF ToHost, HostMessage
  <2>2. /\ toHost' = Append(toHost, m) /\ asks' \in 0..MaxAsks
        /\ UNCHANGED <<hostVars, imports, serving, holderOpen, unknown, toHolder>>
    BY <1>1, <1>4 DEF UseImport
  <2> HIDE DEF m
  <2> QED BY <1>1, <2>1, <2>2, HolderSendsKeepsCapInv
<1>5. ASSUME Bootstrap PROVE CapInv'
  <2> DEFINE m == ToHost("bootstrap", 0, NoRc, 0, NoQuestion)
  <2>1. m \in HostMessage /\ m.type = "bootstrap"
    BY <1>1 DEF ToHost, HostMessage
  <2>2. /\ toHost' = Append(toHost, m) /\ asks' \in 0..MaxAsks
        /\ UNCHANGED <<hostVars, imports, serving, holderOpen, unknown, toHolder>>
    BY <1>1, <1>5 DEF Bootstrap
  <2> HIDE DEF m
  <2> QED BY <1>1, <2>1, <2>2, HolderSendsKeepsCapInv
<1> QED BY <1>2, <1>3, <1>4, <1>5

\* Every step keeps the types and the export table.
LEMMA NextKeepsCapInv == CapInv /\ [Next]_vars => CapInv'
<1> SUFFICES ASSUME CapInv, [Next]_vars PROVE CapInv'
  OBVIOUS
<1>1. CASE HostHandles
  BY <1>1, HostHandlesKeepsCapInv
<1>2. CASE HolderHandles
  BY <1>2, HolderHandlesKeepsCapInv
<1>3. ASSUME NEW q \in Questions, NEW o \in Objs, PassParam(q, o) PROVE CapInv'
  BY <1>3, PassingKeepsCapInv
<1>4. ASSUME NEW o \in Objs, AnswerWith(o) PROVE CapInv'
  BY <1>4, PassingKeepsCapInv
<1>5. CASE AnswerPlain
  <2>1. TableOK' /\ rcs' = rcs
    BY <1>5 DEF AnswerPlain, tableVars, CapInv, TableOK, TableTypeOK, ExportTableOK
  <2>2. running' \in Nat /\ hostOpen' \in BOOLEAN /\ toHost' \in Seq(HostMessage)
    BY <1>5 DEF AnswerPlain, CapInv, PeersTypeOK, MessagesOK
  <2> QED BY <1>5, <2>1, <2>2, HostKeepsTable DEF AnswerPlain
<1>6. ASSUME NEW r \in DOMAIN rcs, CloseBackRef(r) PROVE CapInv'
  BY <1>6, CloseBackRefKeepsCapInv
<1>7. CASE \/ \E q \in Questions : ReturnCall(q)
           \/ \E e \in Ids : CloseRef(e) \/ UseImport(e, "call") \/ UseImport(e, "sentBack")
           \/ Bootstrap
  BY <1>7, HolderActsKeepsCapInv
<1>8. CASE UNCHANGED vars
  BY <1>8 DEF vars, CapInv, TableOK, TableTypeOK, ExportTableOK, PeersTypeOK, MessagesOK,
              ImportsKnown, KnownRc
<1> QED BY <1>1, <1>2, <1>3, <1>4, <1>5, <1>6, <1>7, <1>8 DEF Next

\* The strengthened type invariant, with every fault.
LEMMA CapInvHolds == Spec => []CapInv
BY InitCapInv, NextKeepsCapInv, PTL DEF Spec

\* The tables, the counters and the messages of both vats keep their types,
\* and the bound on the export ids is never exceeded (IDGen.next).
THEOREM CapTablesTypeCorrect == Spec => []TypeOK
<1>1. CapInv => TypeOK
  BY CapInvImplies
<1> QED BY <1>1, CapInvHolds, PTL

\* Conn.addExport and Conn.releaseExport: an object has one entry, no id is both
\* free and in use or lost, and an entry holds a reference of its RefCount and
\* one of the peer's at least: after double releases, releases of ids that
\* are gone, capabilities that come back, and shutdown().
THEOREM ExportTableIntegrity == Spec => []ExportTableOK
<1>1. CapInv => ExportTableOK
  BY CapInvImplies
<1> QED BY <1>1, CapInvHolds, PTL

-----------------------------------------------------------------------------
(* What is in flight, counted.                                             *)

\* Descriptors join a queue at its end and leave it at its front.
LEMMA IntroducedInSteps ==
  ASSUME NEW s \in Seq(HolderMessage), NEW e \in Ids
  PROVE  /\ IntroducedIn(s, e) \in Nat
         /\ \A i \in DOMAIN s : IntroducedBy(s[i], e) <= IntroducedIn(s, e)
         /\ \A m \in HolderMessage :
              IntroducedIn(Append(s, m), e) = IntroducedIn(s, e) + IntroducedBy(m, e)
         /\ s # <<>> => IntroducedIn(s, e) = IntroducedBy(Head(s), e) + IntroducedIn(Tail(s), e)
<1> DEFINE f == [m \in HolderMessage |-> IntroducedBy(m, e)]
<1>1. f \in [HolderMessage -> Nat]
  BY DEF IntroducedBy
<1>2. \A m \in HolderMessage : f[m] = IntroducedBy(m, e)
  OBVIOUS
<1>3. ASSUME NEW t \in Seq(HolderMessage) PROVE IntroducedIn(t, e) = Total(t, f)
  <2>1. \A i \in DOMAIN t : t[i] \in HolderMessage
    BY ElementOfSeq, LenProperties
  <2>2. [i \in DOMAIN t |-> IntroducedBy(t[i], e)] = [i \in DOMAIN t |-> f[t[i]]]
    BY <2>1
  <2> QED BY <2>2 DEF IntroducedIn, Total
<1> HIDE DEF f
<1>4. DOMAIN s = 1..Len(s) /\ \A i \in DOMAIN s : s[i] \in HolderMessage
  BY ElementOfSeq, LenProperties
<1>5. \A m \in HolderMessage : Append(s, m) \in Seq(HolderMessage)
  BY AppendProperties
<1>6. s # <<>> => Head(s) \in HolderMessage /\ Tail(s) \in Seq(HolderMessage)
  BY HeadTailProperties
<1>7. /\ Total(s, f) \in Nat
      /\ \A k \in 1..Len(s) : f[s[k]] <= Total(s, f)
      /\ \A m \in HolderMessage : Total(Append(s, m), f) = Total(s, f) + f[m]
      /\ s # <<>> => Total(s, f) = f[Head(s)] + Total(Tail(s), f)
  BY ONLY <1>1, s \in Seq(HolderMessage), TotalInSteps
<1> QED BY <1>2, <1>3, <1>4, <1>5, <1>6, <1>7

\* ... and so do Releases.
LEMMA ReleasedInSteps ==
  ASSUME NEW s \in Seq(HostMessage), NEW e \in Ids
  PROVE  /\ ReleasedIn(s, e) \in Nat
         /\ \A i \in DOMAIN s : ReleasedBy(s[i], e) <= ReleasedIn(s, e)
         /\ \A m \in HostMessage :
              ReleasedIn(Append(s, m), e) = ReleasedIn(s, e) + ReleasedBy(m, e)
         /\ s # <<>> => ReleasedIn(s, e) = ReleasedBy(Head(s), e) + ReleasedIn(Tail(s), e)
<1> DEFINE f == [m \in HostMessage |-> ReleasedBy(m, e)]
<1>1. f \in [HostMessage -> Nat]
  BY DEF ReleasedBy, HostMessage
<1>2. \A m \in HostMessage : f[m] = ReleasedBy(m, e)
  OBVIOUS
<1>3. ASSUME NEW t \in Seq(HostMessage) PROVE ReleasedIn(t, e) = Total(t, f)
  <2>1. \A i \in DOMAIN t : t[i] \in HostMessage
    BY ElementOfSeq, LenProperties
  <2>2. [i \in DOMAIN t |-> ReleasedBy(t[i], e)] = [i \in DOMAIN t |-> f[t[i]]]
    BY <2>1
  <2> QED BY <2>2 DEF ReleasedIn, Total
<1> HIDE DEF f
<1>4. DOMAIN s = 1..Len(s) /\ \A i \in DOMAIN s : s[i] \in HostMessage
  BY ElementOfSeq, LenProperties
<1>5. \A m \in HostMessage : Append(s, m) \in Seq(HostMessage)
  BY AppendProperties
<1>6. s # <<>> => Head(s) \in HostMessage /\ Tail(s) \in Seq(HostMessage)
  BY HeadTailProperties
<1>7. /\ Total(s, f) \in Nat
      /\ \A k \in 1..Len(s) : f[s[k]] <= Total(s, f)
      /\ \A m \in HostMessage : Total(Append(s, m), f) = Total(s, f) + f[m]
      /\ s # <<>> => Total(s, f) = f[Head(s)] + Total(Tail(s), f)
  BY ONLY <1>1, s \in Seq(HostMessage), TotalInSteps
<1> QED BY <1>2, <1>3, <1>4, <1>5, <1>6, <1>7

\* ... and Returns that release.
LEMMA ReturningInSteps ==
  ASSUME NEW s \in Seq(HostMessage), NEW e \in Ids
  PROVE  /\ ReturningIn(s, e) \in Nat
         /\ \A m \in HostMessage :
              ReturningIn(Append(s, m), e) = ReturningIn(s, e) + ReturningBy(m, e)
         /\ s # <<>> => ReturningIn(s, e) = ReturningBy(Head(s), e) + ReturningIn(Tail(s), e)
<1> DEFINE f == [m \in HostMessage |-> ReturningBy(m, e)]
<1>1. f \in [HostMessage -> Nat]
  BY DEF ReturningBy
<1>2. \A m \in HostMessage : f[m] = ReturningBy(m, e)
  OBVIOUS
<1>3. ASSUME NEW t \in Seq(HostMessage) PROVE ReturningIn(t, e) = Total(t, f)
  <2>1. \A i \in DOMAIN t : t[i] \in HostMessage
    BY ElementOfSeq, LenProperties
  <2>2. [i \in DOMAIN t |-> ReturningBy(t[i], e)] = [i \in DOMAIN t |-> f[t[i]]]
    BY <2>1
  <2> QED BY <2>2 DEF ReturningIn, Total
<1> HIDE DEF f
<1>4. DOMAIN s = 1..Len(s) /\ \A i \in DOMAIN s : s[i] \in HostMessage
  BY ElementOfSeq, LenProperties
<1>5. \A m \in HostMessage : Append(s, m) \in Seq(HostMessage)
  BY AppendProperties
<1>6. s # <<>> => Head(s) \in HostMessage /\ Tail(s) \in Seq(HostMessage)
  BY HeadTailProperties
<1>7. /\ Total(s, f) \in Nat
      /\ \A m \in HostMessage : Total(Append(s, m), f) = Total(s, f) + f[m]
      /\ s # <<>> => Total(s, f) = f[Head(s)] + Total(Tail(s), f)
  BY ONLY <1>1, s \in Seq(HostMessage), TotalInSteps
<1> QED BY <1>2, <1>3, <1>4, <1>5, <1>6, <1>7

-----------------------------------------------------------------------------
(* The two vats agree on the references.                                   *)

\* The fields of the messages in flight.
LEMMA InFlightTyped ==
  ASSUME CapInv
  PROVE  /\ \A m \in Range(toHolder) : m \in HolderMessage /\ m.id \in Ids
         /\ \A i \in DOMAIN toHost : /\ toHost[i] \in HostMessage
                                     /\ toHost[i].id \in Ids /\ toHost[i].count \in Nat
<1>1. toHolder \in Seq(HolderMessage) /\ toHost \in Seq(HostMessage)
  BY DEF CapInv, MessagesOK
<1>2. \A m \in Range(toHolder) : m \in HolderMessage
  BY <1>1, RangeIsElements
<1>3. \A i \in DOMAIN toHost : toHost[i] \in HostMessage
  BY <1>1, ElementOfSeq, LenProperties
<1> QED BY <1>2, <1>3 DEF HolderMessage, HostMessage

\* The numbers the two ends count with.
LEMMA CountsTyped ==
  ASSUME CapInv
  PROVE  \A e \in Ids : /\ Introduced(e) \in Nat /\ Released(e) \in Nat /\ Own(e) \in {0, 1}
                        /\ Returning(e) \in Nat /\ wireRefs[e] \in Nat /\ unknown[e] \in Nat
                        /\ imports[e].refs \in Nat /\ imports[e].local \in Nat
<1>1. /\ toHolder \in Seq(HolderMessage) /\ toHost \in Seq(HostMessage)
      /\ wireRefs \in [Ids -> Nat] /\ imports \in [Ids -> [refs : Nat, local : Nat, rc : Nat]]
      /\ unknown \in [Ids -> Nat]
  BY DEF CapInv, MessagesOK, TableOK, TableTypeOK, PeersTypeOK
<1>2. \A e \in Ids : Introduced(e) \in Nat /\ Released(e) \in Nat /\ Returning(e) \in Nat
  BY <1>1, IntroducedInSteps, ReleasedInSteps, ReturningInSteps DEF Introduced, Released, Returning
<1> QED BY <1>1, <1>2 DEF Own

\* As long as no unknown call has passed e the counts are the same at both
\* ends, and no Return is about to release a reference to e.
LEMMA BalancedUnlessUnknown ==
  ASSUME CapInv, WireInv, NEW e \in Ids, unknown[e] = 0
  PROVE  /\ wireRefs[e] = imports[e].refs + Introduced(e) + Released(e) + Own(e)
         /\ Returning(e) = 0
<1>1. wireRefs[e] <= Held(e) /\ Held(e) + Returning(e) <= wireRefs[e] + unknown[e]
  BY DEF WireInv, ReferencesAgree
<1>2. /\ wireRefs[e] \in Nat /\ Returning(e) \in Nat /\ Introduced(e) \in Nat
      /\ Released(e) \in Nat /\ Own(e) \in Nat /\ imports[e].refs \in Nat
  BY CountsTyped
<1>3. Held(e) = imports[e].refs + Introduced(e) + Released(e) + Own(e)
  BY DEF Held
<1>4. Held(e) \in Nat
  BY <1>2, <1>3
<1> QED BY <1>1, <1>2, <1>3, <1>4

\* Everything that names an export holds a reference of it or is followed by
\* one, and the table has the export.
LEMMA NamedIsExported ==
  ASSUME CapInv, WireInv
  PROVE  /\ \A e \in Ids : unknown[e] = 0 /\ imports[e].refs > 0 => exports[e] # NoRc
         /\ \A m \in Range(toHolder) : unknown[m.id] = 0 => exports[m.id] # NoRc
         /\ \A i \in DOMAIN toHost :
              toHost[i].type \in {"call", "sentBack"} /\ unknown[toHost[i].id] = 0
                => exports[toHost[i].id] # NoRc
<1>1. /\ toHolder \in Seq(HolderMessage) /\ toHost \in Seq(HostMessage)
  BY DEF CapInv, MessagesOK
<1>2. \A e \in Ids : wireRefs[e] > 0 => exports[e] # NoRc
  BY DEF CapInv, TableOK, ExportTableOK
<1>3. ASSUME NEW e \in Ids, unknown[e] = 0,
             imports[e].refs > 0 \/ Introduced(e) > 0 \/ Released(e) > 0
      PROVE  exports[e] # NoRc
  <2>1. wireRefs[e] = imports[e].refs + Introduced(e) + Released(e) + Own(e)
    BY <1>3, BalancedUnlessUnknown
  <2>2. /\ Introduced(e) \in Nat /\ Released(e) \in Nat /\ Own(e) \in Nat
        /\ imports[e].refs \in Nat /\ wireRefs[e] \in Nat
    BY CountsTyped
  <2>3. wireRefs[e] > 0
    BY <1>3, <2>1, <2>2
  <2> QED BY <1>2, <2>3
<1>4. ASSUME NEW m \in Range(toHolder), unknown[m.id] = 0 PROVE exports[m.id] # NoRc
  <2>1. PICK i \in DOMAIN toHolder : toHolder[i] = m
    BY DEF Range
  <2>2. m \in HolderMessage /\ m.id \in Ids /\ m.type # "abort"
    BY InFlightTyped DEF WireInv, NoAbort
  <2>3. IntroducedBy(m, m.id) = 1
    BY <2>2 DEF IntroducedBy
  <2>4. IntroducedBy(toHolder[i], m.id) <= Introduced(m.id) /\ Introduced(m.id) \in Nat
    BY <1>1, <2>2, IntroducedInSteps DEF Introduced
  <2>5. Introduced(m.id) > 0
    BY <2>1, <2>3, <2>4
  <2> QED BY <1>3, <1>4, <2>2, <2>5
<1>5. ASSUME NEW i \in DOMAIN toHost, toHost[i].type \in {"call", "sentBack"},
             unknown[toHost[i].id] = 0
      PROVE  exports[toHost[i].id] # NoRc
  <2> DEFINE e == toHost[i].id
  <2>1. e \in Ids
    BY InFlightTyped
  <2>2. imports[e].refs > 0 \/ ReleasedAfter(i, e)
    BY <1>5 DEF WireInv, NamesAgree
  <2>3. ASSUME ReleasedAfter(i, e) PROVE Released(e) > 0
    <3>1. PICK j \in DOMAIN toHost :
            toHost[j].type = "release" /\ toHost[j].id = e /\ toHost[j].count > 0
      BY <2>3 DEF ReleasedAfter
    <3>2. ReleasedBy(toHost[j], e) = toHost[j].count /\ toHost[j].count \in Nat
      BY <3>1, InFlightTyped DEF ReleasedBy
    <3>3. ReleasedBy(toHost[j], e) <= Released(e) /\ Released(e) \in Nat
      BY <1>1, <2>1, ReleasedInSteps DEF Released
    <3> QED BY <3>1, <3>2, <3>3
  <2> QED BY <1>3, <1>5, <2>1, <2>2, <2>3
<1> QED BY <1>3, <1>4, <1>5

\* Taking the head of the host's queue takes the references it gives back.
LEMMA CountsOfTail ==
  ASSUME CapInv, NEW m \in Range(toHost), ArrivedAtHost(m), NEW e \in Ids
  PROVE  /\ Released(e) = ReleasedBy(m, e) + Released(e)' /\ Released(e)' \in Nat
         /\ Returning(e) = ReturningBy(m, e) + Returning(e)' /\ Returning(e)' \in Nat
<1>1. /\ toHost \in Seq(HostMessage) /\ toHost # <<>> /\ m = Head(toHost)
      /\ toHost' = Tail(toHost) /\ toHost' \in Seq(HostMessage)
  BY ArrivesAtHost DEF CapInv, MessagesOK, ArrivedAtHost
<1>2. /\ ReleasedIn(toHost, e) = ReleasedBy(m, e) + ReleasedIn(Tail(toHost), e)
      /\ ReturningIn(toHost, e) = ReturningBy(m, e) + ReturningIn(Tail(toHost), e)
  BY <1>1, ReleasedInSteps, ReturningInSteps
<1>3. ReleasedIn(toHost', e) \in Nat /\ ReturningIn(toHost', e) \in Nat
  BY <1>1, ReleasedInSteps, ReturningInSteps
<1> QED BY <1>1, <1>2, <1>3 DEF Released, Returning

\* What follows a message of the host's queue still follows it when the head
\* has been taken.
LEMMA NamesOfTail ==
  ASSUME CapInv, NamesAgree, NEW m \in Range(toHost), ArrivedAtHost(m),
         UNCHANGED <<imports, unknown>>,
         \A i \in DOMAIN toHost :
           i > 1 /\ toHost[i].type \in {"call", "sentBack"} /\ unknown[toHost[i].id] = 0
             => exports'[toHost[i].id] = exports[toHost[i].id]
  PROVE  NamesAgree'
<1>1. /\ toHost \in Seq(HostMessage) /\ toHost # <<>> /\ toHost' = Tail(toHost)
  BY DEF CapInv, MessagesOK, ArrivedAtHost
<1>2. /\ Len(toHost) \in Nat \ {0} /\ DOMAIN toHost = 1..Len(toHost)
      /\ DOMAIN toHost' = 1..(Len(toHost) - 1)
      /\ \A i \in 1..(Len(toHost) - 1) : toHost'[i] = toHost[i + 1]
  BY <1>1, HeadTailProperties, EmptySeq, LenProperties
<1> SUFFICES ASSUME NEW i \in DOMAIN toHost', toHost'[i].type \in {"call", "sentBack"},
                    unknown[toHost'[i].id] = 0
             PROVE  /\ exports'[toHost'[i].id] = toHost'[i].rc
                    /\ \/ imports'[toHost'[i].id].refs > 0
                       \/ \E j \in DOMAIN toHost' :
                            j > i /\ toHost'[j].type = "release" /\ toHost'[j].id = toHost'[i].id
                              /\ toHost'[j].count > 0
  BY DEF NamesAgree, ReleasedAfter
<1> DEFINE e == toHost[i + 1].id
<1>3. /\ i + 1 \in DOMAIN toHost /\ i + 1 > 1 /\ toHost'[i] = toHost[i + 1] /\ i \in Nat
      /\ toHost[i + 1].type \in {"call", "sentBack"} /\ unknown[e] = 0
  BY <1>2
<1>4. exports'[e] = toHost[i + 1].rc /\ (imports[e].refs > 0 \/ ReleasedAfter(i + 1, e))
  BY <1>3 DEF NamesAgree
<1>5. ASSUME ReleasedAfter(i + 1, e)
      PROVE  \E j \in DOMAIN toHost' :
               j > i /\ toHost'[j].type = "release" /\ toHost'[j].id = e /\ toHost'[j].count > 0
  <2>1. PICK j \in DOMAIN toHost :
          j > i + 1 /\ toHost[j].type = "release" /\ toHost[j].id = e /\ toHost[j].count > 0
    BY <1>5 DEF ReleasedAfter
  <2>2. j - 1 \in DOMAIN toHost' /\ j - 1 > i /\ toHost'[j - 1] = toHost[(j - 1) + 1] /\ (j - 1) + 1 = j
    BY <1>2, <1>3, <2>1
  <2> QED BY <2>1, <2>2
<1> QED BY <1>3, <1>4, <1>5

\* Exports that have references keep their RefCount.
LEMMA TableKeepsAgreement ==
  ASSUME CapInv, WireInv, DOMAIN rcs \subseteq DOMAIN rcs',
         \A d \in Ids : exports[d] # NoRc => exports'[d] = exports[d],
         UNCHANGED <<imports, unknown>>
  PROVE  MainMade' /\ ImportsAgree'
<1>1. MainMade'
  BY DEF WireInv, MainMade
<1>2. ImportsAgree'
  BY NamedIsExported DEF WireInv, ImportsAgree
<1> QED BY <1>1, <1>2

\* A step of the host that takes a message without references, and keeps the
\* table but for the Refs its code holds.
LEMMA HostTakesKeepsWire ==
  ASSUME CapInv, WireInv, NEW m \in Range(toHost), ArrivedAtHost(m),
         m.type \notin {"release", "returnReleasing"},
         DOMAIN rcs' = DOMAIN rcs,
         UNCHANGED <<exports, wireRefs, imports, unknown, toHolder>>
  PROVE  WireInv'
<1>1. MainMade' /\ ImportsAgree'
  BY TableKeepsAgreement
<1>2. ReferencesAgree'
  <2>1. ASSUME NEW e \in Ids PROVE Held(e)' = Held(e) /\ Returning(e)' = Returning(e)
    <3>1. ReleasedBy(m, e) = 0 /\ ReturningBy(m, e) = 0
      BY DEF ReleasedBy, ReturningBy
    <3>2. Released(e)' = Released(e) /\ Returning(e)' = Returning(e)
      BY <3>1, CountsOfTail
    <3> QED BY <3>2 DEF Held, Introduced, Own
  <2> QED BY <2>1 DEF WireInv, ReferencesAgree
<1>3. NoAbort' /\ DescriptorsAgree'
  BY DEF WireInv, NoAbort, DescriptorsAgree
<1>4. NamesAgree'
  BY NamesOfTail DEF WireInv
<1> QED BY <1>1, <1>2, <1>3, <1>4 DEF WireInv

\* The host counts an export and sends its descriptor.
LEMMA HostIntroducesKeepsWire ==
  ASSUME CapInv, WireInv, NEW o \in Objs, NEW e \in Ids, AddExport(o, e),
         NEW t \in {"call", "results"}, NEW q \in Questions \cup {NoQuestion},
         toHolder' = Append(toHolder, ToHolder(t, e, exports'[e], q)),
         \/ toHost' = toHost
         \/ \E m \in Range(toHost) :
              ArrivedAtHost(m) /\ m.type \notin {"release", "returnReleasing"},
         UNCHANGED <<imports, unknown>>
  PROVE  WireInv'
<1> DEFINE x == ToHolder(t, e, exports'[e], q)
<1>1. /\ DOMAIN rcs \subseteq DOMAIN rcs'
      /\ exports'[e] # NoRc /\ exports'[e] \in DOMAIN rcs'
      /\ \A d \in Ids : d # e \/ exports[d] # NoRc => exports'[d] = exports[d]
      /\ exports[e] = NoRc => exports'[e] \notin DOMAIN rcs
      /\ wireRefs' = [wireRefs EXCEPT ![e] = @ + 1]
      /\ TableOK'
  BY AddExportKeepsTable DEF CapInv
<1>2. /\ x \in HolderMessage /\ x.rc = exports'[e] /\ x.type = t /\ x.id = e
  <2>1. exports'[e] \in Nat
    BY <1>1, LenProperties DEF TableOK, TableTypeOK
  <2> QED BY <2>1 DEF ToHolder, HolderMessage
<1> HIDE DEF x
<1>3. /\ toHolder \in Seq(HolderMessage) /\ toHolder' = Append(toHolder, x)
      /\ Range(toHolder') = Range(toHolder) \cup {x}
  <2>1. toHolder \in Seq(HolderMessage) /\ toHolder' = Append(toHolder, x)
    BY DEF CapInv, MessagesOK, x
  <2> QED BY <1>2, <2>1, RangeOfAppend
<1>4. \A d \in Ids : Released(d)' = Released(d) /\ Returning(d)' = Returning(d)
  <2>1. CASE toHost' = toHost
    BY <2>1 DEF Released, Returning
  <2>2. ASSUME NEW m \in Range(toHost), ArrivedAtHost(m), m.type \notin {"release", "returnReleasing"},
               NEW d \in Ids
        PROVE  Released(d)' = Released(d) /\ Returning(d)' = Returning(d)
    <3>1. ReleasedBy(m, d) = 0 /\ ReturningBy(m, d) = 0
      BY <2>2 DEF ReleasedBy, ReturningBy
    <3> QED BY <2>2, <3>1, CountsOfTail
  <2> QED BY <2>1, <2>2
<1>5. NoAbort'
  BY <1>2, <1>3 DEF WireInv, NoAbort
<1>6. MainMade' /\ ImportsAgree'
  BY <1>1, TableKeepsAgreement
<1>7. ReferencesAgree'
  <2> SUFFICES ASSUME NEW d \in Ids
               PROVE  /\ wireRefs'[d] <= Held(d)'
                      /\ Held(d)' + Returning(d)' <= wireRefs'[d] + unknown'[d]
    BY DEF ReferencesAgree
  <2> DEFINE k == IF d = e THEN 1 ELSE 0
  <2>1. wireRefs[d] <= Held(d) /\ Held(d) + Returning(d) <= wireRefs[d] + unknown[d]
    BY DEF WireInv, ReferencesAgree
  <2>2. Introduced(d)' = Introduced(d) + k
    <3>1. IntroducedIn(toHolder', d) = IntroducedIn(toHolder, d) + IntroducedBy(x, d)
      BY <1>2, <1>3, IntroducedInSteps
    <3> QED BY <1>2, <3>1 DEF Introduced, IntroducedBy
  <2>3. Own(d)' = Own(d)
    BY <1>1 DEF Own, WireInv, MainMade, NoRc
  <2>4. /\ Introduced(d) \in Nat /\ Released(d) \in Nat /\ Own(d) \in Nat /\ Returning(d) \in Nat
        /\ wireRefs[d] \in Nat /\ imports[d].refs \in Nat /\ unknown[d] \in Nat
    BY CountsTyped
  <2>5. wireRefs'[d] = wireRefs[d] + k
    <3>1. wireRefs \in [Ids -> Nat]
      BY DEF CapInv, TableOK, TableTypeOK
    <3> QED BY <1>1, <2>4, <3>1
  <2>6. k \in Nat
    OBVIOUS
  <2> HIDE DEF k
  <2>7. Held(d)' = Held(d) + k /\ Held(d) \in Nat
    <3>1. Held(d) = imports[d].refs + Introduced(d) + Released(d) + Own(d)
      BY DEF Held
    <3>2. Held(d)' = imports[d].refs + (Introduced(d) + k) + Released(d) + Own(d)
      BY <1>4, <2>2, <2>3 DEF Held
    <3>3. imports[d].refs + (Introduced(d) + k) + Released(d) + Own(d)
            = imports[d].refs + Introduced(d) + Released(d) + Own(d) + k
      BY ONLY <2>4, <2>6
    <3>4. imports[d].refs + Introduced(d) + Released(d) + Own(d) \in Nat
      BY ONLY <2>4
    <3> QED BY ONLY <3>1, <3>2, <3>3, <3>4
  <2>8. Returning(d)' = Returning(d) /\ unknown'[d] = unknown[d]
    BY <1>4
  <2> QED BY <2>1, <2>4, <2>5, <2>6, <2>7, <2>8
<1>8. DescriptorsAgree'
  <2>1. ASSUME NEW y \in Range(toHolder), unknown[y.id] = 0 PROVE exports'[y.id] = y.rc
    <3>1. y.id \in Ids /\ exports[y.id] # NoRc /\ exports[y.id] = y.rc
      BY <2>1, InFlightTyped, NamedIsExported DEF WireInv, DescriptorsAgree
    <3> QED BY <1>1, <3>1
  <2> QED BY <1>2, <1>3, <2>1 DEF DescriptorsAgree
<1>9. NamesAgree'
  <2>1. ASSUME NEW i \in DOMAIN toHost, toHost[i].type \in {"call", "sentBack"},
               unknown[toHost[i].id] = 0
        PROVE  exports'[toHost[i].id] = exports[toHost[i].id]
    <3>1. toHost[i].id \in Ids
      BY InFlightTyped
    <3> QED BY <1>1, <2>1, <3>1, NamedIsExported
  <2>2. CASE toHost' = toHost
    BY <2>1, <2>2 DEF WireInv, NamesAgree, ReleasedAfter
  <2>3. CASE \E m \in Range(toHost) : ArrivedAtHost(m)
    BY <2>1, <2>3, NamesOfTail DEF WireInv
  <2> QED BY <2>2, <2>3
<1> QED BY <1>5, <1>6, <1>7, <1>8, <1>9 DEF WireInv

\* Conn.releaseExport of m.count references, or of the one that a Return
\* releases: the host counts no more than is held, and at most the calls
\* that the holder did not know make the difference.
LEMMA ReleasingKeepsReferences ==
  ASSUME CapInv, WireInv, NEW m \in Range(toHost), ArrivedAtHost(m),
         m.type \in {"release", "returnReleasing"},
         releaseExport(m.id, IF m.type = "release" THEN m.count ELSE 1),
         UNCHANGED <<imports, unknown, toHolder>>
  PROVE  ReferencesAgree'
<1> DEFINE n == IF m.type = "release" THEN m.count ELSE 1
<1>1. m.id \in Ids /\ m.count \in Nat /\ n \in Nat
  BY ArrivesAtHost DEF HostMessage
<1>2. /\ wireRefs \in [Ids -> Nat] /\ exports \in [Ids -> {NoRc} \cup DOMAIN rcs]
      /\ \A d \in Ids : exports[d] = NoRc => wireRefs[d] = 0
  BY DEF CapInv, TableOK, TableTypeOK, ExportTableOK
<1>3. releaseExport(m.id, n)
  OBVIOUS
<1> SUFFICES ASSUME NEW d \in Ids
             PROVE  /\ wireRefs'[d] <= Held(d)'
                    /\ Held(d)' + Returning(d)' <= wireRefs'[d] + unknown'[d]
  BY DEF ReferencesAgree
<1> DEFINE a == ReleasedBy(m, d)
           b == ReturningBy(m, d)
<1>4. a \in Nat /\ b \in Nat /\ a + b = IF d = m.id THEN n ELSE 0
  BY <1>1 DEF ReleasedBy, ReturningBy
<1>5. /\ Released(d) = a + Released(d)' /\ Released(d)' \in Nat
      /\ Returning(d) = b + Returning(d)' /\ Returning(d)' \in Nat
  BY CountsOfTail
<1> HIDE DEF a, b, n
<1>6. /\ Introduced(d) \in Nat /\ Own(d) \in Nat /\ wireRefs[d] \in Nat /\ unknown[d] \in Nat
      /\ imports[d].refs \in Nat /\ Released(d) \in Nat /\ Returning(d) \in Nat
  BY CountsTyped
<1>7. /\ wireRefs'[d] \in Nat /\ Own(d)' \in Nat /\ Own(d)' <= Own(d)
      /\ wireRefs[d] - (a + b) <= wireRefs'[d]
      /\ wireRefs'[d] = 0 \/ (Own(d)' = Own(d) /\ wireRefs'[d] = wireRefs[d] - (a + b))
  <2>1. CASE exports[m.id] = NoRc
    <3>1. UNCHANGED <<exports, wireRefs>>
      BY <1>3, <2>1 DEF releaseExport, tableVars
    <3>2. d = m.id => wireRefs[d] = 0
      BY <1>2, <2>1
    <3>3. Own(d)' = Own(d) /\ wireRefs'[d] = wireRefs[d]
      BY <3>1 DEF Own
    <3> QED BY <1>1, <1>4, <1>6, <3>2, <3>3
  <2>2. CASE exports[m.id] # NoRc /\ wireRefs[m.id] > n
    <3>1. exports' = exports /\ wireRefs' = [wireRefs EXCEPT ![m.id] = @ - n]
      BY <1>3, <2>2 DEF releaseExport
    <3>2. wireRefs'[d] = wireRefs[d] - (a + b)
      BY <1>1, <1>2, <1>4, <1>6, <3>1
    <3>3. Own(d)' = Own(d)
      BY <3>1 DEF Own
    <3>4. wireRefs'[d] \in Nat
      BY <1>1, <1>2, <1>6, <2>2, <3>1
    <3> QED BY <1>4, <1>6, <3>2, <3>3, <3>4
  <2>3. CASE exports[m.id] # NoRc /\ ~ wireRefs[m.id] > n
    <3>1. exports' = [exports EXCEPT ![m.id] = NoRc] /\ wireRefs' = [wireRefs EXCEPT ![m.id] = 0]
      BY <1>3, <2>3 DEF releaseExport
    <3>2. CASE d = m.id
      <4>1. wireRefs'[d] = 0 /\ Own(d)' = 0 /\ wireRefs[d] <= n
        BY <1>1, <1>2, <1>6, <2>3, <3>1, <3>2 DEF Own, NoRc
      <4> QED BY <1>1, <1>4, <1>6, <3>2, <4>1
    <3>3. CASE d # m.id
      <4>1. wireRefs'[d] = wireRefs[d] /\ Own(d)' = Own(d) /\ a + b = 0
        BY <1>2, <1>4, <3>1, <3>3 DEF Own
      <4> QED BY <1>6, <4>1
    <3> QED BY <3>2, <3>3
  <2> QED BY <2>1, <2>2, <2>3
<1>8. /\ Held(d) = imports[d].refs + Introduced(d) + Released(d) + Own(d)
      /\ Held(d)' = imports[d].refs + Introduced(d) + Released(d)' + Own(d)'
      /\ unknown'[d] = unknown[d]
  BY DEF Held, Introduced
<1>9. wireRefs[d] <= Held(d) /\ Held(d) + Returning(d) <= wireRefs[d] + unknown[d]
  BY DEF WireInv, ReferencesAgree
<1>10. Held(d)' \in Nat
  BY <1>5, <1>6, <1>7, <1>8
<1>11. Held(d)' + Returning(d)' <= wireRefs'[d] + unknown'[d]
  BY <1>4, <1>5, <1>6, <1>7, <1>8, <1>9
<1>12. wireRefs'[d] <= Held(d)'
  <2>1. CASE wireRefs'[d] = 0
    BY <1>10, <2>1
  <2>2. CASE Own(d)' = Own(d) /\ wireRefs'[d] = wireRefs[d] - (a + b)
    BY <1>4, <1>5, <1>6, <1>8, <1>9, <2>2
  <2> QED BY <1>7, <2>1, <2>2
<1> QED BY <1>11, <1>12

\* An export that is removed has nothing left that names it, unless a call the
\* holder did not know has passed it.
LEMMA RemovedIsUnnamed ==
  ASSUME CapInv, WireInv, NEW m \in Range(toHost), ArrivedAtHost(m),
         m.type \in {"release", "returnReleasing"},
         releaseExport(m.id, IF m.type = "release" THEN m.count ELSE 1),
         NEW d \in Ids, unknown[d] = 0,
         imports[d].refs > 0 \/ Introduced(d) > 0 \/ Released(d)' > 0
  PROVE  exports'[d] = exports[d]
<1>1. /\ wireRefs[d] = imports[d].refs + Introduced(d) + Released(d) + Own(d)
      /\ Returning(d) = 0
  BY BalancedUnlessUnknown
<1>2. /\ Introduced(d) \in Nat /\ Own(d) \in Nat /\ wireRefs[d] \in Nat
      /\ imports[d].refs \in Nat /\ m.count \in Nat /\ m.id \in Ids
  <2>1. m \in HostMessage
    BY ArrivesAtHost
  <2> QED BY <2>1, CountsTyped DEF HostMessage
<1>3. /\ Released(d) = ReleasedBy(m, d) + Released(d)' /\ Released(d)' \in Nat
      /\ Returning(d) = ReturningBy(m, d) + Returning(d)' /\ Returning(d)' \in Nat
  BY CountsOfTail
<1>4. exports \in [Ids -> {NoRc} \cup DOMAIN rcs]
  BY DEF CapInv, TableOK, TableTypeOK
<1>5. CASE d # m.id
  BY <1>2, <1>4, <1>5 DEF releaseExport, tableVars
<1>6. CASE d = m.id
  <2>1. m.type = "release"
    BY <1>1, <1>3, <1>6 DEF ReturningBy
  <2>2. Released(d) = m.count + Released(d)'
    BY <1>3, <1>6, <2>1 DEF ReleasedBy
  <2>3. wireRefs[d] > m.count
    BY <1>1, <1>2, <1>3, <2>2
  <2> QED BY <1>6, <2>1, <2>3 DEF releaseExport, tableVars
<1> QED BY <1>5, <1>6

\* A Release, or a Return that releases, takes no export from what names it.
LEMMA ReleaseKeepsWire ==
  ASSUME CapInv, WireInv, NEW m \in Range(toHost), ArrivedAtHost(m),
         m.type \in {"release", "returnReleasing"},
         releaseExport(m.id, IF m.type = "release" THEN m.count ELSE 1),
         UNCHANGED <<imports, unknown, toHolder>>
  PROVE  WireInv'
<1>1. /\ toHost # <<>> /\ toHost' = Tail(toHost) /\ m.id \in Ids
      /\ toHost \in Seq(HostMessage) /\ toHost' \in Seq(HostMessage)
      /\ toHolder \in Seq(HolderMessage)
  BY ArrivesAtHost DEF HostMessage, CapInv, MessagesOK
<1>2. ReferencesAgree'
  BY ReleasingKeepsReferences
<1>3. NoAbort' /\ MainMade'
  <2>1. DOMAIN rcs' = DOMAIN rcs
    BY DEF releaseExport, Decref, tableVars
  <2> QED BY <2>1 DEF WireInv, NoAbort, MainMade
<1>4. ImportsAgree'
  <2>1. \A d \in Ids : unknown[d] = 0 /\ imports[d].refs > 0 => exports'[d] = exports[d]
    BY RemovedIsUnnamed
  <2> QED BY <2>1 DEF WireInv, ImportsAgree
<1>5. DescriptorsAgree'
  <2>1. ASSUME NEW y \in Range(toHolder), unknown[y.id] = 0 PROVE exports'[y.id] = y.rc
    <3>1. PICK i \in DOMAIN toHolder : toHolder[i] = y
      BY DEF Range
    <3>2. IntroducedBy(y, y.id) = 1 /\ y.id \in Ids
      BY InFlightTyped DEF IntroducedBy, WireInv, NoAbort
    <3>3. IntroducedBy(toHolder[i], y.id) <= Introduced(y.id) /\ Introduced(y.id) \in Nat
      BY <1>1, <3>2, IntroducedInSteps DEF Introduced
    <3>4. Introduced(y.id) > 0
      BY <3>1, <3>2, <3>3
    <3>5. exports'[y.id] = exports[y.id]
      BY <2>1, <3>2, <3>4, RemovedIsUnnamed
    <3> QED BY <2>1, <3>5 DEF WireInv, DescriptorsAgree
  <2> QED BY <2>1 DEF DescriptorsAgree
<1>6. NamesAgree'
  <2>1. ASSUME NEW i \in DOMAIN toHost, i > 1, toHost[i].type \in {"call", "sentBack"},
               unknown[toHost[i].id] = 0
        PROVE  exports'[toHost[i].id] = exports[toHost[i].id]
    <3>1. PICK d \in Ids : d = toHost[i].id
      BY InFlightTyped
    <3>2. CASE imports[d].refs > 0
      BY <2>1, <3>1, <3>2, RemovedIsUnnamed
    <3>3. CASE ReleasedAfter(i, d)
      <4>1. PICK j \in DOMAIN toHost :
              j > i /\ toHost[j].type = "release" /\ toHost[j].id = d /\ toHost[j].count > 0
        BY <3>3 DEF ReleasedAfter
      <4>2. /\ DOMAIN toHost = 1..Len(toHost) /\ Len(toHost) \in Nat
            /\ DOMAIN toHost' = 1..(Len(toHost) - 1)
            /\ \A k \in 1..(Len(toHost) - 1) : toHost'[k] = toHost[k + 1]
        BY <1>1, HeadTailProperties, EmptySeq, LenProperties
      <4>3. j - 1 \in DOMAIN toHost' /\ toHost'[j - 1] = toHost[(j - 1) + 1] /\ (j - 1) + 1 = j
        BY <2>1, <4>1, <4>2
      <4>4. ReleasedBy(toHost'[j - 1], d) = toHost[j].count /\ toHost[j].count \in Nat
        BY <4>1, <4>3, InFlightTyped DEF ReleasedBy
      <4>5. ReleasedBy(toHost'[j - 1], d) <= ReleasedIn(toHost', d) /\ ReleasedIn(toHost', d) \in Nat
        BY <1>1, <3>1, <4>3, ReleasedInSteps
      <4>6. Released(d)' > 0
        BY <4>1, <4>4, <4>5 DEF Released
      <4> QED BY <2>1, <3>1, <4>6, RemovedIsUnnamed
    <3> QED BY <2>1, <3>1, <3>2, <3>3 DEF WireInv, NamesAgree
  <2> QED BY <2>1, NamesOfTail DEF WireInv
<1> QED BY <1>2, <1>3, <1>4, <1>5, <1>6 DEF WireInv

\* A message the holder sends after those on their way: what it names is held,
\* and a Release follows what it takes the references from.
LEMMA NamesOfAppend ==
  ASSUME CapInv, NamesAgree, NEW x \in HostMessage, toHost' = Append(toHost, x),
         exports' = exports,
         \A e \in Ids : unknown'[e] = 0 => unknown[e] = 0,
         \A e \in Ids : imports[e].refs > 0 =>
           imports'[e].refs > 0 \/ (x.type = "release" /\ x.id = e /\ x.count > 0),
         x.type \in {"call", "sentBack"} /\ unknown'[x.id] = 0 =>
           exports[x.id] = x.rc /\ imports'[x.id].refs > 0
  PROVE  NamesAgree'
<1>1. toHost \in Seq(HostMessage)
  BY DEF CapInv, MessagesOK
<1>2. /\ Len(toHost) \in Nat /\ DOMAIN toHost = 1..Len(toHost) /\ DOMAIN toHost' = 1..(Len(toHost) + 1)
      /\ \A i \in 1..Len(toHost) : toHost'[i] = toHost[i]
      /\ toHost'[Len(toHost) + 1] = x
  BY <1>1, AppendProperties, LenProperties
<1> SUFFICES ASSUME NEW i \in DOMAIN toHost', toHost'[i].type \in {"call", "sentBack"},
                    unknown'[toHost'[i].id] = 0
             PROVE  /\ exports'[toHost'[i].id] = toHost'[i].rc
                    /\ \/ imports'[toHost'[i].id].refs > 0
                       \/ \E j \in DOMAIN toHost' :
                            j > i /\ toHost'[j].type = "release" /\ toHost'[j].id = toHost'[i].id
                              /\ toHost'[j].count > 0
  BY DEF NamesAgree, ReleasedAfter
<1>3. CASE i = Len(toHost) + 1
  BY <1>2, <1>3
<1>4. CASE i \in DOMAIN toHost
  <2>1. PICK e \in Ids : e = toHost[i].id
    BY <1>4, InFlightTyped
  <2>2. /\ toHost'[i] = toHost[i]
        /\ exports[e] = toHost[i].rc /\ (imports[e].refs > 0 \/ ReleasedAfter(i, e))
    BY <1>2, <1>4, <2>1 DEF NamesAgree
  <2>3. CASE ReleasedAfter(i, e)
    <3>1. PICK j \in DOMAIN toHost :
            j > i /\ toHost[j].type = "release" /\ toHost[j].id = e /\ toHost[j].count > 0
      BY <2>3 DEF ReleasedAfter
    <3>2. j \in DOMAIN toHost' /\ toHost'[j] = toHost[j]
      BY <1>2, <3>1
    <3> QED BY <2>1, <2>2, <3>1, <3>2
  <2>4. CASE imports[e].refs > 0 /\ x.type = "release" /\ x.id = e /\ x.count > 0
    <3>1. Len(toHost) + 1 \in DOMAIN toHost' /\ Len(toHost) + 1 > i
      BY <1>2, <1>4
    <3> QED BY <1>2, <2>1, <2>2, <2>4, <3>1
  <2>5. CASE imports'[e].refs > 0
    BY <2>1, <2>2, <2>5
  <2> QED BY <2>2, <2>3, <2>4, <2>5
<1> QED BY <1>2, <1>3, <1>4

\* A step of the holder that sends m, and may turn the references of an import
\* into a Release.
LEMMA HolderSendsKeepsWire ==
  ASSUME CapInv, WireInv, NEW m \in HostMessage, toHost' = Append(toHost, m),
         UNCHANGED <<hostVars, unknown, toHolder>>,
         m.type # "returnReleasing",
         m.type \in {"call", "sentBack"} => imports'[m.id].refs > 0,
         m.type \in {"call", "sentBack"} /\ unknown[m.id] = 0 => exports[m.id] = m.rc,
         \A e \in Ids : IF m.type = "release" /\ m.id = e
                        THEN /\ imports[e].refs = m.count /\ m.count > 0
                             /\ imports'[e] = NoImport
                        ELSE imports'[e] = imports[e]
  PROVE  WireInv'
<1>1. UNCHANGED <<exports, wireRefs, rcs>>
  BY DEF hostVars, tableVars
<1>2. toHost \in Seq(HostMessage) /\ m.id \in Ids /\ m.count \in Nat
  BY DEF CapInv, MessagesOK, HostMessage
<1>3. NoAbort' /\ MainMade' /\ DescriptorsAgree'
  BY <1>1 DEF WireInv, NoAbort, MainMade, DescriptorsAgree
<1>4. ImportsAgree'
  BY <1>1 DEF WireInv, ImportsAgree, NoImport
<1>5. ReferencesAgree'
  <2> SUFFICES ASSUME NEW e \in Ids PROVE Held(e)' = Held(e) /\ Returning(e)' = Returning(e)
    BY <1>1 DEF WireInv, ReferencesAgree
  <2> DEFINE k == ReleasedBy(m, e)
  <2>1. /\ Released(e)' = Released(e) + k
        /\ Returning(e)' = Returning(e) + ReturningBy(m, e)
    BY <1>2, ReleasedInSteps, ReturningInSteps DEF Released, Returning
  <2>2. ReturningBy(m, e) = 0
    BY DEF ReturningBy
  <2>3. Introduced(e) \in Nat /\ Released(e) \in Nat /\ Own(e) \in Nat /\ imports[e].refs \in Nat
        /\ Returning(e) \in Nat
    BY CountsTyped
  <2>4. imports'[e].refs + k = imports[e].refs /\ imports'[e].refs \in Nat /\ k \in Nat
    <3>1. CASE m.type = "release" /\ m.id = e
      BY <1>2, <3>1 DEF ReleasedBy, NoImport
    <3>2. CASE ~(m.type = "release" /\ m.id = e)
      BY <2>3, <3>2 DEF ReleasedBy
    <3> QED BY <3>1, <3>2
  <2> HIDE DEF k
  <2>5. /\ Held(e) = imports[e].refs + Introduced(e) + Released(e) + Own(e)
        /\ Held(e)' = imports'[e].refs + Introduced(e) + (Released(e) + k) + Own(e)
    BY <1>1, <2>1 DEF Held, Introduced, Own
  <2>6. imports'[e].refs + Introduced(e) + (Released(e) + k) + Own(e)
          = imports[e].refs + Introduced(e) + Released(e) + Own(e)
    BY ONLY <2>3, <2>4
  <2> QED BY <2>1, <2>2, <2>3, <2>5, <2>6
<1>6. NamesAgree'
  BY <1>1, NamesOfAppend DEF WireInv
<1> QED BY <1>3, <1>4, <1>5, <1>6 DEF WireInv

\* Conn.addImport: the reference that was on its way is the holder's, and may
\* be returned at once by an unknown call, which keeps it.
LEMMA AddImportKeepsWire ==
  ASSUME CapInv, WireInv, NEW m \in Range(toHolder), ArrivedAtHolder(m), AddImport(m),
         UNCHANGED hostVars,
         \/ UNCHANGED <<toHost, unknown>>
         \/ \E x \in HostMessage :
              /\ toHost' = Append(toHost, x) /\ x.type = "returnReleasing" /\ x.id = m.id
              /\ unknown' = [unknown EXCEPT ![m.id] = @ + 1]
  PROVE  WireInv'
<1>1. /\ UNCHANGED <<exports, wireRefs, rcs>>
      /\ toHolder \in Seq(HolderMessage) /\ toHolder # <<>> /\ toHolder' = Tail(toHolder)
      /\ toHolder' \in Seq(HolderMessage)
      /\ m = Head(toHolder) /\ Range(toHolder') \subseteq Range(toHolder)
  BY ArrivesAtHolder DEF hostVars, tableVars, CapInv, MessagesOK, ArrivedAtHolder
<1> DEFINE e == m.id
<1>2. /\ e \in Ids /\ m.type # "abort" /\ (unknown[e] = 0 => exports[e] = m.rc)
      /\ imports \in [Ids -> [refs : Nat, local : Nat, rc : Nat]]
      /\ unknown \in [Ids -> Nat] /\ toHost \in Seq(HostMessage)
  BY InFlightTyped DEF WireInv, NoAbort, DescriptorsAgree, CapInv, PeersTypeOK, MessagesOK
<1> HIDE DEF e
<1>3. /\ \A d \in Ids : d # e => imports'[d] = imports[d]
      /\ imports'[e].refs = imports[e].refs + 1
      /\ imports'[e].local > 0
      /\ unknown[e] = 0 => imports'[e].rc = exports[e]
  <2>1. imports' = [imports EXCEPT ![e] =
          IF imports[e].refs > 0
          THEN [refs |-> imports[e].refs + 1, local |-> imports[e].local + 1, rc |-> imports[e].rc]
          ELSE [refs |-> 1, local |-> 1, rc |-> m.rc]]
    BY <1>2 DEF AddImport, e
  <2>2. imports[e].refs \in Nat /\ imports[e].local \in Nat
    BY <1>2, CountsTyped
  <2>3. CASE imports[e].refs > 0
    <3>1. imports'[e] = [refs |-> imports[e].refs + 1, local |-> imports[e].local + 1, rc |-> imports[e].rc]
      BY <1>2, <2>1, <2>3
    <3>2. unknown[e] = 0 => imports[e].rc = exports[e]
      BY <1>2, <2>3 DEF WireInv, ImportsAgree
    <3> QED BY <1>2, <2>1, <2>2, <3>1, <3>2
  <2>4. CASE ~ imports[e].refs > 0
    <3>1. imports'[e] = [refs |-> 1, local |-> 1, rc |-> m.rc]
      BY <1>2, <2>1, <2>4
    <3>2. imports[e].refs = 0
      BY <2>2, <2>4
    <3> QED BY <1>2, <2>1, <3>1, <3>2
  <2> QED BY <2>3, <2>4
<1>4. \A d \in Ids : /\ unknown'[d] \in Nat /\ Returning(d)' \in Nat
                     /\ Released(d)' = Released(d)
                     /\ Returning(d)' + unknown[d] = Returning(d) + unknown'[d]
                     /\ unknown'[d] = 0 => unknown[d] = 0
  <2>1. CASE UNCHANGED <<toHost, unknown>>
    <3>1. \A d \in Ids : Released(d)' = Released(d) /\ Returning(d)' = Returning(d)
      BY <2>1 DEF Released, Returning
    <3> QED BY <1>2, <2>1, <3>1, CountsTyped
  <2>2. ASSUME NEW x \in HostMessage, toHost' = Append(toHost, x), x.type = "returnReleasing",
               x.id = e, unknown' = [unknown EXCEPT ![e] = @ + 1], NEW d \in Ids
        PROVE  /\ unknown'[d] \in Nat /\ Returning(d)' \in Nat
               /\ Released(d)' = Released(d)
               /\ Returning(d)' + unknown[d] = Returning(d) + unknown'[d]
               /\ unknown'[d] = 0 => unknown[d] = 0
    <3>1. ReleasedBy(x, d) = 0 /\ ReturningBy(x, d) = IF d = e THEN 1 ELSE 0
      BY <2>2 DEF ReleasedBy, ReturningBy
    <3>2. Released(d)' = Released(d) + ReleasedBy(x, d) /\ Returning(d)' = Returning(d) + ReturningBy(x, d)
      BY <1>2, <2>2, ReleasedInSteps, ReturningInSteps DEF Released, Returning
    <3>3. Released(d) \in Nat /\ Returning(d) \in Nat /\ unknown[d] \in Nat
      BY CountsTyped
    <3> DEFINE k == IF d = e THEN 1 ELSE 0
    <3>4. unknown'[d] = unknown[d] + k /\ k \in Nat
      BY <1>2, <2>2, <3>3
    <3>5. Released(d)' = Released(d) /\ Returning(d)' = Returning(d) + k
      BY <3>1, <3>2, <3>3
    <3> HIDE DEF k
    <3> QED BY <3>3, <3>4, <3>5
  <2> QED BY <2>1, <2>2 DEF e
<1>5. NoAbort' /\ MainMade' /\ DescriptorsAgree'
  <2>1. \A y \in Range(toHolder) : y.id \in Ids
    BY InFlightTyped
  <2> QED BY <1>1, <1>4, <2>1 DEF WireInv, NoAbort, MainMade, DescriptorsAgree
<1>6. ImportsAgree'
  <2> SUFFICES ASSUME NEW d \in Ids
               PROVE  /\ imports'[d].refs > 0 <=> imports'[d].local > 0
                      /\ unknown'[d] = 0 /\ imports'[d].refs > 0 => exports'[d] = imports'[d].rc
    BY DEF ImportsAgree
  <2>1. CASE d = e
    <3>1. imports[e].refs \in Nat
      BY <1>2, CountsTyped
    <3>2. imports'[e].refs > 0 /\ imports'[e].local > 0
      BY <1>3, <3>1
    <3>3. unknown'[e] = 0 => exports'[e] = imports'[e].rc
      BY <1>1, <1>2, <1>3, <1>4
    <3> QED BY <2>1, <3>2, <3>3
  <2>2. CASE d # e
    BY <1>1, <1>3, <1>4, <2>2 DEF WireInv, ImportsAgree
  <2> QED BY <2>1, <2>2
<1>7. ReferencesAgree'
  <2> SUFFICES ASSUME NEW d \in Ids
               PROVE  /\ wireRefs'[d] <= Held(d)'
                      /\ Held(d)' + Returning(d)' <= wireRefs'[d] + unknown'[d]
    BY DEF ReferencesAgree
  <2>1. wireRefs[d] <= Held(d) /\ Held(d) + Returning(d) <= wireRefs[d] + unknown[d]
    BY DEF WireInv, ReferencesAgree
  <2> DEFINE k == IntroducedBy(m, d)
  <2>2. Introduced(d) = k + Introduced(d)' /\ Introduced(d)' \in Nat
    BY <1>1, IntroducedInSteps DEF Introduced
  <2>3. /\ Released(d) \in Nat /\ Own(d) \in Nat /\ imports[d].refs \in Nat
        /\ Returning(d) \in Nat /\ wireRefs[d] \in Nat /\ unknown[d] \in Nat
    BY CountsTyped
  <2>4. imports'[d].refs = imports[d].refs + k /\ k \in Nat
    <3>1. k = IF d = e THEN 1 ELSE 0
      BY <1>2 DEF IntroducedBy, e
    <3>2. CASE d = e
      BY <1>3, <3>1, <3>2
    <3>3. CASE d # e
      BY <1>3, <2>3, <3>1, <3>3
    <3> QED BY <3>2, <3>3
  <2> HIDE DEF k
  <2>5. /\ Held(d) = imports[d].refs + Introduced(d) + Released(d) + Own(d)
        /\ Held(d)' = imports'[d].refs + Introduced(d)' + Released(d) + Own(d)
    BY <1>1, <1>4 DEF Held, Own
  <2>6. /\ imports'[d].refs + Introduced(d)' + Released(d) + Own(d)
             = imports[d].refs + Introduced(d) + Released(d) + Own(d)
        /\ imports[d].refs + Introduced(d) + Released(d) + Own(d) \in Nat
    <3>1. Introduced(d)' \in Nat /\ k \in Nat
      BY <2>2, <2>4
    <3> QED BY ONLY <2>2, <2>3, <2>4, <3>1
  <2>7. Held(d)' = Held(d) /\ Held(d) \in Nat /\ wireRefs'[d] = wireRefs[d]
    BY <1>1, <2>5, <2>6
  <2>8. /\ unknown'[d] \in Nat /\ Returning(d)' \in Nat
        /\ Returning(d)' + unknown[d] = Returning(d) + unknown'[d]
    BY <1>4
  <2> QED BY <2>1, <2>3, <2>7, <2>8
<1>8. NamesAgree'
  <2>1. \A d \in Ids : imports[d].refs > 0 => imports'[d].refs > 0
    <3>1. imports[e].refs \in Nat
      BY <1>2, CountsTyped
    <3> QED BY <1>3, <3>1
  <2>2. CASE UNCHANGED <<toHost, unknown>>
    <3>1. \A i \in DOMAIN toHost : toHost[i].id \in Ids
      BY InFlightTyped
    <3> QED BY <1>1, <2>1, <2>2, <3>1 DEF WireInv, NamesAgree, ReleasedAfter
  <2>3. ASSUME NEW x \in HostMessage, toHost' = Append(toHost, x), x.type = "returnReleasing"
        PROVE  NamesAgree'
    BY <1>1, <1>4, <2>1, <2>3, NamesOfAppend DEF WireInv
  <2> QED BY <2>2, <2>3
<1> QED BY <1>5, <1>6, <1>7, <1>8 DEF WireInv

\* The first state.
LEMMA InitWireInv == Init => WireInv
<1> SUFFICES ASSUME Init PROVE WireInv
  OBVIOUS
<1>1. CapInv /\ 0 \in Ids
  BY InitCapInv, CapTablesAssumption DEF Ids
<1>2. /\ toHolder = <<>> /\ toHost = <<>> /\ Range(toHolder) = {} /\ Range(toHost) = {}
      /\ DOMAIN toHost = {} /\ DOMAIN toHolder = {}
  BY RangeOfEmpty DEF Init
<1>3. NoAbort /\ MainMade /\ DescriptorsAgree /\ NamesAgree /\ ImportsAgree
  BY <1>1, <1>2 DEF Init, NoAbort, MainMade, DescriptorsAgree, NamesAgree, ImportsAgree, NoImport
<1>4. ASSUME NEW e \in Ids
      PROVE  wireRefs[e] <= Held(e) /\ Held(e) + Returning(e) <= wireRefs[e] + unknown[e]
  <2>1. Introduced(e) = SumOf(<<>>) /\ Released(e) = SumOf(<<>>) /\ Returning(e) = SumOf(<<>>)
    <3>1. /\ [i \in {} |-> IntroducedBy(toHolder[i], e)] = <<>>
          /\ [i \in {} |-> ReleasedBy(toHost[i], e)] = <<>>
          /\ [i \in {} |-> ReturningBy(toHost[i], e)] = <<>>
      OBVIOUS
    <3> QED BY <1>2, <3>1
            DEF Introduced, Released, Returning, IntroducedIn, ReleasedIn, ReturningIn
  <2>2. imports[e].refs = 0 /\ wireRefs[e] = (IF e = 0 THEN 1 ELSE 0) /\ Own(e) = IF e = 0 THEN 1 ELSE 0
    BY DEF Init, NoImport, Own, NoRc
  <2>3. unknown[e] = 0
    BY DEF Init
  <2>4. Introduced(e) = 0 /\ Released(e) = 0 /\ Returning(e) = 0
    BY <2>1, SumOfEmpty
  <2> QED BY <2>2, <2>3, <2>4 DEF Held
<1> QED BY <1>3, <1>4 DEF WireInv, ReferencesAgree

\* The handlers of the host that leave it open. A name that is gone ends the
\* connection.
LEMMA HostHandlesKeepsWire ==
  ASSUME CapInv, WireInv, HostHandles, hostOpen'
  PROVE  WireInv'
<1>1. Main \in Objs /\ NoQuestion \in Questions \cup {NoQuestion}
  BY CapTablesAssumption
<1>2. CASE HandleBootstrap
  <2>1. PICK m \in Range(toHost) : ArrivedAtHost(m) /\ m.type = "bootstrap"
    BY <1>2 DEF HandleBootstrap
  <2>2. PICK e \in Ids : /\ AddExport(Main, e)
                         /\ toHolder' = Append(toHolder, ToHolder("results", e, exports'[e], NoQuestion))
    BY <1>2 DEF HandleBootstrap
  <2>3. UNCHANGED <<imports, unknown>>
    BY <1>2 DEF HandleBootstrap, holderVars
  <2> QED BY <1>1, <2>1, <2>2, <2>3, HostIntroducesKeepsWire
<1>3. CASE HandleCall
  <2>1. PICK m \in Range(toHost) : ArrivedAtHost(m) /\ m.type = "call"
    BY <1>3 DEF HandleCall
  <2>2. UNCHANGED <<exports, wireRefs, rcs, imports, unknown, toHolder>>
    BY <1>3 DEF HandleCall, tableVars, holderVars
  <2> QED BY <2>1, <2>2, HostTakesKeepsWire
<1>4. CASE HandleSentBack
  <2>1. PICK m \in Range(toHost) :
          /\ ArrivedAtHost(m) /\ m.type = "sentBack" /\ exports[m.id] # NoRc
          /\ rcs' = [rcs EXCEPT ![exports[m.id]].refs = @ + 1]
    BY <1>4 DEF HandleSentBack
  <2>2. DOMAIN rcs' = DOMAIN rcs
    BY <2>1
  <2>3. UNCHANGED <<exports, wireRefs, imports, unknown, toHolder>>
    BY <1>4 DEF HandleSentBack, holderVars
  <2> QED BY <2>1, <2>2, <2>3, HostTakesKeepsWire
<1>5. CASE HandleUnknownExport
  BY <1>5 DEF HandleUnknownExport
<1>6. CASE HandleRelease
  <2>1. PICK m \in Range(toHost) :
          ArrivedAtHost(m) /\ m.type = "release" /\ releaseExport(m.id, m.count)
    BY <1>6 DEF HandleRelease
  <2>2. UNCHANGED <<imports, unknown, toHolder>>
    BY <1>6 DEF HandleRelease, holderVars
  <2>3. releaseExport(m.id, IF m.type = "release" THEN m.count ELSE 1)
    BY <2>1
  <2> QED BY <2>1, <2>2, <2>3, ReleaseKeepsWire
<1>7. CASE HandleReturn
  <2>1. PICK m \in Range(toHost) :
          /\ ArrivedAtHost(m) /\ m.type \in {"return", "returnReleasing"}
          /\ IF m.type = "returnReleasing" THEN releaseExport(paramCap[m.question], 1)
             ELSE UNCHANGED tableVars
    BY <1>7 DEF HandleReturn
  <2>2. UNCHANGED <<imports, unknown, toHolder>>
    BY <1>7 DEF HandleReturn, holderVars
  <2>3. CASE m.type = "return"
    <3>1. UNCHANGED <<exports, wireRefs, rcs>>
      BY <2>1, <2>3 DEF tableVars
    <3> QED BY <2>1, <2>2, <2>3, <3>1, HostTakesKeepsWire
  <2>4. CASE m.type = "returnReleasing"
    <3>1. paramCap[m.question] = m.id
      BY <2>1, <2>4, ArrivesAtHost
    <3>2. releaseExport(m.id, IF m.type = "release" THEN m.count ELSE 1)
      BY <2>1, <2>4, <3>1
    <3> QED BY <2>1, <2>2, <2>4, <3>2, ReleaseKeepsWire
  <2> QED BY <2>1, <2>3, <2>4
<1> QED BY <1>2, <1>3, <1>4, <1>5, <1>6, <1>7 DEF HostHandles

\* The handlers of the holder that leave it open.
LEMMA HolderHandlesKeepsWire ==
  ASSUME CapInv, WireInv, HolderHandles, holderOpen'
  PROVE  WireInv'
<1>1. CASE HandleResults \/ HandleParam
  <2>1. PICK m \in Range(toHolder) : /\ ArrivedAtHolder(m) /\ AddImport(m)
                                     /\ UNCHANGED <<hostVars, unknown, toHost>>
    BY <1>1 DEF HandleResults, HandleParam
  <2> QED BY <2>1, AddImportKeepsWire
<1>2. CASE HandleParamUnimplemented
  <2>1. PICK m \in Range(toHolder) :
          /\ ArrivedAtHolder(m) /\ AddImport(m) /\ m.type = "call"
          /\ toHost' = Append(toHost, ToHost("returnReleasing", m.id, m.rc, 0, m.question))
          /\ unknown' = [unknown EXCEPT ![m.id] = @ + 1]
          /\ UNCHANGED hostVars
    BY <1>2 DEF HandleParamUnimplemented
  <2>2. PICK x \in HostMessage : /\ toHost' = Append(toHost, x)
                                 /\ x.type = "returnReleasing" /\ x.id = m.id
    <3> DEFINE x == ToHost("returnReleasing", m.id, m.rc, 0, m.question)
    <3>1. m.id \in Ids /\ m.rc \in Nat /\ m.question \in Questions
      BY <2>1, ArrivesAtHolder DEF HolderMessage
    <3>2. x \in HostMessage /\ x.type = "returnReleasing" /\ x.id = m.id
      BY <3>1 DEF ToHost, HostMessage
    <3> HIDE DEF x
    <3> QED BY <2>1, <3>2 DEF x
  <2> QED BY <2>1, <2>2, AddImportKeepsWire
<1>3. CASE HandleAbort
  BY <1>3 DEF HandleAbort
<1> QED BY <1>1, <1>2, <1>3 DEF HolderHandles

\* The holder's code: an import it uses has references, and closing its last
\* Ref gives them all back.
LEMMA HolderActsKeepsWire ==
  ASSUME CapInv, WireInv,
         \/ \E q \in Questions : ReturnCall(q)
         \/ \E e \in Ids : CloseRef(e) \/ UseImport(e, "call") \/ UseImport(e, "sentBack")
         \/ Bootstrap
  PROVE  WireInv'
<1>1. /\ imports \in [Ids -> [refs : Nat, local : Nat, rc : Nat]]
      /\ 0 \in Ids /\ NoRc \in Nat /\ 0 \in Nat
  BY CapTablesAssumption DEF CapInv, PeersTypeOK, Ids, NoRc
<1>2. ASSUME NEW q \in Questions, ReturnCall(q) PROVE WireInv'
  <2> DEFINE m == ToHost("return", 0, NoRc, 0, q)
  <2>1. m \in HostMessage /\ m.type = "return"
    BY <1>1 DEF ToHost, HostMessage
  <2>2. toHost' = Append(toHost, m) /\ UNCHANGED <<hostVars, imports, unknown, toHolder>>
    BY <1>2 DEF ReturnCall
  <2> HIDE DEF m
  <2> QED BY <2>1, <2>2, HolderSendsKeepsWire
<1>3. ASSUME NEW e \in Ids, CloseRef(e) PROVE WireInv'
  <2>1. imports[e].refs \in Nat /\ imports[e].local \in Nat /\ imports[e].refs > 0
    BY <1>1, <1>3, CountsTyped DEF CloseRef, WireInv, ImportsAgree
  <2>2. CASE imports[e].local > 1
    <3>1. /\ imports' = [imports EXCEPT ![e].local = @ - 1]
          /\ UNCHANGED <<hostVars, unknown, toHolder, toHost>>
      BY <1>3, <2>2 DEF CloseRef
    <3>2. \A d \in Ids : /\ imports'[d].refs = imports[d].refs /\ imports'[d].rc = imports[d].rc
                         /\ imports'[d].local = IF d = e THEN imports[d].local - 1 ELSE imports[d].local
      BY <1>1, <3>1
    <3>3. UNCHANGED <<exports, wireRefs, rcs>>
      BY <3>1 DEF hostVars, tableVars
    <3>4. ImportsAgree'
      BY <2>1, <2>2, <3>1, <3>2, <3>3 DEF WireInv, ImportsAgree
    <3>5. ReferencesAgree'
      <4>1. \A d \in Ids : Held(d)' = Held(d) /\ Returning(d)' = Returning(d)
        BY <3>1, <3>2, <3>3 DEF Held, Introduced, Released, Own, Returning
      <4> QED BY <3>1, <3>3, <4>1 DEF WireInv, ReferencesAgree
    <3>6. NoAbort' /\ MainMade' /\ DescriptorsAgree'
      BY <3>1, <3>3 DEF WireInv, NoAbort, MainMade, DescriptorsAgree
    <3>7. NamesAgree'
      BY <3>1, <3>2, <3>3, InFlightTyped DEF WireInv, NamesAgree, ReleasedAfter
    <3> QED BY <3>4, <3>5, <3>6, <3>7 DEF WireInv
  <2>3. CASE ~ imports[e].local > 1
    <3> DEFINE m == ToHost("release", e, imports[e].rc, imports[e].refs, NoQuestion)
    <3>1. m \in HostMessage /\ m.type = "release" /\ m.id = e /\ m.count = imports[e].refs
      BY <1>1, <2>1 DEF ToHost, HostMessage
    <3>2. /\ toHost' = Append(toHost, m)
          /\ imports' = [imports EXCEPT ![e] = NoImport]
          /\ UNCHANGED <<hostVars, unknown, toHolder>>
      BY <1>3, <2>3 DEF CloseRef
    <3> HIDE DEF m
    <3>3. \A d \in Ids : imports'[d] = IF d = e THEN NoImport ELSE imports[d]
      BY <1>1, <3>2
    <3> QED BY <2>1, <3>1, <3>2, <3>3, HolderSendsKeepsWire
  <2> QED BY <2>2, <2>3
<1>4. ASSUME NEW e \in Ids, NEW t \in {"call", "sentBack"}, UseImport(e, t) PROVE WireInv'
  <2> DEFINE m == ToHost(t, e, imports[e].rc, 0, NoQuestion)
  <2>1. m \in HostMessage /\ m.type = t /\ m.id = e /\ m.rc = imports[e].rc
    BY <1>1 DEF ToHost, HostMessage
  <2>2. toHost' = Append(toHost, m) /\ UNCHANGED <<hostVars, imports, unknown, toHolder>>
    BY <1>4 DEF UseImport
  <2>3. imports[e].refs > 0 /\ (unknown[e] = 0 => exports[e] = imports[e].rc)
    BY <1>4 DEF UseImport, WireInv, ImportsAgree
  <2> HIDE DEF m
  <2> QED BY <2>1, <2>2, <2>3, HolderSendsKeepsWire
<1>5. ASSUME Bootstrap PROVE WireInv'
  <2> DEFINE m == ToHost("bootstrap", 0, NoRc, 0, NoQuestion)
  <2>1. m \in HostMessage /\ m.type = "bootstrap"
    BY <1>1 DEF ToHost, HostMessage
  <2>2. toHost' = Append(toHost, m) /\ UNCHANGED <<hostVars, imports, unknown, toHolder>>
    BY <1>5 DEF Bootstrap
  <2> HIDE DEF m
  <2> QED BY <2>1, <2>2, HolderSendsKeepsWire
<1> QED BY <1>2, <1>3, <1>4, <1>5

\* A vat that has shut down does not open again, and the holder shuts down
\* with the host's Abort only.
LEMMA EndsStayClosed ==
  ASSUME [Next]_vars
  PROVE  /\ hostOpen' => hostOpen
         /\ holderOpen' = holderOpen \/ HandleAbort
<1>1. CASE HostHandles
  <2>1. hostOpen
    BY <1>1 DEF HostHandles, HandleBootstrap, HandleCall, HandleSentBack, HandleUnknownExport,
                HandleRelease, HandleReturn, ArrivedAtHost
  <2>2. UNCHANGED holderVars
    BY <1>1 DEF HostHandles, HandleBootstrap, HandleCall, HandleSentBack, HandleUnknownExport,
                HandleRelease, HandleReturn
  <2> QED BY <2>1, <2>2 DEF holderVars
<1>2. CASE HolderHandles
  BY <1>2 DEF HolderHandles, HandleResults, HandleParam, HandleParamUnimplemented, HandleAbort,
              hostVars
<1>3. CASE \/ \E q \in Questions, o \in Objs : PassParam(q, o)
           \/ \E o \in Objs : AnswerWith(o)
           \/ AnswerPlain
           \/ \E r \in DOMAIN rcs : CloseBackRef(r)
  <2>1. UNCHANGED <<hostOpen, holderVars>>
    BY <1>3 DEF PassParam, AnswerWith, AnswerPlain, CloseBackRef
  <2> QED BY <2>1 DEF holderVars
<1>4. CASE \/ \E q \in Questions : ReturnCall(q)
           \/ \E e \in Ids : CloseRef(e) \/ UseImport(e, "call") \/ UseImport(e, "sentBack")
           \/ Bootstrap
           \/ UNCHANGED vars
  BY <1>4 DEF ReturnCall, CloseRef, UseImport, Bootstrap, hostVars, vars
<1> QED BY <1>1, <1>2, <1>3, <1>4 DEF Next

\* Every step that leaves the host open keeps the agreement of the two vats.
LEMMA NextKeepsConnectedInv == CapInv /\ ConnectedInv /\ [Next]_vars => ConnectedInv'
<1> SUFFICES ASSUME CapInv, ConnectedInv, [Next]_vars, hostOpen' PROVE holderOpen' /\ WireInv'
  BY DEF ConnectedInv
<1>0. WireInv /\ holderOpen'
  <2>1. hostOpen /\ holderOpen /\ WireInv
    BY EndsStayClosed DEF ConnectedInv
  <2>2. ~ HandleAbort
    BY <2>1 DEF HandleAbort, WireInv, NoAbort
  <2> QED BY <2>1, <2>2, EndsStayClosed
<1>1. CASE HostHandles
  BY <1>0, <1>1, HostHandlesKeepsWire
<1>2. CASE HolderHandles
  BY <1>0, <1>2, HolderHandlesKeepsWire
<1>3. ASSUME NEW q \in Questions, NEW o \in Objs, PassParam(q, o) PROVE WireInv'
  <2>1. PICK e \in Ids : /\ AddExport(o, e)
                         /\ toHolder' = Append(toHolder, ToHolder("call", e, exports'[e], q))
    BY <1>3 DEF PassParam
  <2>2. UNCHANGED <<imports, unknown, toHost>>
    BY <1>3 DEF PassParam, holderVars
  <2> QED BY <1>0, <2>1, <2>2, HostIntroducesKeepsWire
<1>4. ASSUME NEW o \in Objs, AnswerWith(o) PROVE WireInv'
  <2>1. PICK e \in Ids : /\ AddExport(o, e)
                         /\ toHolder' = Append(toHolder, ToHolder("results", e, exports'[e], NoQuestion))
    BY <1>4 DEF AnswerWith
  <2>2. UNCHANGED <<imports, unknown, toHost>>
    BY <1>4 DEF AnswerWith, holderVars
  <2> QED BY <1>0, <2>1, <2>2, HostIntroducesKeepsWire
<1>5. ASSUME DOMAIN rcs' = DOMAIN rcs, UNCHANGED <<exports, wireRefs, imports, unknown, toHolder, toHost>>
      PROVE  WireInv'
  <2>1. \A d \in Ids : Held(d)' = Held(d) /\ Returning(d)' = Returning(d)
    BY <1>5 DEF Held, Introduced, Released, Own, Returning
  <2> QED BY <1>0, <1>5, <2>1 DEF WireInv, NoAbort, MainMade, ReferencesAgree, ImportsAgree,
              DescriptorsAgree, NamesAgree, ReleasedAfter
<1>6. CASE AnswerPlain
  <2>1. UNCHANGED <<rcs, exports, wireRefs, imports, unknown, toHolder, toHost>>
    BY <1>6 DEF AnswerPlain, tableVars, holderVars
  <2>2. DOMAIN rcs' = DOMAIN rcs
    BY <2>1
  <2>3. UNCHANGED <<exports, wireRefs, imports, unknown, toHolder, toHost>>
    BY <2>1
  <2> QED BY <1>0, <1>5, <2>2, <2>3
<1>7. ASSUME NEW r \in DOMAIN rcs, CloseBackRef(r) PROVE WireInv'
  BY <1>5, <1>7 DEF CloseBackRef, Decref, holderVars
<1>8. CASE \/ \E q \in Questions : ReturnCall(q)
           \/ \E e \in Ids : CloseRef(e) \/ UseImport(e, "call") \/ UseImport(e, "sentBack")
           \/ Bootstrap
  BY <1>0, <1>8, HolderActsKeepsWire
<1>9. CASE UNCHANGED vars
  <2>1. UNCHANGED <<rcs, exports, wireRefs, imports, unknown, toHolder, toHost>>
    BY <1>9 DEF vars
  <2>2. DOMAIN rcs' = DOMAIN rcs
    BY <2>1
  <2>3. UNCHANGED <<exports, wireRefs, imports, unknown, toHolder, toHost>>
    BY <2>1
  <2> QED BY <1>0, <1>5, <2>2, <2>3
<1> QED BY <1>0, <1>1, <1>2, <1>3, <1>4, <1>6, <1>7, <1>8, <1>9 DEF Next

\* The invariant of the references.
LEMMA ConnectedInvHolds == Spec => []ConnectedInv
<1>1. Init => ConnectedInv
  BY InitWireInv DEF ConnectedInv, Init
<1> QED BY <1>1, NextKeepsConnectedInv, CapInvHolds, PTL DEF Spec

\* Export.wireRefs and ImportEntry.refs, while both ends are open: every
\* reference the host counts is the holder's or on its way, and those that it
\* no longer counts are at most as many as the calls, of the same capability,
\* that the holder did not know and gave back although it keeps them.
THEOREM ReferencesBalance == Spec => []WireRefsAgree
<1>1. CapInv /\ ConnectedInv => WireRefsAgree
  <2> SUFFICES ASSUME CapInv, WireInv, NEW e \in Ids
               PROVE  wireRefs[e] <= Held(e) /\ Held(e) <= wireRefs[e] + unknown[e]
    BY DEF ConnectedInv, WireRefsAgree
  <2>1. wireRefs[e] <= Held(e) /\ Held(e) + Returning(e) <= wireRefs[e] + unknown[e]
    BY DEF WireInv, ReferencesAgree
  <2>2. /\ Returning(e) \in Nat /\ wireRefs[e] \in Nat /\ unknown[e] \in Nat
        /\ Introduced(e) \in Nat /\ Released(e) \in Nat /\ Own(e) \in Nat /\ imports[e].refs \in Nat
    BY CountsTyped
  <2>3. Held(e) \in Nat
    BY <2>2 DEF Held
  <2> QED BY <2>1, <2>2, <2>3
<1> QED BY <1>1, CapInvHolds, ConnectedInvHolds, PTL

\* A call or a capability that comes back finds the RefCount its sender was
\* given, never a later one under the same id, unless the id was passed in a
\* call that the holder did not know.
THEOREM NamesNeverGoStale == Spec => []NamesReachTheirObject
<1>1. CapInv /\ ConnectedInv => NamesReachTheirObject
  <2> SUFFICES ASSUME CapInv, WireInv, NEW m \in Range(toHost), m = Head(toHost),
                      m.type \in {"call", "sentBack"}, unknown[m.id] = 0
               PROVE  exports[m.id] = m.rc
    BY DEF NamesReachTheirObject, ConnectedInv
  <2>1. toHost \in Seq(HostMessage) /\ toHost # <<>>
    BY RangeOfEmpty DEF CapInv, MessagesOK
  <2>2. m = toHost[1] /\ 1 \in DOMAIN toHost
    BY <2>1, HeadTailProperties, EmptySeq, LenProperties
  <2> QED BY <2>2 DEF WireInv, NamesAgree
<1> QED BY <1>1, CapInvHolds, ConnectedInvHolds, PTL

-----------------------------------------------------------------------------
(* Objects are closed with the last reference of a RefCount.               *)

\* What was closed was closed by a RefCount that has no reference left.
ClosedInv ==
  \A o \in disposed : \E r \in DOMAIN rcs : rcs[r].obj = o /\ rcs[r].refs = 0

\* RefCounts are never used again once they have no reference.
LEMMA RefCountsStayClosed ==
  ASSUME ClosedInv, disposed' = disposed, DOMAIN rcs \subseteq DOMAIN rcs',
         \A r \in DOMAIN rcs : rcs'[r].obj = rcs[r].obj /\ (rcs[r].refs = 0 => rcs'[r].refs = 0)
  PROVE  ClosedInv'
BY DEF ClosedInv

\* RefCount.decref
LEMMA DecrefKeepsClosed ==
  ASSUME TableTypeOK, ClosedInv, NEW R \in SUBSET DOMAIN rcs,
         \A r \in R : rcs[r].refs > 0, Decref(R)
  PROVE  ClosedInv'
<1>1. /\ DOMAIN rcs' = DOMAIN rcs
      /\ \A r \in DOMAIN rcs :
           /\ rcs'[r].obj = rcs[r].obj
           /\ rcs'[r].refs = IF r \in R THEN rcs[r].refs - 1 ELSE rcs[r].refs
  BY DecrefKeepsRcs
<1>2. disposed' = disposed \cup {rcs[r].obj : r \in {x \in R : rcs[x].refs = 1}}
  BY DEF Decref
<1> SUFFICES ASSUME NEW o \in disposed'
             PROVE  \E r \in DOMAIN rcs' : rcs'[r].obj = o /\ rcs'[r].refs = 0
  BY DEF ClosedInv
<1>3. CASE o \in disposed
  <2>1. PICK r \in DOMAIN rcs : rcs[r].obj = o /\ rcs[r].refs = 0
    BY <1>3 DEF ClosedInv
  <2> QED BY <1>1, <2>1
<1>4. ASSUME NEW r \in R, rcs[r].refs = 1, o = rcs[r].obj
      PROVE  \E s \in DOMAIN rcs' : rcs'[s].obj = o /\ rcs'[s].refs = 0
  BY <1>1, <1>4
<1> QED BY <1>2, <1>3, <1>4

\* Conn.releaseExport drops the reference of the table.
LEMMA ReleaseExportKeepsClosed ==
  ASSUME TableOK, ClosedInv, NEW e \in Ids, NEW n \in Nat, releaseExport(e, n)
  PROVE  ClosedInv'
<1>1. CASE UNCHANGED <<rcs, disposed>>
  BY <1>1, RefCountsStayClosed
<1>2. CASE exports[e] # NoRc /\ Decref({exports[e]})
  <2>1. {exports[e]} \in SUBSET DOMAIN rcs /\ \A r \in {exports[e]} : rcs[r].refs > 0
    BY <1>2 DEF TableOK, TableTypeOK, ExportTableOK
  <2> QED BY <1>2, <2>1, DecrefKeepsClosed DEF TableOK
<1> QED BY <1>1, <1>2 DEF releaseExport, tableVars

\* Every step keeps it, whatever is released, returned, sent back or closed.
LEMMA NextKeepsClosed == CapInv /\ ClosedInv /\ [Next]_vars => ClosedInv'
<1> SUFFICES ASSUME CapInv, ClosedInv, [Next]_vars PROVE ClosedInv'
  OBVIOUS
<1>1. TableOK
  BY DEF CapInv
<1>2. ASSUME NEW o \in Objs, NEW e \in Ids, AddExport(o, e) PROVE ClosedInv'
  BY <1>1, <1>2, AddExportKeepsTable, RefCountsStayClosed
<1>3. ASSUME UNCHANGED <<rcs, disposed>> PROVE ClosedInv'
  BY <1>3, RefCountsStayClosed
<1>4. CASE HandleBootstrap
  <2>1. PICK e \in Ids : AddExport(Main, e)
    BY <1>4 DEF HandleBootstrap
  <2> QED BY <1>2, <2>1, CapTablesAssumption
<1>5. CASE HandleSentBack
  <2>1. PICK m \in Range(toHost) :
          /\ ArrivedAtHost(m) /\ exports[m.id] # NoRc
          /\ rcs' = [rcs EXCEPT ![exports[m.id]].refs = @ + 1]
          /\ disposed' = disposed
    BY <1>5 DEF HandleSentBack
  <2>2. exports[m.id] \in DOMAIN rcs /\ rcs[exports[m.id]].refs > 0
    <3>1. m.id \in Ids
      BY <2>1, ArrivesAtHost DEF HostMessage
    <3> QED BY <1>1, <2>1, <3>1 DEF TableOK, TableTypeOK, ExportTableOK
  <2>3. DOMAIN rcs' = DOMAIN rcs /\ \A s \in DOMAIN rcs : rcs'[s].obj = rcs[s].obj
        /\ (s # exports[m.id] => rcs'[s].refs = rcs[s].refs)
    BY <2>1
  <2> QED BY <2>1, <2>2, <2>3, RefCountsStayClosed
<1>6. CASE HandleUnknownExport
  <2>1. Decref(Range(exports) \ {NoRc})
    BY <1>6 DEF HandleUnknownExport
  <2>2. Range(exports) \ {NoRc} \in SUBSET DOMAIN rcs
        /\ \A r \in Range(exports) \ {NoRc} : rcs[r].refs > 0
    BY <1>1 DEF Range, TableOK, TableTypeOK, ExportTableOK
  <2> QED BY <1>1, <2>1, <2>2, DecrefKeepsClosed DEF TableOK
<1>7. CASE HandleRelease
  <2>1. PICK m \in Range(toHost) : ArrivedAtHost(m) /\ releaseExport(m.id, m.count)
    BY <1>7 DEF HandleRelease
  <2>2. m.id \in Ids /\ m.count \in Nat
    BY <2>1, ArrivesAtHost DEF HostMessage
  <2> QED BY <1>1, <2>1, <2>2, ReleaseExportKeepsClosed
<1>8. CASE HandleReturn
  <2>1. PICK m \in Range(toHost) :
          /\ ArrivedAtHost(m)
          /\ IF m.type = "returnReleasing" THEN releaseExport(paramCap[m.question], 1)
             ELSE UNCHANGED tableVars
    BY <1>8 DEF HandleReturn
  <2>2. CASE m.type = "returnReleasing"
    <3>1. m.id \in Ids /\ releaseExport(m.id, 1)
      BY <2>1, <2>2, ArrivesAtHost DEF HostMessage
    <3> QED BY <1>1, <3>1, ReleaseExportKeepsClosed
  <2>3. CASE UNCHANGED tableVars
    BY <1>3, <2>3 DEF tableVars
  <2> QED BY <2>1, <2>2, <2>3
<1>9. CASE HandleCall \/ AnswerPlain
  BY <1>3, <1>9 DEF HandleCall, AnswerPlain, tableVars
<1>10. CASE \/ HolderHandles \/ Bootstrap
            \/ \E q \in Questions : ReturnCall(q)
            \/ \E e \in Ids : CloseRef(e) \/ UseImport(e, "call") \/ UseImport(e, "sentBack")
            \/ UNCHANGED vars
  <2>1. UNCHANGED <<rcs, disposed>>
    BY <1>10 DEF HolderHandles, HandleResults, HandleParam, HandleParamUnimplemented, HandleAbort,
         Bootstrap, ReturnCall, CloseRef, UseImport, hostVars, tableVars, vars
  <2> QED BY <1>3, <2>1
<1>11. CASE \/ \E q \in Questions, o \in Objs : PassParam(q, o)
            \/ \E o \in Objs : AnswerWith(o)
  BY <1>2, <1>11 DEF PassParam, AnswerWith
<1>12. ASSUME NEW r \in DOMAIN rcs, CloseBackRef(r) PROVE ClosedInv'
  <2>1. {r} \in SUBSET DOMAIN rcs /\ Decref({r}) /\ \A s \in {r} : rcs[s].refs > 0
    BY <1>1, <1>12, RefCountsTyped DEF CloseBackRef, TableOK
  <2> QED BY <1>1, <2>1, DecrefKeepsClosed DEF TableOK
<1> QED BY <1>4, <1>5, <1>6, <1>7, <1>8, <1>9, <1>10, <1>11, <1>12 DEF Next, HostHandles

\* RefCount.decref: what an entry of the table stands for has been closed by
\* another RefCount, one that addExport made for the same object, or not at
\* all. Releases, double releases, closed Refs and shutdown() in any order
\* close no object under an entry of its only RefCount.
THEOREM ClosedByAnotherRefCount == Spec => []ClosedOnlyIfWrappedAgain
<1>1. Init => ClosedInv
  BY DEF Init, ClosedInv
<1>2. CapInv /\ ClosedInv => ClosedOnlyIfWrappedAgain
  <2> SUFFICES ASSUME CapInv, ClosedInv, NEW e \in Ids, exports[e] # NoRc,
                      rcs[exports[e]].obj \in disposed
               PROVE  \E r \in DOMAIN rcs \ {exports[e]} :
                        rcs[r].obj = rcs[exports[e]].obj /\ rcs[r].refs = 0
    BY DEF ClosedOnlyIfWrappedAgain
  <2>1. rcs[exports[e]].refs > 0
    BY DEF CapInv, TableOK, ExportTableOK
  <2>2. PICK r \in DOMAIN rcs : rcs[r].obj = rcs[exports[e]].obj /\ rcs[r].refs = 0
    BY DEF ClosedInv
  <2>3. r # exports[e]
    BY <2>1, <2>2
  <2> QED BY <2>2, <2>3
<1> QED BY <1>1, <1>2, NextKeepsClosed, CapInvHolds, PTL DEF Spec
=============================================================================
