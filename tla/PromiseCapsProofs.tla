-------------------------- MODULE PromiseCapsProofs --------------------------
(***************************************************************************)
(* Proofs about PromiseCaps: the tables and queues of both vats keep their *)
(* types whatever they do; as long as no id is used again under a question *)
(* that is still asked ("reuse pending") both vats agree on the references *)
(* to every exported promise, and a promise becomes what its own question  *)
(* was answered with; and its calls keep their order whichever way they go *)
(* if, besides, no import is closed under embargo ("close embargoed").     *)
(***************************************************************************)
EXTENDS PromiseCaps, SequenceLemmas, TLAPS

\* The messages, as the handlers build them.
HostMessage ==
  [type : {"call"}, id : {0} \cup Ids, num : Calls, to : {"none"}]
    \cup [type : {"release"}, id : Ids, num : Nat, to : {"none"}]
    \cup [type : {"loopback"}, id : Ids, num : EmbargoIds, to : {"none"}]

HolderMessage ==
  [type : {"promise"}, id : Ids, num : Promises, to : {"none"}]
    \cup [type : {"resolve"}, id : Ids, num : Promises, to : Resolutions]
    \cup [type : {"call"}, id : {0}, num : Calls, to : {"none"}]
    \cup [type : {"echo"}, id : {0}, num : EmbargoIds, to : {"none"}]

ImportEntry ==
  [refs : Nat, local : Nat, isPromise : BOOLEAN,
   resolved : {"none", "known", "back", "broken", "self"},
   embargo : {0} \cup EmbargoIds, of : {0} \cup Promises]

TableTypes ==
  /\ entry \in [Ids -> {0} \cup Promises] /\ wireRefs \in [Ids -> Nat]
  /\ free \in Seq(Ids) /\ next \in 1..(MaxId + 1)
  /\ index \in [Promises -> {0} \cup Ids]

HostTypes ==
  /\ question \in [Promises -> {"pending"} \cup Resolutions]
  /\ awaiting \subseteq Promises \X Ids
  /\ client \in [Promises -> {"none"} \cup Resolutions]

QueueTypes ==
  /\ queue \in [Promises -> Seq(Calls)]
  /\ \A p \in Promises : Len(queue[p]) <= QueueCap

HolderTypes ==
  /\ imports \in [Ids -> ImportEntry]
  /\ \A i \in Ids : imports[i].refs >= imports[i].local
  /\ disembargoes \in [EmbargoIds -> {0} \cup Ids]
  /\ flushing \in {0} \cup Ids /\ inHand \in {0} \cup Calls
  /\ made \in 0..NCalls /\ via \in [Calls -> {0} \cup Promises]

EmbargoTypes ==
  /\ embargoed \in [Ids -> Seq(Calls)]
  /\ \A i \in Ids : Len(embargoed[i]) <= QueueCap

OutcomeTypes ==
  /\ delivered \in [Promises -> Seq(Calls)]
  /\ dropped \subseteq Calls

ChannelTypes ==
  /\ toHost \in Seq(HostMessage)
  /\ toHolder \in Seq(HolderMessage)

TypeInv ==
  TableTypes /\ HostTypes /\ QueueTypes /\ HolderTypes /\ EmbargoTypes
    /\ OutcomeTypes /\ ChannelTypes

-----------------------------------------------------------------------------
(* The types, action by action.                                            *)

\* Messages as the handlers build them are messages.
LEMMA MessagesTyped ==
  /\ \A i \in Ids, p \in Promises : Msg("promise", i, p, "none") \in HolderMessage
  /\ \A i \in Ids, p \in Promises, r \in Resolutions : Msg("resolve", i, p, r) \in HolderMessage
  /\ \A c \in Calls : Msg("call", 0, c, "none") \in HolderMessage
  /\ \A e \in EmbargoIds : Msg("echo", 0, e, "none") \in HolderMessage
  /\ \A i \in {0} \cup Ids, c \in Calls : Msg("call", i, c, "none") \in HostMessage
  /\ \A i \in Ids, n \in Nat : Msg("release", i, n, "none") \in HostMessage
  /\ \A i \in Ids, e \in EmbargoIds : Msg("loopback", i, e, "none") \in HostMessage
BY DEF Msg, HolderMessage, HostMessage

\* A message the host takes, and what is left.
LEMMA HostTakesTyped ==
  ASSUME ChannelTypes, NEW type, HostTakes(type)
  PROVE  /\ Head(toHost) \in HostMessage /\ Head(toHost).type = type
         /\ toHost # <<>> /\ toHost' = Tail(toHost) /\ toHost' \in Seq(HostMessage)
<1>1. toHost \in Seq(HostMessage) /\ toHost # <<>>
  BY DEF ChannelTypes, HostTakes
<1>2. Head(toHost) \in HostMessage /\ Tail(toHost) \in Seq(HostMessage)
  BY <1>1, RangeOfTail
<1> QED BY <1>1, <1>2 DEF HostTakes

\* A message the holder takes.
LEMMA HolderTakesTyped ==
  ASSUME ChannelTypes, NEW type, HolderTakes(type)
  PROVE  /\ Head(toHolder) \in HolderMessage /\ Head(toHolder).type = type
         /\ toHolder # <<>> /\ toHolder' = Tail(toHolder) /\ toHolder' \in Seq(HolderMessage)
         /\ flushing = 0
<1>1. toHolder \in Seq(HolderMessage) /\ toHolder # <<>>
  BY DEF ChannelTypes, HolderTakes
<1>2. Head(toHolder) \in HolderMessage /\ Tail(toHolder) \in Seq(HolderMessage)
  BY <1>1, RangeOfTail
<1> QED BY <1>1, <1>2 DEF HolderTakes

\* What the messages carry.
LEMMA HostMessageFields ==
  ASSUME NEW m \in HostMessage
  PROVE  /\ m.type = "call" => m.id \in {0} \cup Ids /\ m.num \in Calls
         /\ m.type = "release" => m.id \in Ids /\ m.num \in Nat
         /\ m.type = "loopback" => m.id \in Ids /\ m.num \in EmbargoIds
BY DEF HostMessage

LEMMA HolderMessageFields ==
  ASSUME NEW m \in HolderMessage
  PROVE  /\ m.type = "promise" => m.id \in Ids /\ m.num \in Promises
         /\ m.type = "resolve" => m.id \in Ids /\ m.num \in Promises /\ m.to \in Resolutions
         /\ m.type = "call" => m.id = 0 /\ m.num \in Calls
         /\ m.type = "echo" => m.id = 0 /\ m.num \in EmbargoIds
         /\ m.type # "resolve" => m.to = "none"
BY DEF HolderMessage

\* A call at the end of a queue.
LEMMA QueueGrows ==
  ASSUME NEW P, NEW q \in [P -> Seq(Calls)], NEW e \in P, NEW c \in Calls,
         NEW r, r = [q EXCEPT ![e] = Append(@, c)]
  PROVE  /\ r \in [P -> Seq(Calls)]
         /\ r[e] = Append(q[e], c) /\ Len(r[e]) = Len(q[e]) + 1 /\ Len(q[e]) \in Nat
         /\ \A p \in P : p # e => r[p] = q[p]
<1>1. /\ Append(q[e], c) \in Seq(Calls) /\ Len(Append(q[e], c)) = Len(q[e]) + 1
      /\ Len(q[e]) \in Nat
  BY AppendProperties, LenProperties
<1> QED BY <1>1

\* A call is delivered through a promise, or to nothing the model looks at.
LEMMA DeliveredTyped ==
  ASSUME OutcomeTypes, NEW c \in Calls, NEW p,
         delivered' = [delivered EXCEPT ![p] = Append(@, c)], dropped' = dropped
  PROVE  OutcomeTypes'
<1>1. CASE p \in Promises
  BY <1>1, QueueGrows DEF OutcomeTypes
<1>2. CASE p \notin Promises
  <2>1. delivered' = delivered
    BY <1>2 DEF OutcomeTypes
  <2> QED BY <2>1 DEF OutcomeTypes
<1> QED BY <1>1, <1>2

LEMMA DroppedTyped ==
  ASSUME OutcomeTypes, NEW C, C \subseteq Calls, Drop(C), delivered' = delivered
  PROVE  OutcomeTypes'
BY DEF OutcomeTypes, Drop

LEMMA RangeTyped ==
  ASSUME NEW s \in Seq(Calls)
  PROVE  Range(s) \subseteq Calls
BY RangeIsElements

\* The queue of a promise sent on.
LEMMA ForwardsTyped ==
  ASSUME NEW s \in Seq(Calls)
  PROVE  /\ Forwards(s) \in Seq(HolderMessage) /\ Len(Forwards(s)) = Len(s)
         /\ Len(s) \in Nat /\ DOMAIN Forwards(s) = 1..Len(s)
         /\ \A k \in 1..Len(s) : Forwards(s)[k] = Msg("call", 0, s[k], "none") /\ s[k] \in Calls
<1>1. Len(s) \in Nat /\ \A k \in 1..Len(s) : s[k] \in Calls
  BY LenProperties, ElementOfSeq
<1>2. Forwards(s) \in [1..Len(s) -> HolderMessage]
  BY <1>1, MessagesTyped DEF Forwards
<1>3. \A k \in 1..Len(s) : Forwards(s)[k] = Msg("call", 0, s[k], "none")
  BY DEF Forwards
<1> QED BY <1>1, <1>2, <1>3, SeqOfFunction

LEMMA IdsArePositive == \A i \in Ids : i \in Int /\ i # 0
BY PromiseCapsAssumption DEF Ids

LEMMA InitTypeInv == Init => TypeInv
<1> SUFFICES ASSUME Init PROVE TypeInv
  OBVIOUS
<1> USE PromiseCapsAssumption
<1>1. TableTypes /\ HostTypes
  BY DEF Init, TableTypes, HostTypes, Promises, Ids
<1>2. <<>> \in Seq(Calls) /\ Len(<<>>) = 0
  OBVIOUS
<1>3. QueueTypes /\ EmbargoTypes /\ OutcomeTypes /\ ChannelTypes
  BY <1>2 DEF Init, QueueTypes, EmbargoTypes, OutcomeTypes, ChannelTypes
<1>4. HolderTypes
  BY DEF Init, HolderTypes, NoImport, ImportEntry
<1> QED BY <1>1, <1>3, <1>4 DEF TypeInv

-----------------------------------------------------------------------------

LEMMA PassPromiseKeepsTypes ==
  ASSUME TypeInv, NEW p \in Promises, PassPromise(p)
  PROVE  TypeInv'
<1> USE DEF TypeInv
<1>1. UNCHANGED <<question, holderVars, toHost, delivered, dropped>>
  BY DEF PassPromise
<1>2. HolderTypes' /\ EmbargoTypes' /\ OutcomeTypes'
  BY <1>1 DEF holderVars, HolderTypes, EmbargoTypes, OutcomeTypes
<1>3. CASE PassAgain(p)
  <2>1. index[p] \in Ids /\ entry[index[p]] # 0
    BY <1>3 DEF PassAgain, Listed
  <2>2. TableTypes' /\ HostTypes' /\ QueueTypes'
    BY <1>1, <1>3, <2>1 DEF PassAgain, TableTypes, HostTypes, QueueTypes
  <2>3. ChannelTypes'
    <3>1. Msg("promise", index[p], p, "none") \in HolderMessage
      BY <2>1, MessagesTyped
    <3> QED BY <1>1, <1>3, <3>1, AppendProperties DEF PassAgain, ChannelTypes
  <2> QED BY <1>2, <2>2, <2>3
<1>4. CASE PassNew(p)
  <2> DEFINE i == IdToUse
  <2>1. /\ i \in Ids /\ TakeId
        /\ entry' = [entry EXCEPT ![i] = p] /\ wireRefs' = [wireRefs EXCEPT ![i] = 1]
        /\ index' = [index EXCEPT ![p] = i] /\ awaiting' = awaiting \cup {<<p, i>>}
        /\ client' = [client EXCEPT ![p] = "none"] /\ queue' = [queue EXCEPT ![p] = <<>>]
        /\ toHolder' = Append(toHolder, Msg("promise", i, p, "none"))
    BY <1>4 DEF PassNew
  <2>2. free' \in Seq(Ids) /\ next' \in 1..(MaxId + 1)
    <3>1. CASE free = <<>>
      BY <2>1, <3>1, PromiseCapsAssumption DEF TakeId, IdToUse, Ids, TableTypes
    <3>2. CASE free # <<>>
      <4>1. free' = Tail(free) /\ next' = next
        BY <2>1, <3>2 DEF TakeId
      <4>2. free \in Seq(Ids)
        BY DEF TableTypes
      <4>3. Tail(free) \in Seq(Ids)
        BY ONLY <3>2, <4>2, RangeOfTail
      <4> QED BY <4>1, <4>3 DEF TableTypes
    <3> QED BY <3>1, <3>2
  <2> HIDE DEF i
  <2>3. TableTypes' /\ HostTypes'
    BY <1>1, <2>1, <2>2 DEF TableTypes, HostTypes
  <2>4. QueueTypes'
    <3>1. <<>> \in Seq(Calls) /\ Len(<<>>) = 0 /\ 0 <= QueueCap
      BY PromiseCapsAssumption
    <3> QED BY <2>1, <3>1 DEF QueueTypes
  <2>5. ChannelTypes'
    <3>1. Msg("promise", i, p, "none") \in HolderMessage
      BY <2>1, MessagesTyped
    <3> QED BY <1>1, <2>1, <3>1, AppendProperties DEF ChannelTypes
  <2> QED BY <1>2, <2>3, <2>4, <2>5
<1> QED BY <1>3, <1>4 DEF PassPromise

LEMMA QuestionSettlesKeepsTypes ==
  ASSUME TypeInv, NEW p \in Promises, QuestionSettles(p)
  PROVE  TypeInv'
<1>1. PICK r \in Answers : question' = [question EXCEPT ![p] = r]
  BY DEF QuestionSettles
<1>2. r \in Resolutions
  BY PromiseCapsAssumption
<1>3. HostTypes'
  BY <1>1, <1>2 DEF QuestionSettles, TypeInv, HostTypes
<1> QED BY <1>3 DEF QuestionSettles, holderVars, TypeInv, TableTypes, QueueTypes, HolderTypes,
      EmbargoTypes, OutcomeTypes, ChannelTypes

LEMMA SettleKeepsTypes ==
  ASSUME TypeInv, NEW e \in Promises, NEW i \in Ids, NEW r \in Resolutions,
         Settle(e, i, r), awaiting' \subseteq awaiting,
         UNCHANGED <<question, entry, free, next, index, passed, holderVars, toHost>>
  PROVE  TypeInv'
<1> USE DEF TypeInv
<1>1. queue[e] \in Seq(Calls)
  BY DEF QueueTypes
<1>2. TableTypes' /\ HostTypes' /\ HolderTypes' /\ EmbargoTypes'
  BY DEF Settle, TableTypes, HostTypes, HolderTypes, EmbargoTypes, holderVars
<1>3. QueueTypes'
  <2>1. <<>> \in Seq(Calls) /\ Len(<<>>) = 0 /\ 0 <= QueueCap
    BY PromiseCapsAssumption
  <2> QED BY <2>1 DEF Settle, QueueTypes
<1>4. OutcomeTypes'
  <2>1. Range(queue[e]) \subseteq Calls
    BY <1>1, RangeTyped
  <2>2. dropped' \subseteq Calls
    BY <2>1 DEF Settle, Drop, OutcomeTypes
  <2>3. delivered' \in [Promises -> Seq(Calls)]
    <3>1. delivered[e] \in Seq(Calls)
      BY DEF OutcomeTypes
    <3>2. delivered[e] \o queue[e] \in Seq(Calls)
      BY <1>1, <3>1, ConcatProperties
    <3> QED BY <3>2 DEF Settle, OutcomeTypes
  <2> QED BY <2>2, <2>3 DEF OutcomeTypes
<1>5. ChannelTypes'
  <2> DEFINE fwd == IF r = "back" THEN Forwards(queue[e]) ELSE <<>>
  <2>1. fwd \in Seq(HolderMessage)
    BY <1>1, ForwardsTyped
  <2>2. <<Msg("resolve", i, e, r)>> \in Seq(HolderMessage)
    <3>1. Msg("resolve", i, e, r) \in HolderMessage
      BY MessagesTyped
    <3> QED BY <3>1
  <2>3. toHolder' = toHolder \o fwd \o <<Msg("resolve", i, e, r)>>
    BY DEF Settle
  <2> HIDE DEF fwd
  <2>4. toHolder \o fwd \in Seq(HolderMessage)
    BY <2>1, ConcatProperties DEF ChannelTypes
  <2>5. toHolder' \in Seq(HolderMessage)
    BY <2>2, <2>3, <2>4, ConcatProperties
  <2> QED BY <2>5 DEF ChannelTypes
<1> QED BY <1>2, <1>3, <1>4, <1>5

LEMMA ContinueKeepsTypes ==
  ASSUME TypeInv, NEW p \in Promises, NEW i \in Ids, Continue(p, i)
  PROVE  TypeInv'
<1>1. /\ awaiting' \subseteq awaiting
      /\ UNCHANGED <<question, entry, free, next, index, passed, holderVars, toHost>>
      /\ question[p] \in Resolutions
  BY DEF Continue, TypeInv, HostTypes
<1>2. CASE UNCHANGED <<client, queue, wireRefs, toHolder, delivered, dropped>>
  BY <1>1, <1>2 DEF holderVars, TypeInv, TableTypes, HostTypes, QueueTypes, HolderTypes,
       EmbargoTypes, OutcomeTypes, ChannelTypes
<1>3. CASE entry[i] # 0 /\ Settle(entry[i], i, question[p])
  <2>1. entry[i] \in Promises
    BY <1>3 DEF TypeInv, TableTypes
  <2> QED BY <1>1, <1>3, <2>1, SettleKeepsTypes
<1> QED BY <1>2, <1>3 DEF Continue

\* PromiseExportClient.call, whatever became of the promise.
LEMMA ExportCallKeepsTypes ==
  ASSUME TypeInv, NEW e \in Promises, NEW c \in Calls, ExportCall(e, c)
  PROVE  /\ QueueTypes' /\ OutcomeTypes'
         /\ toHolder' \in Seq(HolderMessage)
<1> USE DEF TypeInv
<1>1. CASE /\ client[e] \in {"none", "broken"}
           /\ IF Len(queue[e]) = QueueCap
              THEN Drop({c}) /\ UNCHANGED queue
              ELSE queue' = [queue EXCEPT ![e] = Append(@, c)] /\ UNCHANGED dropped
           /\ UNCHANGED <<delivered, toHolder>>
  <2>1. QueueTypes'
    <3>1. CASE queue' = queue
      BY <3>1 DEF QueueTypes
    <3>2. CASE Len(queue[e]) # QueueCap /\ queue' = [queue EXCEPT ![e] = Append(@, c)]
      <4>1. /\ queue' \in [Promises -> Seq(Calls)]
            /\ Len(queue'[e]) = Len(queue[e]) + 1 /\ Len(queue[e]) \in Nat
            /\ \A p \in Promises : p # e => queue'[p] = queue[p]
        BY <3>2, QueueGrows DEF QueueTypes
      <4> QED BY <3>2, <4>1, PromiseCapsAssumption DEF QueueTypes
    <3> QED BY <1>1, <3>1, <3>2
  <2>2. OutcomeTypes'
    BY <1>1, DroppedTyped DEF OutcomeTypes
  <2> QED BY <1>1, <2>1, <2>2 DEF ChannelTypes
<1>2. CASE /\ client[e] \in {"known", "fresh"}
           /\ Deliver(c)
           /\ UNCHANGED <<queue, toHolder, dropped>>
  BY <1>2, DeliveredTyped DEF Deliver, QueueTypes, ChannelTypes
<1>3. CASE /\ client[e] = "back"
           /\ toHolder' = toHolder \o Forwards(<<c>>)
           /\ UNCHANGED <<queue, delivered, dropped>>
  <2>1. Forwards(<<c>>) \in Seq(HolderMessage)
    <3>1. <<c>> \in Seq(Calls)
      OBVIOUS
    <3> QED BY <3>1, ForwardsTyped
  <2> QED BY <1>3, <2>1, ConcatProperties DEF QueueTypes, OutcomeTypes, ChannelTypes
<1> QED BY <1>1, <1>2, <1>3 DEF ExportCall

LEMMA HandleCallKeepsTypes ==
  ASSUME TypeInv, HandleCall
  PROVE  TypeInv'
<1> DEFINE m == Head(toHost)
<1> USE DEF TypeInv
<1>1. /\ m \in HostMessage /\ m.type = "call" /\ toHost' \in Seq(HostMessage)
  BY HostTakesTyped DEF HandleCall
<1>2. m.id \in {0} \cup Ids /\ m.num \in Calls
  BY <1>1, HostMessageFields
<1>3. /\ \/ m.id = 0 /\ Deliver(m.num) /\ UNCHANGED <<queue, toHolder, dropped>>
         \/ m.id # 0 /\ entry[m.id] # 0 /\ ExportCall(entry[m.id], m.num)
      /\ UNCHANGED <<question, entry, wireRefs, free, next, index, awaiting, client,
                     passed, holderVars>>
  BY DEF HandleCall
<1> HIDE DEF m
<1>4. TableTypes' /\ HostTypes' /\ HolderTypes' /\ EmbargoTypes'
  BY <1>3 DEF TableTypes, HostTypes, HolderTypes, EmbargoTypes, holderVars
<1>5. CASE m.id = 0 /\ Deliver(m.num) /\ UNCHANGED <<queue, toHolder, dropped>>
  BY <1>1, <1>2, <1>4, <1>5, DeliveredTyped DEF Deliver, QueueTypes, ChannelTypes
<1>6. CASE m.id # 0 /\ entry[m.id] # 0 /\ ExportCall(entry[m.id], m.num)
  <2>1. entry[m.id] \in Promises
    BY <1>2, <1>6 DEF TableTypes
  <2> QED BY <1>1, <1>2, <1>4, <1>6, <2>1, ExportCallKeepsTypes DEF ChannelTypes
<1> QED BY <1>3, <1>5, <1>6

LEMMA HandleReleaseKeepsTypes ==
  ASSUME TypeInv, HandleRelease
  PROVE  TypeInv'
<1> DEFINE m == Head(toHost)
           e == entry[m.id]
<1> USE DEF TypeInv
<1>1. m \in HostMessage /\ m.type = "release" /\ toHost' \in Seq(HostMessage)
  BY HostTakesTyped DEF HandleRelease
<1>2. m.id \in Ids /\ m.num \in Nat
  BY <1>1, HostMessageFields
<1>3. /\ wireRefs' = [wireRefs EXCEPT ![m.id] = IF @ > m.num THEN @ - m.num ELSE 0]
      /\ IF e = 0 \/ wireRefs[m.id] > m.num
         THEN UNCHANGED <<entry, free, queue, dropped>>
         ELSE /\ entry' = [entry EXCEPT ![m.id] = 0]
              /\ free' = <<m.id>> \o free
              /\ Drop(Range(queue[e]))
              /\ queue' = [queue EXCEPT ![e] = <<>>]
      /\ UNCHANGED <<question, next, index, awaiting, client, passed, holderVars, toHolder,
                     delivered>>
  BY DEF HandleRelease
<1> HIDE DEF m
<1>4. HostTypes' /\ HolderTypes' /\ EmbargoTypes' /\ ChannelTypes'
  BY <1>1, <1>3 DEF HostTypes, HolderTypes, EmbargoTypes, ChannelTypes, holderVars
<1>5. wireRefs' \in [Ids -> Nat] /\ entry' \in [Ids -> {0} \cup Promises]
  <2>1. wireRefs \in [Ids -> Nat] /\ entry \in [Ids -> {0} \cup Promises]
    BY DEF TableTypes
  <2>2. (IF wireRefs[m.id] > m.num THEN wireRefs[m.id] - m.num ELSE 0) \in Nat
    BY <1>2, <2>1
  <2> QED BY <1>2, <1>3, <2>1, <2>2
<1>6. free' \in Seq(Ids)
  <2>1. <<m.id>> \in Seq(Ids) /\ free \in Seq(Ids)
    BY <1>2 DEF TableTypes
  <2>2. <<m.id>> \o free \in Seq(Ids)
    BY <2>1, ConcatProperties
  <2> QED BY <1>3, <2>1, <2>2
<1>7. TableTypes'
  BY <1>3, <1>5, <1>6 DEF TableTypes
<1>8. QueueTypes' /\ OutcomeTypes'
  <2>1. CASE UNCHANGED <<queue, dropped>>
    BY <1>3, <2>1 DEF QueueTypes, OutcomeTypes
  <2>2. CASE e # 0 /\ Drop(Range(queue[e])) /\ queue' = [queue EXCEPT ![e] = <<>>]
    <3>1. e \in Promises
      BY <1>2, <2>2 DEF TableTypes
    <3> HIDE DEF e
    <3>2. Range(queue[e]) \subseteq Calls
      BY <3>1, RangeTyped DEF QueueTypes
    <3>3. <<>> \in Seq(Calls) /\ Len(<<>>) = 0 /\ 0 <= QueueCap
      BY PromiseCapsAssumption
    <3>4. QueueTypes'
      BY <2>2, <3>1, <3>3 DEF QueueTypes
    <3> QED BY <1>3, <2>2, <3>2, <3>4, DroppedTyped
  <2> QED BY <1>3, <2>1, <2>2
<1> QED BY <1>4, <1>7, <1>8

LEMMA HandleSenderLoopbackKeepsTypes ==
  ASSUME TypeInv, HandleSenderLoopback
  PROVE  TypeInv'
<1> DEFINE m == Head(toHost)
<1>1. /\ m \in HostMessage /\ m.type = "loopback" /\ toHost' \in Seq(HostMessage)
      /\ toHolder \in Seq(HolderMessage)
  BY HostTakesTyped DEF HandleSenderLoopback, TypeInv, ChannelTypes
<1>2. m.num \in EmbargoIds
  BY <1>1, HostMessageFields
<1>3. Msg("echo", 0, m.num, "none") \in HolderMessage
  BY <1>2, MessagesTyped
<1>4. ChannelTypes'
  BY <1>1, <1>3, AppendProperties DEF HandleSenderLoopback, ChannelTypes
<1> QED BY <1>4 DEF HandleSenderLoopback, hostVars, holderVars, TypeInv, TableTypes, HostTypes,
      QueueTypes, HolderTypes, EmbargoTypes, OutcomeTypes

LEMMA HandlePromiseKeepsTypes ==
  ASSUME TypeInv, HandlePromise
  PROVE  TypeInv'
<1> DEFINE m == Head(toHolder)
<1>1. /\ m \in HolderMessage /\ m.type = "promise" /\ toHolder' \in Seq(HolderMessage)
      /\ toHost' \in Seq(HostMessage)
  BY HolderTakesTyped DEF HandlePromise, TypeInv, ChannelTypes
<1>2. m.id \in Ids /\ m.num \in Promises
  BY <1>1, HolderMessageFields
<1>3. imports' = IF imports[m.id].refs = 0
                 THEN [imports EXCEPT ![m.id] = PromiseImport(m.num)]
                 ELSE [imports EXCEPT ![m.id].refs = @ + 1, ![m.id].local = @ + 1,
                                      ![m.id].isPromise = TRUE]
  BY DEF HandlePromise
<1> HIDE DEF m
<1>4. imports \in [Ids -> ImportEntry] /\ \A i \in Ids : imports[i].refs >= imports[i].local
  BY DEF TypeInv, HolderTypes
<1>5. /\ imports'[m.id] \in ImportEntry
      /\ imports'[m.id].refs >= imports'[m.id].local
      /\ imports' \in [Ids -> ImportEntry]
      /\ \A i \in Ids : i # m.id => imports'[i] = imports[i]
  <2>1. imports[m.id] \in ImportEntry /\ imports[m.id].refs >= imports[m.id].local
    BY <1>2, <1>4
  <2>2. CASE imports[m.id].refs = 0
    BY <1>2, <1>3, <1>4, <2>2 DEF PromiseImport, ImportEntry
  <2>3. CASE imports[m.id].refs # 0
    BY <1>2, <1>3, <1>4, <2>1, <2>3 DEF ImportEntry
  <2> QED BY <2>2, <2>3
<1>6. HolderTypes'
  BY <1>4, <1>5 DEF HandlePromise, TypeInv, HolderTypes
<1> QED BY <1>1, <1>6 DEF HandlePromise, hostVars, TypeInv, TableTypes, HostTypes,
      QueueTypes, EmbargoTypes, OutcomeTypes, ChannelTypes

\* What ResolveImport may do.
LEMMA ResolveImportTyped ==
  ASSUME HolderTypes, toHost \in Seq(HostMessage),
         NEW m \in HolderMessage, m.type = "resolve",
         ResolveImport(m) \/ DiscardResolved(m)
  PROVE  /\ imports' \in [Ids -> ImportEntry]
         /\ \A i \in Ids : imports'[i].refs >= imports'[i].local
         /\ disembargoes' \in [EmbargoIds -> {0} \cup Ids]
         /\ toHost' \in Seq(HostMessage)
<1>1. m.id \in Ids /\ m.to \in Resolutions
  BY HolderMessageFields
<1>2. /\ imports \in [Ids -> ImportEntry] /\ \A i \in Ids : imports[i].refs >= imports[i].local
      /\ disembargoes \in [EmbargoIds -> {0} \cup Ids]
  BY DEF HolderTypes
<1>3. imports[m.id] \in ImportEntry /\ imports[m.id].refs >= imports[m.id].local
  BY <1>1, <1>2
<1>4. CASE /\ m.to = "back"
           /\ \E e \in EmbargoIds :
                /\ disembargoes[e] = 0
                /\ imports' = [imports EXCEPT ![m.id].resolved = "back",
                                              ![m.id].isPromise = FALSE, ![m.id].embargo = e]
                /\ disembargoes' = [disembargoes EXCEPT ![e] = m.id]
                /\ toHost' = Append(toHost, Msg("loopback", m.id, e, "none"))
  <2>1. PICK e \in EmbargoIds :
          /\ imports' = [imports EXCEPT ![m.id].resolved = "back",
                                        ![m.id].isPromise = FALSE, ![m.id].embargo = e]
          /\ disembargoes' = [disembargoes EXCEPT ![e] = m.id]
          /\ toHost' = Append(toHost, Msg("loopback", m.id, e, "none"))
    BY <1>4
  <2>2. Msg("loopback", m.id, e, "none") \in HostMessage
    BY <1>1, MessagesTyped
  <2>3. toHost' \in Seq(HostMessage)
    BY <2>1, <2>2, AppendProperties
  <2>4. disembargoes' \in [EmbargoIds -> {0} \cup Ids]
    BY <1>1, <1>2, <2>1
  <2>5. imports' \in [Ids -> ImportEntry] /\ \A i \in Ids : imports'[i].refs >= imports'[i].local
    BY <1>1, <1>2, <1>3, <2>1 DEF ImportEntry
  <2> QED BY <2>3, <2>4, <2>5
<1>5. CASE /\ m.to \in {"known", "broken"}
           /\ imports' = [imports EXCEPT ![m.id].resolved = m.to, ![m.id].isPromise = FALSE]
           /\ UNCHANGED <<disembargoes, toHost>>
  BY <1>1, <1>2, <1>3, <1>5 DEF ImportEntry
<1>6. CASE /\ m.to = "fresh"
           /\ imports' = [imports EXCEPT ![m.id].resolved = "self", ![m.id].isPromise = FALSE,
                                         ![m.id].refs = @ + 1]
           /\ UNCHANGED <<disembargoes, toHost>>
  BY <1>1, <1>2, <1>3, <1>6 DEF ImportEntry
<1>7. CASE DiscardResolved(m)
  <2>1. Msg("release", m.id, 1, "none") \in HostMessage
    BY <1>1, MessagesTyped
  <2> QED BY <1>2, <1>7, <2>1, AppendProperties DEF DiscardResolved
<1> QED BY <1>4, <1>5, <1>6, <1>7 DEF ResolveImport

LEMMA HandleResolveKeepsTypes ==
  ASSUME TypeInv, HandleResolve
  PROVE  TypeInv'
<1> DEFINE m == Head(toHolder)
<1>1. /\ m \in HolderMessage /\ m.type = "resolve" /\ toHolder' \in Seq(HolderMessage)
      /\ toHost \in Seq(HostMessage)
  BY HolderTakesTyped DEF HandleResolve, TypeInv, ChannelTypes
<1>2. ResolveImport(m) \/ DiscardResolved(m)
  BY DEF HandleResolve
<1> HIDE DEF m
<1>3. /\ imports' \in [Ids -> ImportEntry]
      /\ \A i \in Ids : imports'[i].refs >= imports'[i].local
      /\ disembargoes' \in [EmbargoIds -> {0} \cup Ids]
      /\ toHost' \in Seq(HostMessage)
  BY <1>1, <1>2, ResolveImportTyped DEF TypeInv
<1>4. HolderTypes'
  BY <1>3 DEF HandleResolve, TypeInv, HolderTypes
<1> QED BY <1>1, <1>3, <1>4 DEF HandleResolve, hostVars, TypeInv, TableTypes, HostTypes,
      QueueTypes, EmbargoTypes, OutcomeTypes, ChannelTypes

LEMMA HandleForwardedKeepsTypes ==
  ASSUME TypeInv, HandleForwarded
  PROVE  TypeInv'
<1>1. /\ Head(toHolder) \in HolderMessage /\ Head(toHolder).type = "call"
      /\ toHolder' \in Seq(HolderMessage)
  BY HolderTakesTyped DEF HandleForwarded, TypeInv
<1>2. Head(toHolder).num \in Calls
  BY <1>1, HolderMessageFields
<1>3. OutcomeTypes'
  BY <1>2, DeliveredTyped DEF HandleForwarded, Deliver, TypeInv
<1> QED BY <1>1, <1>3 DEF HandleForwarded, hostVars, holderVars, TypeInv, TableTypes, HostTypes,
      QueueTypes, HolderTypes, EmbargoTypes, ChannelTypes

LEMMA HandleReceiverLoopbackKeepsTypes ==
  ASSUME TypeInv, HandleReceiverLoopback
  PROVE  TypeInv'
<1> DEFINE e == Head(toHolder).num
           i == disembargoes[e]
<1>1. /\ Head(toHolder) \in HolderMessage /\ Head(toHolder).type = "echo"
      /\ toHolder' \in Seq(HolderMessage)
  BY HolderTakesTyped DEF HandleReceiverLoopback, TypeInv
<1>2. e \in EmbargoIds
  BY <1>1, HolderMessageFields
<1>3. /\ imports \in [Ids -> ImportEntry] /\ \A j \in Ids : imports[j].refs >= imports[j].local
      /\ disembargoes \in [EmbargoIds -> {0} \cup Ids]
  BY DEF TypeInv, HolderTypes
<1>4. CASE i = 0 /\ UNCHANGED <<disembargoes, imports, flushing>>
  BY <1>1, <1>4 DEF HandleReceiverLoopback, hostVars, TypeInv, TableTypes, HostTypes, QueueTypes,
    HolderTypes, EmbargoTypes, OutcomeTypes, ChannelTypes
<1>5. CASE /\ i # 0
           /\ disembargoes' = [disembargoes EXCEPT ![e] = 0]
           /\ imports' = [imports EXCEPT ![i].embargo = 0]
           /\ flushing' = i
  <2>1. i \in Ids
    BY <1>2, <1>3, <1>5
  <2> HIDE DEF e, i
  <2>2. imports' \in [Ids -> ImportEntry] /\ \A j \in Ids : imports'[j].refs >= imports'[j].local
    <3>1. imports[i] \in ImportEntry /\ imports[i].refs >= imports[i].local
      BY <1>3, <2>1
    <3> QED BY <1>3, <1>5, <2>1, <3>1 DEF ImportEntry
  <2>3. disembargoes' \in [EmbargoIds -> {0} \cup Ids]
    BY <1>2, <1>3, <1>5
  <2>4. HolderTypes'
    BY <1>5, <2>1, <2>2, <2>3 DEF HandleReceiverLoopback, TypeInv, HolderTypes
  <2> QED BY <1>1, <2>4 DEF HandleReceiverLoopback, hostVars, TypeInv, TableTypes, HostTypes,
        QueueTypes, EmbargoTypes, OutcomeTypes, ChannelTypes
<1> QED BY <1>4, <1>5 DEF HandleReceiverLoopback

LEMMA LiftKeepsTypes ==
  ASSUME TypeInv, LiftNext \/ LiftReturns \/ LiftEnds
  PROVE  TypeInv'
<1>1. CASE LiftNext
  <2> DEFINE c == Head(embargoed[flushing])
  <2>1. /\ flushing \in Ids /\ embargoed[flushing] # <<>>
        /\ embargoed \in [Ids -> Seq(Calls)] /\ \A i \in Ids : Len(embargoed[i]) <= QueueCap
    BY <1>1 DEF LiftNext, TypeInv, HolderTypes, EmbargoTypes
  <2>2. /\ c \in Calls /\ Tail(embargoed[flushing]) \in Seq(Calls)
    BY <2>1, RangeOfTail
  <2>3. Len(Tail(embargoed[flushing])) <= QueueCap
    <3>1. embargoed[flushing] \in Seq(Calls)
      BY <2>1
    <3>2. /\ Len(embargoed[flushing]) <= QueueCap /\ Len(embargoed[flushing]) \in Nat
          /\ Len(Tail(embargoed[flushing])) = Len(embargoed[flushing]) - 1
      BY <2>1, <3>1, HeadTailProperties, LenProperties
    <3> QED BY <3>2, PromiseCapsAssumption
  <2>4. EmbargoTypes'
    BY <1>1, <2>1, <2>2, <2>3 DEF LiftNext, EmbargoTypes
  <2>5. HolderTypes'
    BY <1>1, <2>2 DEF LiftNext, TypeInv, HolderTypes
  <2>6. OutcomeTypes'
    BY <1>1, <2>2, DeliveredTyped DEF LiftNext, Deliver, TypeInv
  <2> QED BY <1>1, <2>4, <2>5, <2>6 DEF LiftNext, hostVars, TypeInv, TableTypes, HostTypes,
        QueueTypes, ChannelTypes
<1>2. CASE LiftReturns
  BY <1>2 DEF LiftReturns, hostVars, TypeInv, TableTypes, HostTypes, QueueTypes, HolderTypes,
     EmbargoTypes, OutcomeTypes, ChannelTypes
<1>3. CASE LiftEnds
  BY <1>3 DEF LiftEnds, hostVars, TypeInv, TableTypes, HostTypes, QueueTypes, HolderTypes,
     EmbargoTypes, OutcomeTypes, ChannelTypes
<1> QED BY <1>1, <1>2, <1>3

\* ImportClient.call.
LEMMA CallOutKeepsTypes ==
  ASSUME TypeInv, NEW c \in Calls, NEW i \in Ids, CallOut(c, i)
  PROVE  EmbargoTypes' /\ OutcomeTypes' /\ toHost' \in Seq(HostMessage)
<1> USE DEF TypeInv
<1>0. toHost \in Seq(HostMessage)
  BY DEF ChannelTypes
<1>1. CASE /\ imports[i].resolved \in {"none", "known"}
           /\ toHost' = Append(toHost,
                Msg("call", IF imports[i].resolved = "none" THEN i ELSE 0, c, "none"))
           /\ UNCHANGED <<embargoed, delivered, dropped>>
  <2>1. Msg("call", IF imports[i].resolved = "none" THEN i ELSE 0, c, "none") \in HostMessage
    BY MessagesTyped
  <2>2. toHost' \in Seq(HostMessage)
    BY <1>0, <1>1, <2>1, AppendProperties
  <2> QED BY <1>1, <2>2 DEF EmbargoTypes, OutcomeTypes
<1>2. CASE /\ IF Len(embargoed[i]) = QueueCap
              THEN Drop({c}) /\ UNCHANGED embargoed
              ELSE embargoed' = [embargoed EXCEPT ![i] = Append(@, c)] /\ UNCHANGED dropped
           /\ UNCHANGED <<toHost, delivered>>
  <2>1. EmbargoTypes'
    <3>1. CASE embargoed' = embargoed
      BY <3>1 DEF EmbargoTypes
    <3>2. CASE Len(embargoed[i]) # QueueCap /\ embargoed' = [embargoed EXCEPT ![i] = Append(@, c)]
      <4>1. /\ embargoed' \in [Ids -> Seq(Calls)]
            /\ Len(embargoed'[i]) = Len(embargoed[i]) + 1 /\ Len(embargoed[i]) \in Nat
            /\ \A j \in Ids : j # i => embargoed'[j] = embargoed[j]
        BY <3>2, QueueGrows DEF EmbargoTypes
      <4> QED BY <3>2, <4>1, PromiseCapsAssumption DEF EmbargoTypes
    <3> QED BY <1>2, <3>1, <3>2
  <2>2. OutcomeTypes'
    BY <1>2, DroppedTyped DEF OutcomeTypes
  <2> QED BY <1>0, <1>2, <2>1, <2>2
<1>3. CASE /\ delivered' = [delivered EXCEPT ![imports[i].of] = Append(@, c)]
           /\ UNCHANGED <<toHost, embargoed, dropped>>
  BY <1>0, <1>3, DeliveredTyped DEF EmbargoTypes
<1>4. CASE Drop({c}) /\ UNCHANGED <<toHost, embargoed, delivered>>
  BY <1>0, <1>4, DroppedTyped DEF EmbargoTypes
<1> QED BY <1>1, <1>2, <1>3, <1>4 DEF CallOut

LEMMA CallKeepsTypes ==
  ASSUME TypeInv, NEW i \in Ids, Call(i)
  PROVE  TypeInv'
<1>1. /\ made \in 0..NCalls /\ made < NCalls /\ made' = made + 1
      /\ via' = [via EXCEPT ![made + 1] = imports[i].of]
      /\ imports \in [Ids -> ImportEntry] /\ via \in [Calls -> {0} \cup Promises]
  BY DEF Call, TypeInv, HolderTypes
<1>2. made + 1 \in Calls /\ made' \in 0..NCalls
  BY <1>1, PromiseCapsAssumption DEF Calls
<1>3. via' \in [Calls -> {0} \cup Promises]
  <2>1. imports[i].of \in {0} \cup Promises
    BY <1>1 DEF ImportEntry
  <2> QED BY <1>1, <2>1
<1>4. EmbargoTypes' /\ OutcomeTypes' /\ toHost' \in Seq(HostMessage)
  BY <1>2, CallOutKeepsTypes DEF Call
<1>5. HolderTypes'
  BY <1>2, <1>3 DEF Call, TypeInv, HolderTypes
<1> QED BY <1>4, <1>5 DEF Call, hostVars, TypeInv, TableTypes, HostTypes, QueueTypes, ChannelTypes

LEMMA CloseRefKeepsTypes ==
  ASSUME TypeInv, NEW i \in Ids, CloseRef(i)
  PROVE  TypeInv'
<1>1. /\ imports \in [Ids -> ImportEntry] /\ \A j \in Ids : imports[j].refs >= imports[j].local
      /\ disembargoes \in [EmbargoIds -> {0} \cup Ids]
      /\ imports[i] \in ImportEntry /\ imports[i].local > 0
  BY DEF CloseRef, TypeInv, HolderTypes
<1>2. UNCHANGED <<hostVars, flushing, inHand, made, via, reentered, toHolder, delivered>>
  BY DEF CloseRef
<1>3. CASE /\ imports' = [imports EXCEPT ![i].local = @ - 1]
           /\ UNCHANGED <<embargoed, disembargoes, toHost, dropped>>
  <2>1. imports' \in [Ids -> ImportEntry] /\ \A j \in Ids : imports'[j].refs >= imports'[j].local
    BY <1>1, <1>3 DEF ImportEntry
  <2>2. HolderTypes'
    BY <1>2, <1>3, <2>1 DEF TypeInv, HolderTypes
  <2> QED BY <1>2, <1>3, <2>2 DEF hostVars, TypeInv, TableTypes, HostTypes, QueueTypes,
        EmbargoTypes, OutcomeTypes, ChannelTypes
<1>4. CASE CloseImport(i)
  <2>1. NoImport \in ImportEntry /\ NoImport.refs >= NoImport.local
    BY DEF NoImport, ImportEntry
  <2>2. imports' = [imports EXCEPT ![i] = NoImport]
    BY <1>4 DEF CloseImport
  <2>3. imports' \in [Ids -> ImportEntry] /\ \A j \in Ids : imports'[j].refs >= imports'[j].local
    BY <1>1, <2>1, <2>2
  <2>4. disembargoes' \in [EmbargoIds -> {0} \cup Ids]
    BY <1>1, <1>4 DEF CloseImport
  <2>5. HolderTypes'
    BY <1>2, <2>3, <2>4 DEF TypeInv, HolderTypes
  <2>6. EmbargoTypes'
    <3>1. <<>> \in Seq(Calls) /\ Len(<<>>) = 0 /\ 0 <= QueueCap
      BY PromiseCapsAssumption
    <3> QED BY <1>4, <3>1 DEF CloseImport, TypeInv, EmbargoTypes
  <2>7. OutcomeTypes'
    <3>1. Range(embargoed[i]) \subseteq Calls
      BY RangeTyped DEF TypeInv, EmbargoTypes
    <3> QED BY <1>2, <1>4, <3>1, DroppedTyped DEF CloseImport, TypeInv
  <2>8. toHost' \in Seq(HostMessage)
    <3>1. Msg("release", i, imports[i].refs, "none") \in HostMessage
      BY <1>1, MessagesTyped DEF ImportEntry
    <3> QED BY <1>4, <3>1, AppendProperties DEF CloseImport, TypeInv, ChannelTypes
  <2> QED BY <1>2, <2>5, <2>6, <2>7, <2>8 DEF hostVars, TypeInv, TableTypes, HostTypes, QueueTypes,
        ChannelTypes
<1> QED BY <1>3, <1>4 DEF CloseRef

LEMMA NextKeepsTypeInv == TypeInv /\ [Next]_vars => TypeInv'
<1> SUFFICES ASSUME TypeInv, [Next]_vars PROVE TypeInv'
  OBVIOUS
<1>1. ASSUME NEW p \in Promises, PassPromise(p) \/ QuestionSettles(p) PROVE TypeInv'
  BY <1>1, PassPromiseKeepsTypes, QuestionSettlesKeepsTypes
<1>2. ASSUME NEW i \in Ids, Call(i) \/ CloseRef(i) PROVE TypeInv'
  BY <1>2, CallKeepsTypes, CloseRefKeepsTypes
<1>3. CASE HostStep
  BY <1>3, ContinueKeepsTypes, HandleCallKeepsTypes, HandleReleaseKeepsTypes,
     HandleSenderLoopbackKeepsTypes DEF HostStep
<1>4. CASE HolderStep
  BY <1>4, HandlePromiseKeepsTypes, HandleResolveKeepsTypes, HandleForwardedKeepsTypes,
     HandleReceiverLoopbackKeepsTypes, LiftKeepsTypes DEF HolderStep
<1>5. CASE UNCHANGED vars
  BY <1>5 DEF vars, hostVars, holderVars, TypeInv, TableTypes, HostTypes, QueueTypes, HolderTypes,
     EmbargoTypes, OutcomeTypes, ChannelTypes
<1> QED BY <1>1, <1>2, <1>3, <1>4, <1>5 DEF Next

LEMMA TypeInvHolds == Spec => []TypeInv
<1>1. QED BY InitTypeInv, NextKeepsTypeInv, PTL DEF Spec

\* The export tables, the imports and the queues of calls keep their types and
\* the queues their bounds, whatever the vats do ("reuse pending", "close
\* embargoed" and "reenter" included).
THEOREM PromiseTypesCorrect == Spec => []TypeOK
<1>1. TypeInv => TypeOK
  BY DEF TypeInv, TableTypes, HostTypes, QueueTypes, HolderTypes, EmbargoTypes, OutcomeTypes, TypeOK
<1> QED BY <1>1, TypeInvHolds, PTL

-----------------------------------------------------------------------------
(* What is in flight, counted.                                             *)

DescriptorWeight(i) == [m \in HolderMessage |-> IntroducedBy(m, i)]

ReleaseWeight(i) == [m \in HostMessage |-> ReleasedBy(m, i)]

LEMMA WeightsTyped ==
  ASSUME NEW i \in Ids
  PROVE  /\ DescriptorWeight(i) \in [HolderMessage -> Nat]
         /\ \A m \in HolderMessage : DescriptorWeight(i)[m] = IntroducedBy(m, i)
         /\ ReleaseWeight(i) \in [HostMessage -> Nat]
         /\ \A m \in HostMessage : ReleaseWeight(i)[m] = ReleasedBy(m, i)
<1>1. \A m \in HolderMessage : IntroducedBy(m, i) \in Nat
  BY DEF IntroducedBy
<1>2. \A m \in HostMessage : ReleasedBy(m, i) \in Nat
  BY HostMessageFields DEF ReleasedBy
<1> QED BY <1>1, <1>2 DEF DescriptorWeight, ReleaseWeight

InFlight ==
  \A i \in Ids : /\ Introduced(i) = Total(toHolder, DescriptorWeight(i))
                 /\ Released(i) = Total(toHost, ReleaseWeight(i))

LEMMA InFlightIsTotal == ChannelTypes => InFlight
<1> SUFFICES ASSUME ChannelTypes, NEW i \in Ids
             PROVE  /\ Introduced(i) = Total(toHolder, DescriptorWeight(i))
                    /\ Released(i) = Total(toHost, ReleaseWeight(i))
  BY DEF InFlight
<1>1. \A k \in DOMAIN toHolder : toHolder[k] \in HolderMessage
  BY ElementOfSeq, LenProperties DEF ChannelTypes
<1>2. \A k \in DOMAIN toHost : toHost[k] \in HostMessage
  BY ElementOfSeq, LenProperties DEF ChannelTypes
<1>3. \A k \in DOMAIN toHolder : DescriptorWeight(i)[toHolder[k]] = IntroducedBy(toHolder[k], i)
  BY <1>1, WeightsTyped
<1>4. \A k \in DOMAIN toHost : ReleaseWeight(i)[toHost[k]] = ReleasedBy(toHost[k], i)
  BY <1>2, WeightsTyped
<1>5. [k \in DOMAIN toHolder |-> DescriptorWeight(i)[toHolder[k]]]
        = [k \in DOMAIN toHolder |-> IntroducedBy(toHolder[k], i)]
  BY <1>3
<1>6. [k \in DOMAIN toHost |-> ReleaseWeight(i)[toHost[k]]]
        = [k \in DOMAIN toHost |-> ReleasedBy(toHost[k], i)]
  BY <1>4
<1> QED BY <1>5, <1>6 DEF Total, Introduced, Released

\* Before and after a step.
LEMMA InFlightTotals ==
  ASSUME ChannelTypes, ChannelTypes', NEW i \in Ids
  PROVE  /\ Introduced(i) = Total(toHolder, DescriptorWeight(i)) /\ Introduced(i) \in Nat
         /\ Released(i) = Total(toHost, ReleaseWeight(i)) /\ Released(i) \in Nat
         /\ Introduced(i)' = Total(toHolder', DescriptorWeight(i)) /\ Introduced(i)' \in Nat
         /\ Released(i)' = Total(toHost', ReleaseWeight(i)) /\ Released(i)' \in Nat
<1>1. /\ Introduced(i) = Total(toHolder, DescriptorWeight(i))
      /\ Released(i) = Total(toHost, ReleaseWeight(i))
  BY InFlightIsTotal DEF InFlight
<1>2. /\ Introduced(i)' = Total(toHolder', DescriptorWeight(i))
      /\ Released(i)' = Total(toHost', ReleaseWeight(i))
  <2>1. (ChannelTypes => InFlight)'
    BY InFlightIsTotal, PTL
  <2> QED BY <2>1 DEF InFlight
<1>3. /\ DescriptorWeight(i) \in [HolderMessage -> Nat]
      /\ ReleaseWeight(i) \in [HostMessage -> Nat]
      /\ toHost \in Seq(HostMessage) /\ toHost' \in Seq(HostMessage)
      /\ toHolder \in Seq(HolderMessage) /\ toHolder' \in Seq(HolderMessage)
  BY WeightsTyped DEF ChannelTypes
<1>4. Total(toHolder, DescriptorWeight(i)) \in Nat /\ Total(toHolder', DescriptorWeight(i)) \in Nat
  BY <1>3, TotalInSteps
<1>5. Total(toHost, ReleaseWeight(i)) \in Nat /\ Total(toHost', ReleaseWeight(i)) \in Nat
  BY <1>3, TotalInSteps
<1> QED BY <1>1, <1>2, <1>4, <1>5

LEMMA HolderIsSent ==
  ASSUME ChannelTypes, ChannelTypes', NEW i \in Ids, NEW m \in HolderMessage,
         toHolder' = Append(toHolder, m)
  PROVE  Introduced(i)' = Introduced(i) + IntroducedBy(m, i)
<1>1. /\ DescriptorWeight(i) \in [HolderMessage -> Nat] /\ toHolder \in Seq(HolderMessage)
      /\ DescriptorWeight(i)[m] = IntroducedBy(m, i)
  BY WeightsTyped DEF ChannelTypes
<1>2. Total(toHolder', DescriptorWeight(i))
        = Total(toHolder, DescriptorWeight(i)) + DescriptorWeight(i)[m]
  BY <1>1, TotalInSteps
<1> QED BY <1>1, <1>2, InFlightTotals

LEMMA HolderHasTaken ==
  ASSUME ChannelTypes, ChannelTypes', NEW i \in Ids, toHolder # <<>>, toHolder' = Tail(toHolder)
  PROVE  Introduced(i) = Introduced(i)' + IntroducedBy(Head(toHolder), i)
<1>1. /\ DescriptorWeight(i) \in [HolderMessage -> Nat] /\ toHolder \in Seq(HolderMessage)
      /\ Head(toHolder) \in HolderMessage
      /\ \A m \in HolderMessage : DescriptorWeight(i)[m] = IntroducedBy(m, i)
  BY WeightsTyped, RangeOfTail DEF ChannelTypes
<1>2. Total(toHolder, DescriptorWeight(i))
        = DescriptorWeight(i)[Head(toHolder)] + Total(Tail(toHolder), DescriptorWeight(i))
  BY <1>1, TotalInSteps
<1>3. IntroducedBy(Head(toHolder), i) \in Nat
  BY DEF IntroducedBy
<1> QED BY <1>1, <1>2, <1>3, InFlightTotals

LEMMA HolderIsForwarded ==
  ASSUME ChannelTypes, ChannelTypes', NEW i \in Ids, NEW s \in Seq(Calls),
         toHolder' = toHolder \o Forwards(s)
  PROVE  Introduced(i)' = Introduced(i)
<1> DEFINE t == Forwards(s)
           f == DescriptorWeight(i)
<1>1. /\ f \in [HolderMessage -> Nat] /\ toHolder \in Seq(HolderMessage)
      /\ t \in Seq(HolderMessage)
      /\ \A m \in HolderMessage : f[m] = IntroducedBy(m, i)
  BY WeightsTyped, ForwardsTyped DEF ChannelTypes
<1>2. \A k \in 1..Len(t) : f[t[k]] = 0
  <2> SUFFICES ASSUME NEW k \in 1..Len(t) PROVE f[t[k]] = 0
    OBVIOUS
  <2>1. t[k] = Msg("call", 0, s[k], "none") /\ t[k] \in HolderMessage
    BY <1>1, ForwardsTyped, MessagesTyped
  <2>2. IntroducedBy(t[k], i) = 0
    BY <2>1 DEF Msg, IntroducedBy, Ids
  <2> HIDE DEF f, t
  <2> QED BY <1>1, <2>1, <2>2
<1> HIDE DEF t, f
<1>3. Total(toHolder \o t, f) = Total(toHolder, f)
  BY <1>1, <1>2, TotalOfConcat
<1> QED BY <1>3, InFlightTotals DEF t, f

LEMMA HostIsSent ==
  ASSUME ChannelTypes, ChannelTypes', NEW i \in Ids, NEW m \in HostMessage,
         toHost' = Append(toHost, m)
  PROVE  Released(i)' = Released(i) + ReleasedBy(m, i)
<1>1. /\ ReleaseWeight(i) \in [HostMessage -> Nat] /\ toHost \in Seq(HostMessage)
      /\ ReleaseWeight(i)[m] = ReleasedBy(m, i)
  BY WeightsTyped DEF ChannelTypes
<1>2. Total(toHost', ReleaseWeight(i)) = Total(toHost, ReleaseWeight(i)) + ReleaseWeight(i)[m]
  BY <1>1, TotalInSteps
<1> QED BY <1>1, <1>2, InFlightTotals

LEMMA HostHasTaken ==
  ASSUME ChannelTypes, ChannelTypes', NEW i \in Ids, toHost # <<>>, toHost' = Tail(toHost)
  PROVE  /\ Released(i) = Released(i)' + ReleasedBy(Head(toHost), i)
         /\ ReleasedBy(Head(toHost), i) \in Nat
<1>1. /\ ReleaseWeight(i) \in [HostMessage -> Nat] /\ toHost \in Seq(HostMessage)
      /\ Head(toHost) \in HostMessage
      /\ \A m \in HostMessage : ReleaseWeight(i)[m] = ReleasedBy(m, i)
  BY WeightsTyped, RangeOfTail DEF ChannelTypes
<1>2. Total(toHost, ReleaseWeight(i))
        = ReleaseWeight(i)[Head(toHost)] + Total(Tail(toHost), ReleaseWeight(i))
  BY <1>1, TotalInSteps
<1>3. ReleasedBy(Head(toHost), i) \in Nat
  BY <1>1
<1> QED BY <1>1, <1>2, <1>3, InFlightTotals

-----------------------------------------------------------------------------
(* The references of the two vats balance.                                 *)

\* An id that is free, or was never taken, names no export; an export lives as
\* long as it has references.
TableOK ==
  /\ IsInjective(free)
  /\ \A i \in Ids : i \in Range(free) => i < next /\ entry[i] = 0
  /\ \A i \in Ids : i >= next => entry[i] = 0
  /\ \A i \in Ids : entry[i] # 0 <=> wireRefs[i] > 0

ReferencesAgree ==
  \A i \in Ids : wireRefs[i] = imports[i].refs + Introduced(i) + Released(i)

RefInv == TableOK /\ ReferencesAgree

\* The counts are numbers.
LEMMA CountsTyped ==
  ASSUME TypeInv, TypeInv', NEW i \in Ids
  PROVE  /\ Introduced(i) \in Nat /\ Released(i) \in Nat
         /\ imports[i].refs \in Nat /\ imports[i].local \in Nat /\ wireRefs[i] \in Nat
         /\ Introduced(i)' \in Nat /\ Released(i)' \in Nat
         /\ imports'[i].refs \in Nat /\ imports'[i].local \in Nat /\ wireRefs'[i] \in Nat
<1>1. /\ imports \in [Ids -> ImportEntry] /\ imports' \in [Ids -> ImportEntry]
      /\ wireRefs \in [Ids -> Nat] /\ wireRefs' \in [Ids -> Nat]
      /\ ChannelTypes /\ ChannelTypes'
  BY DEF TypeInv, HolderTypes, TableTypes
<1>2. imports[i] \in ImportEntry /\ imports'[i] \in ImportEntry
  BY <1>1
<1>3. /\ imports[i].refs \in Nat /\ imports[i].local \in Nat
      /\ imports'[i].refs \in Nat /\ imports'[i].local \in Nat
  BY <1>2 DEF ImportEntry
<1> QED BY <1>1, <1>3, InFlightTotals

\* A step that makes and gives back no reference.
LEMMA OtherKeepsRefs ==
  ASSUME TypeInv, TypeInv', RefInv,
         UNCHANGED <<entry, wireRefs, free, next>>,
         \A i \in Ids : /\ imports'[i].refs = imports[i].refs
                        /\ Introduced(i)' = Introduced(i) /\ Released(i)' = Released(i)
  PROVE  RefInv'
<1>1. TableOK'
  BY DEF RefInv, TableOK
<1>2. ReferencesAgree'
  BY DEF RefInv, ReferencesAgree
<1> QED BY <1>1, <1>2 DEF RefInv

LEMMA ChannelsKept ==
  /\ toHolder' = toHolder => \A i \in Ids : Introduced(i)' = Introduced(i)
  /\ toHost' = toHost => \A i \in Ids : Released(i)' = Released(i)
BY DEF Introduced, Released

\* IDGen.next: the id is not in use.
LEMMA TakeIdKeepsFree ==
  ASSUME TypeInv, TableOK, TakeId, IdToUse \in Ids
  PROVE  /\ entry[IdToUse] = 0 /\ IsInjective(free')
         /\ \A i \in Ids : i \in Range(free') => i \in Range(free) /\ i # IdToUse
         /\ \A i \in Ids : i >= next' => i >= next /\ i # IdToUse
         /\ next' >= next /\ IdToUse < next' /\ next \in Int /\ next' \in Int
<1>1. free \in Seq(Ids) /\ next \in 1..(MaxId + 1) /\ MaxId \in Nat
  BY PromiseCapsAssumption DEF TypeInv, TableTypes
<1>2. CASE free = <<>>
  <2>1. IdToUse = next /\ next' = next + 1 /\ free' = free
    BY <1>2 DEF IdToUse, TakeId
  <2>2. Range(free') = {} /\ IsInjective(free')
    BY <1>2, <2>1, RangeOfEmpty
  <2>3. entry[IdToUse] = 0
    BY <1>1, <2>1 DEF TableOK
  <2> QED BY <1>1, <2>1, <2>2, <2>3 DEF Ids
<1>3. CASE free # <<>>
  <2>1. IdToUse = Head(free) /\ free' = Tail(free) /\ next' = next
    BY <1>3 DEF IdToUse, TakeId
  <2>2. /\ IsInjective(free) => IsInjective(Tail(free)) /\ Head(free) \notin Range(Tail(free))
        /\ Range(free) = Range(Tail(free)) \cup {Head(free)}
    BY ONLY <1>1, <1>3, RangeOfTail
  <2>3. /\ IsInjective(free') /\ IdToUse \notin Range(free')
        /\ Range(free) = Range(free') \cup {IdToUse}
    BY <2>1, <2>2 DEF TableOK
  <2>4. entry[IdToUse] = 0 /\ IdToUse < next
    BY <2>3 DEF TableOK
  <2> QED BY <1>1, <2>1, <2>3, <2>4 DEF Ids
<1> QED BY <1>2, <1>3

LEMMA PassPromiseKeepsRefs ==
  ASSUME TypeInv, TypeInv', RefInv, NEW p \in Promises, PassPromise(p)
  PROVE  RefInv'
<1>1. imports' = imports /\ toHost' = toHost /\ ChannelTypes /\ ChannelTypes'
  BY DEF PassPromise, holderVars, TypeInv
<1>2. /\ entry \in [Ids -> {0} \cup Promises] /\ wireRefs \in [Ids -> Nat]
      /\ index \in [Promises -> {0} \cup Ids]
  BY DEF TypeInv, TableTypes
<1>3. CASE PassAgain(p)
  <2> DEFINE k == index[p]
  <2>1. k \in Ids /\ entry[k] # 0
    BY <1>3 DEF PassAgain, Listed
  <2>2. /\ wireRefs' = [wireRefs EXCEPT ![k] = @ + 1]
        /\ toHolder' = Append(toHolder, Msg("promise", k, p, "none"))
        /\ UNCHANGED <<entry, free, next>>
    BY <1>3 DEF PassAgain
  <2> HIDE DEF k
  <2>3. TableOK'
    BY <1>2, <2>1, <2>2 DEF RefInv, TableOK
  <2>4. ASSUME NEW i \in Ids
        PROVE  wireRefs'[i] = imports'[i].refs + Introduced(i)' + Released(i)'
    <3>1. Msg("promise", k, p, "none") \in HolderMessage
      BY <2>1, MessagesTyped
    <3>2. Introduced(i)' = Introduced(i) + IF i = k THEN 1 ELSE 0
      BY <1>1, <2>2, <3>1, HolderIsSent DEF IntroducedBy, Msg
    <3>3. wireRefs[i] = imports[i].refs + Introduced(i) + Released(i)
      BY DEF RefInv, ReferencesAgree
    <3>4. wireRefs'[i] = wireRefs[i] + IF i = k THEN 1 ELSE 0
      BY <1>2, <2>2, CountsTyped
    <3> QED BY <1>1, <3>2, <3>3, <3>4, CountsTyped, ChannelsKept
  <2> QED BY <2>3, <2>4 DEF RefInv, ReferencesAgree
<1>4. CASE PassNew(p)
  <2> DEFINE k == IdToUse
  <2>1. /\ k \in Ids /\ TakeId
        /\ entry' = [entry EXCEPT ![k] = p] /\ wireRefs' = [wireRefs EXCEPT ![k] = 1]
        /\ toHolder' = Append(toHolder, Msg("promise", k, p, "none"))
    BY <1>4 DEF PassNew
  <2>2. /\ entry[k] = 0 /\ IsInjective(free')
        /\ \A i \in Ids : i \in Range(free') => i \in Range(free) /\ i # k
        /\ \A i \in Ids : i >= next' => i >= next /\ i # k
        /\ next' >= next /\ next \in Int /\ next' \in Int
    BY <2>1, TakeIdKeepsFree DEF RefInv
  <2> HIDE DEF k
  <2>3. TableOK'
    <3>1. \A i \in Ids : i # k => entry'[i] = entry[i] /\ wireRefs'[i] = wireRefs[i]
      BY <1>2, <2>1
    <3>2. entry'[k] # 0 /\ wireRefs'[k] > 0
      BY <1>2, <2>1 DEF Promises
    <3>3. \A i \in Ids : i \in Range(free) => i < next /\ entry[i] = 0
      BY DEF RefInv, TableOK
    <3>4. \A i \in Ids : i \in Range(free') => i < next' /\ entry'[i] = 0
      BY <2>2, <3>1, <3>3 DEF Ids
    <3>5. \A i \in Ids : i >= next' => entry'[i] = 0
      BY <2>2, <3>1 DEF RefInv, TableOK
    <3>6. \A i \in Ids : entry'[i] # 0 <=> wireRefs'[i] > 0
      BY <3>1, <3>2 DEF RefInv, TableOK
    <3> QED BY <2>2, <3>4, <3>5, <3>6 DEF TableOK
  <2>4. ASSUME NEW i \in Ids
        PROVE  wireRefs'[i] = imports'[i].refs + Introduced(i)' + Released(i)'
    <3>1. Msg("promise", k, p, "none") \in HolderMessage
      BY <2>1, MessagesTyped
    <3>2. Introduced(i)' = Introduced(i) + IF i = k THEN 1 ELSE 0
      BY <1>1, <2>1, <3>1, HolderIsSent DEF IntroducedBy, Msg
    <3>3. wireRefs[i] = imports[i].refs + Introduced(i) + Released(i)
      BY DEF RefInv, ReferencesAgree
    <3>4. wireRefs[k] \in Nat /\ ~ (wireRefs[k] > 0)
      BY <1>2, <2>1, <2>2 DEF RefInv, TableOK
    <3>5. wireRefs'[i] = IF i = k THEN 1 ELSE wireRefs[i]
      BY <1>2, <2>1
    <3> QED BY <1>1, <3>2, <3>3, <3>4, <3>5, CountsTyped, ChannelsKept
  <2> QED BY <2>3, <2>4 DEF RefInv, ReferencesAgree
<1> QED BY <1>3, <1>4 DEF PassPromise

\* Settle sends what is queued, which introduces nothing, and the Resolve.
LEMMA SettleIntroduces ==
  ASSUME TypeInv, TypeInv', NEW e \in Promises, NEW i \in Ids, NEW r \in Resolutions,
         Settle(e, i, r), NEW j \in Ids
  PROVE  Introduced(j)' = Introduced(j) + IF j = i /\ r = "fresh" THEN 1 ELSE 0
<1> DEFINE fwd == IF r = "back" THEN Forwards(queue[e]) ELSE <<>>
           m == Msg("resolve", i, e, r)
           f == DescriptorWeight(j)
<1>1. /\ ChannelTypes /\ ChannelTypes' /\ toHolder \in Seq(HolderMessage)
      /\ queue[e] \in Seq(Calls)
  BY DEF TypeInv, ChannelTypes, QueueTypes
<1>2. /\ f \in [HolderMessage -> Nat] /\ m \in HolderMessage
      /\ \A n \in HolderMessage : f[n] = IntroducedBy(n, j)
  BY WeightsTyped, MessagesTyped
<1>3. fwd \in Seq(HolderMessage) /\ \A k \in 1..Len(fwd) : f[fwd[k]] = 0
  <2>1. CASE r = "back"
    <3> DEFINE t == Forwards(queue[e])
    <3>1. /\ t \in Seq(HolderMessage) /\ Len(t) = Len(queue[e])
          /\ \A k \in 1..Len(queue[e]) : t[k] = Msg("call", 0, queue[e][k], "none")
                                         /\ queue[e][k] \in Calls
      BY <1>1, ForwardsTyped
    <3> HIDE DEF t, f, m
    <3>2. \A k \in 1..Len(t) : f[t[k]] = 0
      <4> SUFFICES ASSUME NEW k \in 1..Len(t) PROVE f[t[k]] = 0
        OBVIOUS
      <4>1. t[k] = Msg("call", 0, queue[e][k], "none") /\ t[k] \in HolderMessage
        BY <3>1, MessagesTyped
      <4>2. IntroducedBy(t[k], j) = 0
        BY <4>1 DEF Msg, IntroducedBy, Ids
      <4> QED BY <1>2, <4>1, <4>2
    <3> QED BY <2>1, <3>1, <3>2 DEF t
  <2>2. CASE r # "back"
    BY <2>2
  <2> QED BY <2>1, <2>2
<1>4. toHolder' = toHolder \o fwd \o <<m>>
  BY DEF Settle
<1>5. f[m] = IF j = i /\ r = "fresh" THEN 1 ELSE 0
  <2>1. IntroducedBy(m, j) = IF j = i /\ r = "fresh" THEN 1 ELSE 0
    BY DEF IntroducedBy, Msg
  <2> HIDE DEF f, m
  <2> QED BY <1>2, <2>1
<1> HIDE DEF fwd, m, f
<1>6. toHolder \o fwd \in Seq(HolderMessage) /\ Total(toHolder \o fwd, f) = Total(toHolder, f)
  BY <1>1, <1>2, <1>3, ConcatProperties, TotalOfConcat
<1>7. toHolder' = Append(toHolder \o fwd, m)
  BY <1>2, <1>4, <1>6, AppendIsConcat
<1>8. Total(toHolder', f) = Total(toHolder \o fwd, f) + f[m]
  BY <1>2, <1>6, <1>7, TotalInSteps
<1> QED BY <1>1, <1>5, <1>6, <1>8, InFlightTotals DEF f

LEMMA ContinueKeepsRefs ==
  ASSUME TypeInv, TypeInv', RefInv, NEW p \in Promises, NEW i \in Ids, Continue(p, i)
  PROVE  RefInv'
<1>1. /\ imports' = imports /\ toHost' = toHost /\ ChannelTypes /\ ChannelTypes'
      /\ UNCHANGED <<entry, free, next>> /\ question[p] \in Resolutions
  BY DEF Continue, holderVars, TypeInv, HostTypes
<1>2. CASE UNCHANGED <<wireRefs, toHolder>>
  BY <1>1, <1>2, OtherKeepsRefs, ChannelsKept
<1>3. CASE entry[i] # 0 /\ Settle(entry[i], i, question[p])
  <2>1. entry[i] \in Promises /\ wireRefs \in [Ids -> Nat]
    BY <1>3 DEF TypeInv, TableTypes
  <2>2. wireRefs' = IF question[p] = "fresh" THEN [wireRefs EXCEPT ![i] = @ + 1] ELSE wireRefs
    BY <1>3 DEF Settle
  <2>3. ASSUME NEW j \in Ids
        PROVE  /\ wireRefs'[j] = wireRefs[j] + IF j = i /\ question[p] = "fresh" THEN 1 ELSE 0
               /\ wireRefs'[j] = imports'[j].refs + Introduced(j)' + Released(j)'
    <3>1. Introduced(j)' = Introduced(j) + IF j = i /\ question[p] = "fresh" THEN 1 ELSE 0
      BY <1>1, <1>3, <2>1, SettleIntroduces
    <3>2. wireRefs[j] = imports[j].refs + Introduced(j) + Released(j)
      BY DEF RefInv, ReferencesAgree
    <3>3. wireRefs'[j] = wireRefs[j] + IF j = i /\ question[p] = "fresh" THEN 1 ELSE 0
      BY <2>1, <2>2, CountsTyped
    <3> QED BY <1>1, <3>1, <3>2, <3>3, CountsTyped, ChannelsKept
  <2>4. \A j \in Ids : wireRefs'[j] > 0 <=> wireRefs[j] > 0
    BY <1>3, <2>3, CountsTyped DEF RefInv, TableOK
  <2>5. TableOK'
    BY <1>1, <2>4 DEF RefInv, TableOK
  <2> QED BY <2>3, <2>5 DEF RefInv, ReferencesAgree
<1> QED BY <1>2, <1>3 DEF Continue

LEMMA HandleReleaseKeepsRefs ==
  ASSUME TypeInv, TypeInv', RefInv, HandleRelease
  PROVE  RefInv'
<1> DEFINE m == Head(toHost)
           e == entry[m.id]
<1>1. /\ m \in HostMessage /\ m.type = "release"
      /\ toHost # <<>> /\ toHost' = Tail(toHost) /\ ChannelTypes /\ ChannelTypes'
  BY HostTakesTyped DEF HandleRelease, TypeInv
<1>2. m.id \in Ids /\ m.num \in Nat
  BY <1>1, HostMessageFields
<1>3. /\ wireRefs' = [wireRefs EXCEPT ![m.id] = IF @ > m.num THEN @ - m.num ELSE 0]
      /\ IF e = 0 \/ wireRefs[m.id] > m.num
         THEN UNCHANGED <<entry, free>>
         ELSE /\ entry' = [entry EXCEPT ![m.id] = 0]
              /\ free' = <<m.id>> \o free
      /\ UNCHANGED <<next, imports, toHolder>>
  BY DEF HandleRelease, holderVars
<1>4. /\ entry \in [Ids -> {0} \cup Promises] /\ wireRefs \in [Ids -> Nat] /\ free \in Seq(Ids)
  BY DEF TypeInv, TableTypes
<1>5. ASSUME NEW j \in Ids
      PROVE  /\ Released(j) = Released(j)' + ReleasedBy(m, j)
             /\ wireRefs[j] = imports[j].refs + Introduced(j) + Released(j)
             /\ ReleasedBy(m, j) = IF j = m.id THEN m.num ELSE 0
  <2>1. ReleasedBy(m, j) = IF j = m.id THEN m.num ELSE 0
    BY <1>1 DEF ReleasedBy
  <2> QED BY <1>1, <2>1, HostHasTaken DEF RefInv, ReferencesAgree
<1> HIDE DEF m
<1>6. wireRefs[m.id] >= m.num /\ wireRefs[m.id] \in Nat
  BY <1>2, <1>5, CountsTyped
<1>7. ASSUME NEW j \in Ids
      PROVE  wireRefs'[j] = wireRefs[j] - IF j = m.id THEN m.num ELSE 0
  <2>1. CASE j = m.id /\ wireRefs[j] > m.num
    BY <1>2, <1>3, <1>4, <2>1
  <2>2. CASE j = m.id /\ ~ (wireRefs[j] > m.num)
    <3>1. wireRefs'[j] = 0
      BY <1>2, <1>3, <1>4, <2>2
    <3> QED BY <1>2, <1>6, <2>2, <3>1
  <2>3. CASE j # m.id
    BY <1>3, <1>4, <2>3
  <2> QED BY <2>1, <2>2, <2>3
<1>8. ReferencesAgree'
  <2>1. ASSUME NEW j \in Ids
        PROVE  wireRefs'[j] = imports'[j].refs + Introduced(j)' + Released(j)'
    <3>1. imports'[j] = imports[j] /\ Introduced(j)' = Introduced(j)
      BY <1>3, ChannelsKept
    <3> QED BY <1>2, <1>5, <1>7, <3>1, CountsTyped
  <2> QED BY <2>1 DEF ReferencesAgree
<1>9. TableOK'
  <2>0. \A j \in Ids : entry[j] # 0 <=> wireRefs[j] > 0
    BY DEF RefInv, TableOK
  <2>1. CASE e = 0
    <3>1. ~ (wireRefs[m.id] > 0)
      BY <1>2, <2>0, <2>1
    <3>2. m.num = 0
      BY <1>2, <1>6, <3>1
    <3>3. \A j \in Ids : wireRefs'[j] = wireRefs[j]
      BY <1>7, <3>2, CountsTyped
    <3> QED BY <1>3, <2>1, <3>3 DEF RefInv, TableOK
  <2>2. CASE wireRefs[m.id] > m.num
    <3>1. \A j \in Ids : wireRefs'[j] > 0 <=> wireRefs[j] > 0
      BY <1>2, <1>6, <1>7, <2>2, CountsTyped
    <3> QED BY <1>3, <2>2, <3>1 DEF RefInv, TableOK
  <2>3. CASE e # 0 /\ ~ (wireRefs[m.id] > m.num)
    <3>1. entry' = [entry EXCEPT ![m.id] = 0] /\ free' = <<m.id>> \o free
      BY <1>3, <2>3
    <3>2. wireRefs'[m.id] = 0
      BY <1>2, <1>6, <1>7, <2>3
    <3>3. \A j \in Ids : j # m.id => wireRefs'[j] = wireRefs[j] /\ entry'[j] = entry[j]
      BY <1>4, <1>7, <3>1, CountsTyped
    <3>4. entry'[m.id] = 0
      BY <1>2, <1>4, <3>1
    <3>5. IsInjective(free) /\ m.id \notin Range(free)
      BY <1>2, <2>3 DEF RefInv, TableOK
    <3>6. IsInjective(free') /\ Range(free') = Range(free) \cup {m.id}
      <4> DEFINE s == <<m.id>>
      <4>1. s \in Seq(Ids) /\ IsInjective(s) /\ Range(s) = {m.id}
        BY <1>2 DEF IsInjective, Range
      <4> HIDE DEF s
      <4>2. Range(s) \cap Range(free) = {}
        BY <3>5, <4>1
      <4>3. IsInjective(s \o free) /\ Range(s \o free) = Range(s) \cup Range(free)
        BY <1>4, <3>5, <4>1, <4>2, RangeOfConcat
      <4> QED BY <3>1, <4>1, <4>3 DEF s
    <3>7. m.id < next
      BY <1>2, <2>3 DEF RefInv, TableOK, TypeInv, TableTypes, Ids
    <3>8. \A j \in Ids : j \in Range(free') => j < next' /\ entry'[j] = 0
      BY <1>3, <3>3, <3>4, <3>6, <3>7 DEF RefInv, TableOK
    <3>9. \A j \in Ids : j >= next' => entry'[j] = 0
      BY <1>3, <3>3, <3>4 DEF RefInv, TableOK
    <3>10. \A j \in Ids : entry'[j] # 0 <=> wireRefs'[j] > 0
      BY <2>0, <3>2, <3>3, <3>4
    <3> QED BY <3>6, <3>8, <3>9, <3>10 DEF TableOK
  <2> QED BY <2>1, <2>2, <2>3
<1> QED BY <1>8, <1>9 DEF RefInv

LEMMA HandlePromiseKeepsRefs ==
  ASSUME TypeInv, TypeInv', RefInv, HandlePromise
  PROVE  RefInv'
<1> DEFINE m == Head(toHolder)
<1>1. /\ m \in HolderMessage /\ m.type = "promise"
      /\ toHolder # <<>> /\ toHolder' = Tail(toHolder) /\ ChannelTypes /\ ChannelTypes'
  BY HolderTakesTyped DEF HandlePromise, TypeInv
<1>2. m.id \in Ids
  BY <1>1, HolderMessageFields
<1>3. /\ imports' = IF imports[m.id].refs = 0
                    THEN [imports EXCEPT ![m.id] = PromiseImport(m.num)]
                    ELSE [imports EXCEPT ![m.id].refs = @ + 1, ![m.id].local = @ + 1,
                                         ![m.id].isPromise = TRUE]
      /\ toHost' = toHost /\ UNCHANGED <<entry, wireRefs, free, next>>
  BY DEF HandlePromise, hostVars
<1>4. ASSUME NEW j \in Ids
      PROVE  Introduced(j) = Introduced(j)' + IF j = m.id THEN 1 ELSE 0
  <2>1. IntroducedBy(m, j) = IF j = m.id THEN 1 ELSE 0
    BY <1>1, HolderMessageFields DEF IntroducedBy
  <2> QED BY <1>1, <2>1, HolderHasTaken
<1> HIDE DEF m
<1>5. ASSUME NEW j \in Ids
      PROVE  imports'[j].refs = imports[j].refs + IF j = m.id THEN 1 ELSE 0
  <2>1. imports \in [Ids -> ImportEntry] /\ imports[m.id] \in ImportEntry
    BY <1>2 DEF TypeInv, HolderTypes
  <2>2. CASE imports[m.id].refs = 0
    BY <1>2, <1>3, <2>1, <2>2 DEF PromiseImport, ImportEntry
  <2>3. CASE imports[m.id].refs # 0
    BY <1>2, <1>3, <2>1, <2>3 DEF ImportEntry
  <2> QED BY <2>2, <2>3
<1>6. TableOK'
  BY <1>3 DEF RefInv, TableOK
<1>7. ASSUME NEW j \in Ids
      PROVE  wireRefs'[j] = imports'[j].refs + Introduced(j)' + Released(j)'
  <2>1. wireRefs[j] = imports[j].refs + Introduced(j) + Released(j)
    BY DEF RefInv, ReferencesAgree
  <2>2. wireRefs'[j] = wireRefs[j] /\ Released(j)' = Released(j)
    BY <1>3, ChannelsKept
  <2>3. Introduced(j) = Introduced(j)' + IF j = m.id THEN 1 ELSE 0
    BY <1>4
  <2>4. imports'[j].refs = imports[j].refs + IF j = m.id THEN 1 ELSE 0
    BY <1>5
  <2> QED BY <2>1, <2>2, <2>3, <2>4, CountsTyped
<1> QED BY <1>6, <1>7 DEF RefInv, ReferencesAgree

LEMMA HandleResolveKeepsRefs ==
  ASSUME TypeInv, TypeInv', RefInv, HandleResolve
  PROVE  RefInv'
<1> DEFINE m == Head(toHolder)
<1>1. /\ m \in HolderMessage /\ m.type = "resolve"
      /\ toHolder # <<>> /\ toHolder' = Tail(toHolder) /\ ChannelTypes /\ ChannelTypes'
  BY HolderTakesTyped DEF HandleResolve, TypeInv
<1>2. m.id \in Ids /\ m.to \in Resolutions
  BY <1>1, HolderMessageFields
<1>3. /\ IF imports[m.id].isPromise THEN ResolveImport(m) ELSE DiscardResolved(m)
      /\ UNCHANGED <<entry, wireRefs, free, next>>
  BY DEF HandleResolve, hostVars
<1>4. ASSUME NEW j \in Ids
      PROVE  Introduced(j) = Introduced(j)' + IF j = m.id /\ m.to = "fresh" THEN 1 ELSE 0
  <2>1. IntroducedBy(m, j) = IF j = m.id /\ m.to = "fresh" THEN 1 ELSE 0
    BY <1>1 DEF IntroducedBy
  <2> QED BY <1>1, <2>1, HolderHasTaken
<1> HIDE DEF m
<1>5. imports \in [Ids -> ImportEntry] /\ imports[m.id] \in ImportEntry
  BY <1>2 DEF TypeInv, HolderTypes
<1>6. ASSUME NEW j \in Ids
      PROVE  imports'[j].refs + Released(j)'
               = imports[j].refs + Released(j) + IF j = m.id /\ m.to = "fresh" THEN 1 ELSE 0
  <2>1. CASE /\ m.to = "back"
             /\ \E e \in EmbargoIds :
                  /\ disembargoes[e] = 0
                  /\ imports' = [imports EXCEPT ![m.id].resolved = "back",
                                                ![m.id].isPromise = FALSE, ![m.id].embargo = e]
                  /\ disembargoes' = [disembargoes EXCEPT ![e] = m.id]
                  /\ toHost' = Append(toHost, Msg("loopback", m.id, e, "none"))
    <3>1. PICK e \in EmbargoIds :
            /\ imports' = [imports EXCEPT ![m.id].resolved = "back",
                                          ![m.id].isPromise = FALSE, ![m.id].embargo = e]
            /\ toHost' = Append(toHost, Msg("loopback", m.id, e, "none"))
      BY <2>1
    <3>2. imports'[j].refs = imports[j].refs
      BY <1>2, <1>5, <3>1 DEF ImportEntry
    <3>3. /\ Msg("loopback", m.id, e, "none") \in HostMessage
          /\ ReleasedBy(Msg("loopback", m.id, e, "none"), j) = 0
      BY <1>2, MessagesTyped DEF Msg, ReleasedBy
    <3>4. Released(j)' = Released(j)
      BY <1>1, <3>1, <3>3, HostIsSent, CountsTyped
    <3> QED BY <2>1, <3>2, <3>4, CountsTyped
  <2>2. CASE /\ m.to \in {"known", "broken"}
             /\ imports' = [imports EXCEPT ![m.id].resolved = m.to, ![m.id].isPromise = FALSE]
             /\ UNCHANGED <<disembargoes, toHost>>
    <3>1. imports'[j].refs = imports[j].refs
      BY <1>2, <1>5, <2>2 DEF ImportEntry
    <3> QED BY <2>2, <3>1, CountsTyped, ChannelsKept
  <2>3. CASE /\ m.to = "fresh"
             /\ imports' = [imports EXCEPT ![m.id].resolved = "self", ![m.id].isPromise = FALSE,
                                           ![m.id].refs = @ + 1]
             /\ UNCHANGED <<disembargoes, toHost>>
    <3>1. imports'[j].refs = imports[j].refs + IF j = m.id THEN 1 ELSE 0
      BY <1>2, <1>5, <2>3 DEF ImportEntry
    <3> QED BY <2>3, <3>1, CountsTyped, ChannelsKept
  <2>4. CASE DiscardResolved(m)
    <3>1. imports' = imports
      BY <2>4 DEF DiscardResolved
    <3>2. CASE m.to = "fresh"
      <4>1. /\ Msg("release", m.id, 1, "none") \in HostMessage
            /\ ReleasedBy(Msg("release", m.id, 1, "none"), j) = IF j = m.id THEN 1 ELSE 0
        BY <1>2, MessagesTyped DEF Msg, ReleasedBy
      <4>2. toHost' = Append(toHost, Msg("release", m.id, 1, "none"))
        BY <2>4, <3>2 DEF DiscardResolved
      <4>3. Released(j)' = Released(j) + IF j = m.id THEN 1 ELSE 0
        BY <1>1, <4>1, <4>2, HostIsSent
      <4> QED BY <3>1, <3>2, <4>3, CountsTyped
    <3>3. CASE m.to # "fresh"
      BY <2>4, <3>1, <3>3, CountsTyped, ChannelsKept DEF DiscardResolved
    <3> QED BY <3>2, <3>3
  <2> QED BY <1>3, <2>1, <2>2, <2>3, <2>4 DEF ResolveImport
<1>7. TableOK'
  BY <1>3 DEF RefInv, TableOK
<1>8. ASSUME NEW j \in Ids
      PROVE  wireRefs'[j] = imports'[j].refs + Introduced(j)' + Released(j)'
  <2>1. wireRefs[j] = imports[j].refs + Introduced(j) + Released(j)
    BY DEF RefInv, ReferencesAgree
  <2> QED BY <1>3, <1>4, <1>6, <2>1, CountsTyped
<1> QED BY <1>7, <1>8 DEF RefInv, ReferencesAgree

LEMMA CloseRefKeepsRefs ==
  ASSUME TypeInv, TypeInv', RefInv, NEW i \in Ids, CloseRef(i)
  PROVE  RefInv'
<1>1. /\ imports \in [Ids -> ImportEntry] /\ imports[i] \in ImportEntry
      /\ imports[i].refs \in Nat /\ ChannelTypes /\ ChannelTypes'
      /\ toHolder' = toHolder /\ UNCHANGED <<entry, wireRefs, free, next>>
  BY DEF CloseRef, hostVars, TypeInv, HolderTypes, ImportEntry
<1>2. CASE /\ imports' = [imports EXCEPT ![i].local = @ - 1]
           /\ UNCHANGED <<embargoed, disembargoes, toHost, dropped>>
  <2>1. \A j \in Ids : imports'[j].refs = imports[j].refs
    BY <1>1, <1>2 DEF ImportEntry
  <2> QED BY <1>1, <1>2, <2>1, OtherKeepsRefs, ChannelsKept
<1>3. CASE CloseImport(i)
  <2> DEFINE m == Msg("release", i, imports[i].refs, "none")
  <2>1. imports' = [imports EXCEPT ![i] = NoImport] /\ toHost' = Append(toHost, m)
    BY <1>3 DEF CloseImport
  <2>2. ASSUME NEW j \in Ids
        PROVE  /\ wireRefs'[j] = imports'[j].refs + Introduced(j)' + Released(j)'
    <3>1. m \in HostMessage /\ ReleasedBy(m, j) = IF j = i THEN imports[i].refs ELSE 0
      BY <1>1, MessagesTyped DEF Msg, ReleasedBy
    <3>2. imports'[j].refs = IF j = i THEN 0 ELSE imports[j].refs
      BY <1>1, <2>1 DEF NoImport
    <3> HIDE DEF m
    <3>3. Released(j)' = Released(j) + IF j = i THEN imports[i].refs ELSE 0
      BY <1>1, <2>1, <3>1, HostIsSent
    <3>4. wireRefs[j] = imports[j].refs + Introduced(j) + Released(j)
      BY DEF RefInv, ReferencesAgree
    <3> QED BY <1>1, <3>2, <3>3, <3>4, CountsTyped, ChannelsKept
  <2>3. TableOK'
    BY <1>1 DEF RefInv, TableOK
  <2> QED BY <2>2, <2>3 DEF RefInv, ReferencesAgree
<1> QED BY <1>2, <1>3 DEF CloseRef

\* Calls, Disembargoes and the flush make and give back no reference.
LEMMA CallsKeepRefs ==
  ASSUME TypeInv, TypeInv', RefInv,
         HandleCall \/ HandleSenderLoopback \/ HandleForwarded \/ HandleReceiverLoopback
  PROVE  RefInv'
<1>0. ChannelTypes /\ ChannelTypes'
  BY DEF TypeInv
<1>1. CASE HandleCall
  <2> DEFINE m == Head(toHost)
  <2>1. /\ m \in HostMessage /\ m.type = "call" /\ toHost # <<>> /\ toHost' = Tail(toHost)
    BY <1>0, <1>1, HostTakesTyped DEF HandleCall
  <2>2. m.id \in {0} \cup Ids /\ m.num \in Calls
    BY <2>1, HostMessageFields
  <2>3. /\ imports' = imports /\ UNCHANGED <<entry, wireRefs, free, next>>
        /\ \/ m.id = 0 /\ UNCHANGED toHolder
           \/ m.id # 0 /\ entry[m.id] # 0 /\ ExportCall(entry[m.id], m.num)
    BY <1>1 DEF HandleCall, holderVars
  <2>4. ASSUME NEW j \in Ids PROVE Released(j)' = Released(j)
    <3>1. ReleasedBy(m, j) = 0
      BY <2>1 DEF ReleasedBy
    <3> QED BY <1>0, <2>1, <3>1, HostHasTaken, CountsTyped
  <2> HIDE DEF m
  <2>5. ASSUME NEW j \in Ids PROVE Introduced(j)' = Introduced(j)
    <3>1. CASE toHolder' = toHolder
      BY <3>1, ChannelsKept
    <3>2. CASE toHolder' = toHolder \o Forwards(<<m.num>>)
      <4>1. <<m.num>> \in Seq(Calls)
        BY <2>2
      <4> QED BY <1>0, <3>2, <4>1, HolderIsForwarded
    <3> QED BY <2>3, <3>1, <3>2 DEF ExportCall
  <2> QED BY <2>3, <2>4, <2>5, OtherKeepsRefs
<1>2. CASE HandleSenderLoopback
  <2> DEFINE m == Head(toHost)
  <2>1. /\ m \in HostMessage /\ m.type = "loopback" /\ toHost # <<>> /\ toHost' = Tail(toHost)
    BY <1>0, <1>2, HostTakesTyped DEF HandleSenderLoopback
  <2>2. m.num \in EmbargoIds
    BY <2>1, HostMessageFields
  <2>3. /\ imports' = imports /\ UNCHANGED <<entry, wireRefs, free, next>>
        /\ toHolder' = Append(toHolder, Msg("echo", 0, m.num, "none"))
    BY <1>2 DEF HandleSenderLoopback, holderVars, hostVars
  <2>4. ASSUME NEW j \in Ids PROVE Released(j)' = Released(j)
    <3>1. ReleasedBy(m, j) = 0
      BY <2>1 DEF ReleasedBy
    <3> QED BY <1>0, <2>1, <3>1, HostHasTaken, CountsTyped
  <2> HIDE DEF m
  <2>5. ASSUME NEW j \in Ids PROVE Introduced(j)' = Introduced(j)
    <3>1. /\ Msg("echo", 0, m.num, "none") \in HolderMessage
          /\ IntroducedBy(Msg("echo", 0, m.num, "none"), j) = 0
      BY <2>2, MessagesTyped DEF Msg, IntroducedBy
    <3> QED BY <1>0, <2>3, <3>1, HolderIsSent, CountsTyped
  <2> QED BY <2>3, <2>4, <2>5, OtherKeepsRefs
<1>3. CASE HandleForwarded \/ HandleReceiverLoopback
  <2> DEFINE m == Head(toHolder)
  <2>1. /\ m \in HolderMessage /\ m.type \in {"call", "echo"}
        /\ toHolder # <<>> /\ toHolder' = Tail(toHolder)
    BY <1>0, <1>3, HolderTakesTyped DEF HandleForwarded, HandleReceiverLoopback
  <2>2. ASSUME NEW j \in Ids PROVE Introduced(j)' = Introduced(j)
    <3>1. IntroducedBy(m, j) = 0
      BY <2>1, HolderMessageFields DEF IntroducedBy
    <3> QED BY <1>0, <2>1, <3>1, HolderHasTaken, CountsTyped
  <2> HIDE DEF m
  <2>3. toHost' = toHost /\ UNCHANGED <<entry, wireRefs, free, next>>
    BY <1>3 DEF HandleForwarded, HandleReceiverLoopback, holderVars, hostVars
  <2>4. ASSUME NEW j \in Ids PROVE imports'[j].refs = imports[j].refs
    <3>1. imports \in [Ids -> ImportEntry]
      BY DEF TypeInv, HolderTypes
    <3>2. CASE imports' = imports
      BY <3>2
    <3>3. CASE \E i \in Ids : imports' = [imports EXCEPT ![i].embargo = 0]
      BY <3>1, <3>3 DEF ImportEntry
    <3>4. CASE HandleReceiverLoopback
      <4>1. Head(toHolder) \in HolderMessage /\ Head(toHolder).type = "echo"
        BY <1>0, <3>4, HolderTakesTyped DEF HandleReceiverLoopback
      <4>2. disembargoes[Head(toHolder).num] \in {0} \cup Ids
        BY <4>1, HolderMessageFields DEF TypeInv, HolderTypes
      <4> QED BY <3>2, <3>3, <3>4, <4>2 DEF HandleReceiverLoopback
    <3>5. CASE HandleForwarded
      BY <3>2, <3>5 DEF HandleForwarded, holderVars
    <3> QED BY <1>3, <3>4, <3>5
  <2> QED BY <2>2, <2>3, <2>4, OtherKeepsRefs, ChannelsKept
<1> QED BY <1>1, <1>2, <1>3

\* ... and so do the application's calls and the flush of an embargo queue.
LEMMA LocalStepsKeepRefs ==
  ASSUME TypeInv, TypeInv', RefInv
  PROVE  /\ \A p \in Promises : QuestionSettles(p) => RefInv'
         /\ \A i \in Ids : Call(i) => RefInv'
         /\ LiftNext \/ LiftReturns \/ LiftEnds => RefInv'
         /\ UNCHANGED vars => RefInv'
<1>0. ChannelTypes /\ ChannelTypes'
  BY DEF TypeInv
<1>1. ASSUME UNCHANGED <<entry, wireRefs, free, next, imports, toHost, toHolder>> PROVE RefInv'
  BY <1>1, OtherKeepsRefs, ChannelsKept
<1>2. ASSUME NEW p \in Promises, QuestionSettles(p) PROVE RefInv'
  BY <1>1, <1>2 DEF QuestionSettles, holderVars
<1>3. ASSUME NEW i \in Ids, Call(i) PROVE RefInv'
  <2>1. /\ UNCHANGED <<entry, wireRefs, free, next, imports, toHolder>>
        /\ made + 1 \in Calls /\ CallOut(made + 1, i)
    BY <1>3, PromiseCapsAssumption DEF Call, hostVars, TypeInv, HolderTypes, Calls
  <2>2. CASE toHost' = toHost
    BY <1>1, <2>1, <2>2
  <2>3. CASE \E k \in {0} \cup Ids : toHost' = Append(toHost, Msg("call", k, made + 1, "none"))
    <3>1. PICK k \in {0} \cup Ids : toHost' = Append(toHost, Msg("call", k, made + 1, "none"))
      BY <2>3
    <3>2. ASSUME NEW j \in Ids PROVE Released(j)' = Released(j)
      <4>1. /\ Msg("call", k, made + 1, "none") \in HostMessage
            /\ ReleasedBy(Msg("call", k, made + 1, "none"), j) = 0
        BY <2>1, MessagesTyped DEF Msg, ReleasedBy
      <4> QED BY <1>0, <3>1, <4>1, HostIsSent, CountsTyped
    <3> QED BY <2>1, <3>2, OtherKeepsRefs, ChannelsKept
  <2> QED BY <2>1, <2>2, <2>3 DEF CallOut
<1>4. ASSUME LiftNext \/ LiftReturns \/ LiftEnds PROVE RefInv'
  BY <1>1, <1>4 DEF LiftNext, LiftReturns, LiftEnds, hostVars
<1>5. ASSUME UNCHANGED vars PROVE RefInv'
  BY <1>1, <1>5 DEF vars, hostVars, holderVars
<1> QED BY <1>2, <1>3, <1>4, <1>5

LEMMA InitRefInv == Init => RefInv
<1> SUFFICES ASSUME Init PROVE RefInv
  OBVIOUS
<1>1. TableOK
  BY RangeOfEmpty DEF Init, TableOK, Ids
<1>2. ASSUME NEW i \in Ids PROVE Introduced(i) = 0 /\ Released(i) = 0
  <2>1. toHolder = <<>> /\ toHost = <<>>
    BY DEF Init
  <2>2. \A k \in DOMAIN <<>> : FALSE
    OBVIOUS
  <2>3. [k \in DOMAIN toHolder |-> IntroducedBy(toHolder[k], i)] = <<>>
    BY <2>1, <2>2
  <2>4. [k \in DOMAIN toHost |-> ReleasedBy(toHost[k], i)] = <<>>
    BY <2>1, <2>2
  <2> QED BY <2>3, <2>4, SumOfEmpty DEF Introduced, Released
<1>3. ReferencesAgree
  BY <1>2 DEF Init, ReferencesAgree, NoImport
<1> QED BY <1>1, <1>3 DEF RefInv

LEMMA NextKeepsRefInv == TypeInv /\ TypeInv' /\ RefInv /\ [Next]_vars => RefInv'
<1> SUFFICES ASSUME TypeInv, TypeInv', RefInv, [Next]_vars PROVE RefInv'
  OBVIOUS
<1>1. ASSUME NEW p \in Promises, PassPromise(p) \/ QuestionSettles(p) PROVE RefInv'
  BY <1>1, PassPromiseKeepsRefs, LocalStepsKeepRefs
<1>2. ASSUME NEW i \in Ids, Call(i) \/ CloseRef(i) PROVE RefInv'
  BY <1>2, CloseRefKeepsRefs, LocalStepsKeepRefs
<1>3. CASE HostStep
  BY <1>3, ContinueKeepsRefs, HandleReleaseKeepsRefs, CallsKeepRefs DEF HostStep
<1>4. CASE HolderStep
  BY <1>4, HandlePromiseKeepsRefs, HandleResolveKeepsRefs, CallsKeepRefs, LocalStepsKeepRefs
     DEF HolderStep
<1>5. CASE UNCHANGED vars
  BY <1>5, LocalStepsKeepRefs
<1> QED BY <1>1, <1>2, <1>3, <1>4, <1>5 DEF Next

\* Whatever the vats do, "reuse pending" included, the wire references of an
\* export are those its import holds and those on their way.
LEMMA RefInvHolds == Spec => []RefInv
BY InitRefInv, NextKeepsRefInv, TypeInvHolds, PTL DEF Spec

-----------------------------------------------------------------------------
(* Ids are not used again under a question that is still asked: a promise   *)
(* becomes what its own question was answered with.                        *)

Outcome(r) == IF r = "fresh" THEN "self" ELSE r

\* A continuation of addExportPromise finds its own promise or none.
AwaitedAgree == \A p \in Promises, i \in Ids : <<p, i>> \in awaiting => entry[i] \in {0, p}

\* The index of a promise whose question is still asked is not of another's.
PendingAwaited ==
  \A p \in Promises :
    question[p] = "pending" /\ index[p] # 0 => <<p, index[p]>> \in awaiting

ClientsAgree == \A p \in Promises : client[p] \in {"none", question[p]}

\* Descriptors and imports stand for what the host has exported.
DescriptorsAgree ==
  \A k \in DOMAIN toHolder :
    toHolder[k].type = "promise" => entry[toHolder[k].id] = toHolder[k].num

ImportsAgree == \A i \in Ids : imports[i].refs > 0 => entry[i] = imports[i].of

\* A Resolve carries what its promise became, and comes after the descriptors
\* that its import was made by.
ResolvesAgree ==
  \A k \in DOMAIN toHolder : toHolder[k].type = "resolve" =>
    /\ toHolder[k].to = client[toHolder[k].num]
    /\ \A j \in DOMAIN toHolder :
         j < k /\ toHolder[j].type = "promise" /\ toHolder[j].id = toHolder[k].id
           => toHolder[j].num = toHolder[k].num

ResolvesMeetImports ==
  \A k \in DOMAIN toHolder :
    toHolder[k].type = "resolve" /\ imports[toHolder[k].id].refs > 0
      => imports[toHolder[k].id].of = toHolder[k].num

ImportsSettled ==
  \A i \in Ids :
    /\ imports[i].isPromise \/ imports[i].resolved # "none" => imports[i].refs > 0
    /\ imports[i].resolved # "none" =>
         /\ imports[i].of \in Promises /\ client[imports[i].of] # "none"
         /\ imports[i].resolved = Outcome(client[imports[i].of])

AnswerInv ==
  AwaitedAgree /\ PendingAwaited /\ ClientsAgree /\ DescriptorsAgree /\ ImportsAgree /\ ResolvesAgree
    /\ ResolvesMeetImports /\ ImportsSettled

\* A descriptor on its way and an import have references, so the host has the
\* export.
NamedLive ==
  /\ \A k \in DOMAIN toHolder : toHolder[k].type = "promise" => entry[toHolder[k].id] # 0
  /\ \A i \in Ids : imports[i].refs > 0 => entry[i] # 0

LEMMA NamedIsLive == TypeInv /\ RefInv => NamedLive
<1> SUFFICES ASSUME TypeInv, RefInv PROVE NamedLive
  OBVIOUS
<1>1. /\ toHolder \in Seq(HolderMessage) /\ toHost \in Seq(HostMessage)
      /\ imports \in [Ids -> ImportEntry]
  BY DEF TypeInv, ChannelTypes, HolderTypes
<1>2. ASSUME NEW i \in Ids
      PROVE  /\ Introduced(i) = Total(toHolder, DescriptorWeight(i)) /\ Introduced(i) \in Nat
             /\ Released(i) \in Nat /\ imports[i].refs \in Nat
             /\ wireRefs[i] = imports[i].refs + Introduced(i) + Released(i)
             /\ wireRefs[i] > 0 => entry[i] # 0
  <2>1. /\ Introduced(i) = Total(toHolder, DescriptorWeight(i))
        /\ Released(i) = Total(toHost, ReleaseWeight(i))
    BY InFlightIsTotal DEF TypeInv, InFlight
  <2>2. /\ DescriptorWeight(i) \in [HolderMessage -> Nat]
        /\ ReleaseWeight(i) \in [HostMessage -> Nat]
    BY WeightsTyped
  <2>3. Total(toHolder, DescriptorWeight(i)) \in Nat
    BY <1>1, <2>2, TotalInSteps
  <2>4. Total(toHost, ReleaseWeight(i)) \in Nat
    BY <1>1, <2>2, TotalInSteps
  <2>5. imports[i].refs \in Nat
    BY <1>1 DEF ImportEntry
  <2> QED BY <2>1, <2>3, <2>4, <2>5 DEF RefInv, ReferencesAgree, TableOK
<1>3. ASSUME NEW i \in Ids, imports[i].refs > 0 PROVE entry[i] # 0
  BY <1>2, <1>3
<1>4. ASSUME NEW k \in DOMAIN toHolder, toHolder[k].type = "promise"
      PROVE  entry[toHolder[k].id] # 0
  <2> DEFINE m == toHolder[k]
             i == m.id
  <2>1. k \in 1..Len(toHolder) /\ m \in HolderMessage
    BY <1>1, ElementOfSeq, LenProperties
  <2>2. i \in Ids
    BY <1>4, <2>1, HolderMessageFields
  <2>3. IntroducedBy(m, i) = 1
    BY <1>4 DEF IntroducedBy
  <2> HIDE DEF i
  <2>4. /\ DescriptorWeight(i) \in [HolderMessage -> Nat]
        /\ DescriptorWeight(i)[m] = 1
    BY <2>1, <2>2, <2>3, WeightsTyped
  <2>5. DescriptorWeight(i)[toHolder[k]] <= Total(toHolder, DescriptorWeight(i))
    BY <1>1, <2>1, <2>4, TotalInSteps
  <2>6. Introduced(i) > 0
    BY <1>2, <2>2, <2>4, <2>5
  <2> QED BY <1>2, <2>2, <2>6 DEF i
<1> QED BY <1>3, <1>4 DEF NamedLive

\* Before and after a step.
LEMMA NamedIsLiveInStep ==
  ASSUME TypeInv, TypeInv', RefInv, RefInv'
  PROVE  NamedLive /\ NamedLive'
<1>1. (TypeInv /\ RefInv => NamedLive)'
  BY NamedIsLive, PTL
<1> QED BY <1>1, NamedIsLive

\* The holder's queue announces nothing new.
NothingAnnounced ==
  \E d \in {0, 1} : \A k \in DOMAIN toHolder' :
    k \in Int /\ (toHolder'[k].type \in {"promise", "resolve"}
                    => k + d \in DOMAIN toHolder /\ toHolder'[k] = toHolder[k + d])

\* ... and nothing that was announced is taken.
SameAnnounced ==
  \E d \in {0, 1} :
    /\ \A k \in DOMAIN toHolder' :
         k \in Int /\ (toHolder'[k].type \in {"promise", "resolve"}
                         => k + d \in DOMAIN toHolder /\ toHolder'[k] = toHolder[k + d])
    /\ \A k \in DOMAIN toHolder :
         k \in Int /\ (toHolder[k].type \in {"promise", "resolve"}
                         => k - d \in DOMAIN toHolder' /\ toHolder'[k - d] = toHolder[k])

LEMMA QuietSteps ==
  ASSUME ChannelTypes
  PROVE  /\ toHolder # <<>> /\ toHolder' = Tail(toHolder) => NothingAnnounced
         /\ toHolder' = toHolder => SameAnnounced
         /\ toHolder # <<>> /\ toHolder' = Tail(toHolder)
              /\ Head(toHolder).type \notin {"promise", "resolve"} => SameAnnounced
         /\ \A m \in HolderMessage : m.type \in {"call", "echo"} /\ toHolder' = Append(toHolder, m)
              => SameAnnounced
<1>1. toHolder \in Seq(HolderMessage) /\ DOMAIN toHolder \subseteq Int
  BY LenProperties DEF ChannelTypes
<1>2. ASSUME toHolder' = toHolder PROVE SameAnnounced
  <2>1. \A k \in DOMAIN toHolder' : k \in Int /\ k + 0 \in DOMAIN toHolder /\ toHolder'[k] = toHolder[k + 0]
    BY <1>1, <1>2
  <2>2. \A k \in DOMAIN toHolder : k \in Int /\ k - 0 \in DOMAIN toHolder' /\ toHolder'[k - 0] = toHolder[k]
    BY <1>1, <1>2
  <2> QED BY <2>1, <2>2 DEF SameAnnounced
<1>3. ASSUME toHolder # <<>>, toHolder' = Tail(toHolder)
      PROVE  NothingAnnounced /\ (Head(toHolder).type \notin {"promise", "resolve"} => SameAnnounced)
  <2>1. \A k \in DOMAIN toHolder' : k \in Int /\ k + 1 \in DOMAIN toHolder /\ toHolder'[k] = toHolder[k + 1]
    BY <1>1, <1>3, PositionsOfTail
  <2>2. /\ 1 \in DOMAIN toHolder /\ toHolder[1] = Head(toHolder)
        /\ \A k \in DOMAIN toHolder : k # 1 => k \in Int /\ k - 1 \in DOMAIN toHolder'
                                             /\ toHolder'[k - 1] = toHolder[k]
    <3>1. /\ Head(toHolder) = toHolder[1] /\ Len(toHolder) \in Nat \ {0}
          /\ DOMAIN toHolder = 1..Len(toHolder) /\ DOMAIN toHolder' = 1..(Len(toHolder) - 1)
          /\ \A k \in 1..(Len(toHolder) - 1) : toHolder'[k] = toHolder[k + 1]
      BY <1>1, <1>3, HeadTailProperties, EmptySeq, LenProperties
    <3> QED BY <3>1
  <2>3. Head(toHolder).type \notin {"promise", "resolve"} => SameAnnounced
    BY <1>1, <2>1, <2>2 DEF SameAnnounced
  <2> QED BY <2>1, <2>3 DEF NothingAnnounced
<1>4. ASSUME NEW m \in HolderMessage, m.type \in {"call", "echo"}, toHolder' = Append(toHolder, m)
      PROVE  SameAnnounced
  <2>1. /\ DOMAIN toHolder' = DOMAIN toHolder \cup {Len(toHolder) + 1}
        /\ Len(toHolder) + 1 \in Int /\ toHolder'[Len(toHolder) + 1] = m
        /\ \A k \in DOMAIN toHolder : k \in Int /\ toHolder'[k] = toHolder[k]
    BY <1>1, <1>4, PositionsOfAppend
  <2>2. \A k \in DOMAIN toHolder' :
          k \in Int /\ (toHolder'[k].type \in {"promise", "resolve"}
                          => k + 0 \in DOMAIN toHolder /\ toHolder'[k] = toHolder[k + 0])
    BY <1>4, <2>1
  <2>3. \A k \in DOMAIN toHolder :
          k \in Int /\ k - 0 \in DOMAIN toHolder' /\ toHolder'[k - 0] = toHolder[k]
    BY <2>1
  <2> QED BY <2>2, <2>3 DEF SameAnnounced
<1> QED BY <1>2, <1>3, <1>4

\* What is in the queue stays true of a host that does not change.
LEMMA QueueStaysTrue ==
  ASSUME DescriptorsAgree, ResolvesAgree, NothingAnnounced, UNCHANGED <<entry, client>>
  PROVE  /\ DescriptorsAgree' /\ ResolvesAgree'
         /\ ResolvesMeetImports /\ imports' = imports => ResolvesMeetImports'
<1>1. PICK d \in {0, 1} : \A k \in DOMAIN toHolder' :
        k \in Int /\ (toHolder'[k].type \in {"promise", "resolve"}
                        => k + d \in DOMAIN toHolder /\ toHolder'[k] = toHolder[k + d])
  BY DEF NothingAnnounced
<1>2. DescriptorsAgree'
  BY <1>1 DEF DescriptorsAgree
<1>3. ASSUME NEW k \in DOMAIN toHolder', toHolder'[k].type = "resolve"
      PROVE  /\ toHolder'[k].to = client'[toHolder'[k].num]
             /\ \A j \in DOMAIN toHolder' :
                  j < k /\ toHolder'[j].type = "promise" /\ toHolder'[j].id = toHolder'[k].id
                    => toHolder'[j].num = toHolder'[k].num
  <2>1. k + d \in DOMAIN toHolder /\ toHolder'[k] = toHolder[k + d] /\ k \in Int
    BY <1>1, <1>3
  <2>2. ASSUME NEW j \in DOMAIN toHolder', j < k, toHolder'[j].type = "promise",
               toHolder'[j].id = toHolder'[k].id
        PROVE  toHolder'[j].num = toHolder'[k].num
    <3>1. j + d \in DOMAIN toHolder /\ toHolder'[j] = toHolder[j + d] /\ j \in Int
      BY <1>1, <2>2
    <3>2. j + d < k + d
      BY <2>1, <2>2, <3>1
    <3> QED BY <1>3, <2>1, <2>2, <3>1, <3>2 DEF ResolvesAgree
  <2> QED BY <1>3, <2>1, <2>2 DEF ResolvesAgree
<1>4. ResolvesAgree'
  BY <1>3 DEF ResolvesAgree
<1>5. ResolvesMeetImports /\ imports' = imports => ResolvesMeetImports'
  BY <1>1 DEF ResolvesMeetImports
<1> QED BY <1>2, <1>4, <1>5

\* The messages of the holder's queue.
LEMMA HolderElements ==
  ASSUME ChannelTypes
  PROVE  /\ \A k \in DOMAIN toHolder : k \in Int /\ toHolder[k] \in HolderMessage
         /\ toHolder # <<>> => /\ 1 \in DOMAIN toHolder /\ toHolder[1] = Head(toHolder)
                               /\ \A k \in DOMAIN Tail(toHolder) :
                                    k \in Int /\ k + 1 \in DOMAIN toHolder /\ 1 < k + 1
                                      /\ Tail(toHolder)[k] = toHolder[k + 1]
<1>1. toHolder \in Seq(HolderMessage)
  BY DEF ChannelTypes
<1>2. \A k \in DOMAIN toHolder : k \in Int /\ toHolder[k] \in HolderMessage
  BY <1>1, ElementOfSeq, LenProperties
<1> QED BY <1>1, <1>2, PositionsOfTail

LEMMA PassPromiseKeepsAnswers ==
  ASSUME TypeInv, TypeInv', RefInv, RefInv', AnswerInv, "reuse pending" \notin Uses,
         NEW p \in Promises, PassPromise(p)
  PROVE  AnswerInv'
<1>1. /\ imports' = imports /\ question' = question /\ question[p] = "pending"
      /\ ChannelTypes /\ ChannelTypes' /\ toHolder \in Seq(HolderMessage)
  BY DEF PassPromise, holderVars, TypeInv, ChannelTypes
<1>2. /\ entry \in [Ids -> {0} \cup Promises] /\ index \in [Promises -> {0} \cup Ids]
      /\ client \in [Promises -> {"none"} \cup Resolutions]
  BY DEF TypeInv, TableTypes, HostTypes
<1>3. NamedLive
  BY NamedIsLiveInStep
\* either way a descriptor of p for an export of p is sent, and the entries
\* that are named stay
<1>4. \E k \in Ids :
        /\ toHolder' = Append(toHolder, Msg("promise", k, p, "none"))
        /\ entry'[k] = p
        /\ \A i \in Ids : entry[i] # 0 => entry'[i] = entry[i]
        /\ client' = client /\ AwaitedAgree' /\ PendingAwaited'
  <2>1. CASE PassAgain(p)
    <3>1. index[p] \in Ids /\ entry[index[p]] # 0
      BY <2>1 DEF PassAgain, Listed
    <3>2. entry[index[p]] = p
      <4>1. <<p, index[p]>> \in awaiting
        <5>1. index[p] # 0
          BY <3>1, IdsArePositive
        <5>2. PendingAwaited
          BY DEF AnswerInv
        <5> QED BY <1>1, <5>1, <5>2 DEF PendingAwaited
      <4> QED BY <3>1, <4>1 DEF AnswerInv, AwaitedAgree
    <3>3. AwaitedAgree' /\ PendingAwaited'
      BY <1>1, <2>1 DEF PassAgain, AnswerInv, AwaitedAgree, PendingAwaited
    <3> QED BY <2>1, <3>1, <3>2, <3>3 DEF PassAgain
  <2>2. CASE PassNew(p)
    <3> DEFINE k == IdToUse
    <3>1. /\ k \in Ids /\ TakeId /\ entry' = [entry EXCEPT ![k] = p]
          /\ awaiting' = awaiting \cup {<<p, k>>}
          /\ client' = [client EXCEPT ![p] = "none"] /\ index' = [index EXCEPT ![p] = k]
          /\ toHolder' = Append(toHolder, Msg("promise", k, p, "none"))
          /\ \A q \in Promises : <<q, k>> \notin awaiting
      BY <2>2 DEF PassNew
    <3>2. entry[k] = 0
      BY <3>1, TakeIdKeepsFree DEF RefInv
    <3> HIDE DEF k
    <3>3. client[p] = "none"
      BY <1>1, <1>2 DEF AnswerInv, ClientsAgree, Resolutions
    <3>4. client' = client
      BY <1>2, <3>1, <3>3
    <3>5. AwaitedAgree'
      <4> SUFFICES ASSUME NEW q \in Promises, NEW i \in Ids, <<q, i>> \in awaiting'
                   PROVE  entry'[i] \in {0, q}
        BY DEF AwaitedAgree
      <4>1. CASE i = k
        BY <1>2, <3>1, <4>1
      <4>2. CASE i # k
        BY <1>2, <3>1, <4>2 DEF AnswerInv, AwaitedAgree
      <4> QED BY <4>1, <4>2
    <3>6. PendingAwaited'
      BY <1>1, <1>2, <3>1 DEF AnswerInv, PendingAwaited
    <3> QED BY <1>2, <3>1, <3>2, <3>4, <3>5, <3>6
  <2> QED BY <2>1, <2>2 DEF PassPromise
<1>5. PICK k \in Ids :
        /\ toHolder' = Append(toHolder, Msg("promise", k, p, "none"))
        /\ entry'[k] = p
        /\ \A i \in Ids : entry[i] # 0 => entry'[i] = entry[i]
        /\ client' = client /\ AwaitedAgree' /\ PendingAwaited'
  BY <1>4
<1> DEFINE m == Msg("promise", k, p, "none")
           n == Len(toHolder) + 1
<1>6. /\ m \in HolderMessage /\ m.type = "promise" /\ m.id = k /\ m.num = p
      /\ toHolder' = Append(toHolder, m)
  BY <1>5, MessagesTyped DEF Msg
<1> HIDE DEF m
<1>7. /\ DOMAIN toHolder' = DOMAIN toHolder \cup {n} /\ n \notin DOMAIN toHolder
      /\ n \in Int /\ toHolder'[n] = m
      /\ \A l \in DOMAIN toHolder : /\ l \in Int /\ l < n /\ toHolder'[l] = toHolder[l]
                                  /\ toHolder[l] \in HolderMessage
  <2>1. \A l \in DOMAIN toHolder : toHolder[l] \in HolderMessage
    BY <1>1, HolderElements
  <2>2. /\ DOMAIN toHolder' = DOMAIN toHolder \cup {Len(toHolder) + 1}
        /\ Len(toHolder) + 1 \notin DOMAIN toHolder
        /\ Len(toHolder) + 1 \in Int /\ toHolder'[Len(toHolder) + 1] = m
        /\ \A l \in DOMAIN toHolder : l \in Int /\ l < Len(toHolder) + 1
                                       /\ toHolder'[l] = toHolder[l]
    BY ONLY <1>1, <1>6, PositionsOfAppend
  <2> QED BY <2>1, <2>2
<1> HIDE DEF n
<1>8. ClientsAgree' /\ ImportsSettled'
  BY <1>1, <1>5 DEF AnswerInv, ClientsAgree, ImportsSettled
<1>9. ImportsAgree'
  BY <1>1, <1>3, <1>5 DEF AnswerInv, ImportsAgree, NamedLive
<1>10. DescriptorsAgree'
  <2> SUFFICES ASSUME NEW l \in DOMAIN toHolder', toHolder'[l].type = "promise"
               PROVE  entry'[toHolder'[l].id] = toHolder'[l].num
    BY DEF DescriptorsAgree
  <2>1. CASE l = n
    BY <1>5, <1>6, <1>7, <2>1
  <2>2. CASE l \in DOMAIN toHolder
    <3>1. toHolder'[l] = toHolder[l] /\ toHolder[l].id \in Ids
      BY <1>7, <2>2, HolderMessageFields
    <3> QED BY <1>3, <1>5, <2>2, <3>1 DEF AnswerInv, DescriptorsAgree, NamedLive
  <2> QED BY <1>7, <2>1, <2>2
<1>11. ResolvesAgree'
  <2> SUFFICES ASSUME NEW l \in DOMAIN toHolder', toHolder'[l].type = "resolve"
               PROVE  /\ toHolder'[l].to = client'[toHolder'[l].num]
                      /\ \A j \in DOMAIN toHolder' :
                           j < l /\ toHolder'[j].type = "promise"
                             /\ toHolder'[j].id = toHolder'[l].id
                             => toHolder'[j].num = toHolder'[l].num
    BY DEF ResolvesAgree
  <2>1. l \in DOMAIN toHolder /\ toHolder'[l] = toHolder[l] /\ l < n /\ l \in Int
    BY <1>6, <1>7
  <2>2. ASSUME NEW j \in DOMAIN toHolder', j < l
        PROVE  j \in DOMAIN toHolder /\ toHolder'[j] = toHolder[j]
    <3>1. ASSUME j = n PROVE FALSE
      <4>1. n < l /\ l < n /\ n \in Int /\ l \in Int
        BY <1>7, <2>1, <2>2, <3>1
      <4> QED BY ONLY <4>1
    <3> QED BY <1>7, <3>1
  <2>3. toHolder'[l].to = client'[toHolder'[l].num]
    BY <1>5, <2>1 DEF AnswerInv, ResolvesAgree
  <2>4. ASSUME NEW j \in DOMAIN toHolder', j < l, toHolder'[j].type = "promise",
               toHolder'[j].id = toHolder'[l].id
        PROVE  toHolder'[j].num = toHolder'[l].num
    BY <2>1, <2>2, <2>4 DEF AnswerInv, ResolvesAgree
  <2> QED BY <2>3, <2>4
<1>12. ResolvesMeetImports'
  BY <1>1, <1>6, <1>7 DEF AnswerInv, ResolvesMeetImports
<1> QED BY <1>5, <1>8, <1>9, <1>10, <1>11, <1>12 DEF AnswerInv

\* What Settle sends: what is queued, and the Resolve last.
LEMMA SettlePositions ==
  ASSUME TypeInv, NEW e \in Promises, NEW i \in Ids, NEW r \in Resolutions, Settle(e, i, r)
  PROVE  \E n \in Int :
           /\ n \in DOMAIN toHolder' /\ toHolder'[n] = Msg("resolve", i, e, r)
           /\ \A k \in DOMAIN toHolder :
                k \in DOMAIN toHolder' /\ k < n /\ toHolder'[k] = toHolder[k]
           /\ \A k \in DOMAIN toHolder' :
                /\ k \in Int
                /\ \/ k = n \/ k \in DOMAIN toHolder
                   \/ /\ k > Len(toHolder) /\ k < n /\ toHolder'[k].type = "call"
                      /\ r = "back" /\ k - Len(toHolder) \in DOMAIN queue[e]
                      /\ toHolder'[k].num = queue[e][k - Len(toHolder)]
<1> DEFINE fwd == IF r = "back" THEN Forwards(queue[e]) ELSE <<>>
           m == Msg("resolve", i, e, r)
           u == toHolder \o fwd
           n == Len(u) + 1
<1>1. queue[e] \in Seq(Calls) /\ toHolder \in Seq(HolderMessage) /\ m \in HolderMessage
  BY MessagesTyped DEF TypeInv, QueueTypes, ChannelTypes
<1>2. /\ fwd \in Seq(HolderMessage)
      /\ \A k \in 1..Len(fwd) : /\ fwd[k].type = "call" /\ fwd[k].num = queue[e][k]
                                /\ r = "back" /\ k \in DOMAIN queue[e]
  <2>1. CASE r = "back"
    <3> DEFINE t == Forwards(queue[e])
    <3>1. /\ t \in Seq(HolderMessage) /\ Len(t) = Len(queue[e])
          /\ \A k \in 1..Len(queue[e]) : t[k] = Msg("call", 0, queue[e][k], "none")
      BY <1>1, ForwardsTyped
    <3> HIDE DEF t
    <3>2. ASSUME NEW k \in 1..Len(t)
          PROVE  t[k].type = "call" /\ t[k].num = queue[e][k] /\ k \in DOMAIN queue[e]
      <4>1. t[k] = Msg("call", 0, queue[e][k], "none")
        BY <3>1
      <4>2. DOMAIN queue[e] = 1..Len(queue[e])
        BY <1>1, LenProperties
      <4> QED BY <3>1, <4>1, <4>2 DEF Msg
    <3> QED BY <2>1, <3>1, <3>2 DEF t
  <2>2. CASE r # "back"
    BY <2>2
  <2> QED BY <2>1, <2>2
<1>3. toHolder' = u \o <<m>>
  BY DEF Settle
<1> HIDE DEF fwd, m
<1>4. /\ u \in Seq(HolderMessage) /\ Len(u) = Len(toHolder) + Len(fwd)
      /\ Len(toHolder) \in Nat /\ Len(fwd) \in Nat
      /\ DOMAIN toHolder = 1..Len(toHolder) /\ DOMAIN u = 1..(Len(toHolder) + Len(fwd))
      /\ \A k \in 1..(Len(toHolder) + Len(fwd)) :
           u[k] = IF k <= Len(toHolder) THEN toHolder[k] ELSE fwd[k - Len(toHolder)]
  BY <1>1, <1>2, ConcatProperties, LenProperties
<1> HIDE DEF u
<1>5. toHolder' = Append(u, m)
  BY <1>1, <1>3, <1>4, AppendIsConcat
<1>6. /\ DOMAIN toHolder' = DOMAIN u \cup {n} /\ n \in Int /\ toHolder'[n] = m
      /\ \A k \in DOMAIN u : k \in Int /\ k < n /\ toHolder'[k] = u[k]
  <2>1. /\ DOMAIN toHolder' = DOMAIN u \cup {Len(u) + 1}
        /\ Len(u) + 1 \in Int /\ toHolder'[Len(u) + 1] = m
        /\ \A k \in DOMAIN u : k \in Int /\ k < Len(u) + 1 /\ toHolder'[k] = u[k]
    <3>1. u \in Seq(HolderMessage) /\ m \in HolderMessage
      BY <1>1, <1>4
    <3> QED BY ONLY <1>5, <3>1, PositionsOfAppend
  <2> QED BY <2>1
<1> HIDE DEF n
<1>7. ASSUME NEW k \in DOMAIN toHolder
      PROVE  k \in DOMAIN toHolder' /\ k < n /\ toHolder'[k] = toHolder[k]
  <2>1. k \in DOMAIN u /\ u[k] = toHolder[k]
    BY <1>4
  <2> QED BY <1>6, <2>1
<1>8. ASSUME NEW k \in DOMAIN toHolder'
      PROVE  /\ k \in Int
             /\ \/ k = n \/ k \in DOMAIN toHolder
                \/ /\ k > Len(toHolder) /\ k < n /\ toHolder'[k].type = "call"
                   /\ r = "back" /\ k - Len(toHolder) \in DOMAIN queue[e]
                   /\ toHolder'[k].num = queue[e][k - Len(toHolder)]
  <2>1. CASE k \in DOMAIN u
    <3>1. k \in Int /\ k < n /\ toHolder'[k] = u[k] /\ k \in 1..(Len(toHolder) + Len(fwd))
      BY <1>4, <1>6, <2>1
    <3>2. CASE k <= Len(toHolder)
      BY <1>4, <3>1, <3>2
    <3>3. CASE ~ (k <= Len(toHolder))
      <4>1. k > Len(toHolder) /\ k - Len(toHolder) \in 1..Len(fwd)
        BY <1>4, <3>1, <3>3
      <4>2. u[k] = fwd[k - Len(toHolder)]
        BY <1>4, <3>1, <3>3
      <4> QED BY <1>2, <3>1, <4>1, <4>2
    <3> QED BY <3>2, <3>3
  <2>2. CASE k = n
    BY <1>6, <2>2
  <2> QED BY <1>6, <2>1, <2>2
<1>9. n \in DOMAIN toHolder' /\ toHolder'[n] = Msg("resolve", i, e, r) /\ n \in Int
  BY <1>6 DEF m
<1> QED BY <1>7, <1>8, <1>9

LEMMA SettleKeepsAnswers ==
  ASSUME TypeInv, TypeInv', RefInv, AnswerInv,
         NEW p \in Promises, NEW i \in Ids, <<p, i>> \in awaiting, question[p] # "pending",
         entry[i] # 0, client[entry[i]] = "none", Settle(entry[i], i, question[p]),
         awaiting' = awaiting \ {<<p, i>>},
         UNCHANGED <<question, entry, index, imports>>
  PROVE  AnswerInv'
<1> DEFINE r == question[p]
           m == Msg("resolve", i, p, r)
<1>1. entry[i] = p
  BY DEF AnswerInv, AwaitedAgree
<1>2. r \in Resolutions /\ r # "none" /\ client \in [Promises -> {"none"} \cup Resolutions]
  BY DEF TypeInv, HostTypes, Resolutions
<1>3. client' = [client EXCEPT ![p] = r]
  BY <1>1 DEF Settle
<1>4. PICK n \in Int :
        /\ n \in DOMAIN toHolder' /\ toHolder'[n] = m
        /\ \A k \in DOMAIN toHolder :
             k \in DOMAIN toHolder' /\ k < n /\ toHolder'[k] = toHolder[k]
        /\ \A k \in DOMAIN toHolder' :
             /\ k \in Int
             /\ \/ k = n \/ k \in DOMAIN toHolder
                \/ k > Len(toHolder) /\ k < n /\ toHolder'[k].type = "call"
  BY <1>1, <1>2, SettlePositions
<1>5. m.type = "resolve" /\ m.id = i /\ m.num = p /\ m.to = r
  BY DEF Msg
<1> HIDE DEF r, m
<1>6. \A q \in Promises : client[q] # "none" => client'[q] = client[q]
  BY <1>1, <1>2, <1>3
<1>7. \A k \in DOMAIN toHolder : k \in Int /\ toHolder[k] \in HolderMessage
  BY HolderElements DEF TypeInv
<1>8. ASSUME NEW k \in DOMAIN toHolder', toHolder'[k].type \in {"promise", "resolve"}
      PROVE  k = n \/ (k \in DOMAIN toHolder /\ toHolder'[k] = toHolder[k])
  BY <1>4, <1>8
<1>9. AwaitedAgree' /\ PendingAwaited' /\ ImportsAgree'
  BY DEF AnswerInv, AwaitedAgree, PendingAwaited, ImportsAgree
<1>10. ClientsAgree'
  BY <1>2, <1>3 DEF AnswerInv, ClientsAgree, r
<1>11. DescriptorsAgree'
  BY <1>4, <1>5, <1>8 DEF AnswerInv, DescriptorsAgree
<1>12. ImportsSettled'
  BY <1>6 DEF AnswerInv, ImportsSettled
<1>13. ResolvesMeetImports'
  BY <1>1, <1>4, <1>5, <1>8 DEF AnswerInv, ResolvesMeetImports, ImportsAgree
<1>14. ResolvesAgree'
  <2> SUFFICES ASSUME NEW k \in DOMAIN toHolder', toHolder'[k].type = "resolve"
               PROVE  /\ toHolder'[k].to = client'[toHolder'[k].num]
                      /\ \A j \in DOMAIN toHolder' :
                           j < k /\ toHolder'[j].type = "promise"
                             /\ toHolder'[j].id = toHolder'[k].id
                             => toHolder'[j].num = toHolder'[k].num
    BY DEF ResolvesAgree
  <2>1. CASE k = n
    <3>1. ASSUME NEW j \in DOMAIN toHolder', toHolder'[j].type = "promise", toHolder'[j].id = i
          PROVE  toHolder'[j].num = p
      <4>1. j \in DOMAIN toHolder /\ toHolder'[j] = toHolder[j]
        BY <1>4, <1>5, <1>8, <3>1
      <4> QED BY <1>1, <3>1, <4>1 DEF AnswerInv, DescriptorsAgree
    <3> QED BY <1>2, <1>3, <1>4, <1>5, <2>1, <3>1
  <2>2. CASE k # n
    <3>1. k \in DOMAIN toHolder /\ toHolder'[k] = toHolder[k] /\ k < n /\ k \in Int
      BY <1>4, <1>8, <2>2
    <3>2. /\ toHolder[k].to = client[toHolder[k].num] /\ toHolder[k].to # "none"
          /\ toHolder[k].num \in Promises
      BY <1>7, <3>1, HolderMessageFields DEF AnswerInv, ResolvesAgree, Resolutions
    <3>3. ASSUME NEW j \in DOMAIN toHolder', j < k, toHolder'[j].type = "promise",
                 toHolder'[j].id = toHolder'[k].id
          PROVE  toHolder'[j].num = toHolder'[k].num
      <4>1. j \in DOMAIN toHolder /\ toHolder'[j] = toHolder[j]
        BY <1>4, <1>5, <1>8, <3>3
      <4> QED BY <3>1, <3>3, <4>1 DEF AnswerInv, ResolvesAgree
    <3> QED BY <1>6, <3>1, <3>2, <3>3
  <2> QED BY <2>1, <2>2
<1> QED BY <1>9, <1>10, <1>11, <1>12, <1>13, <1>14 DEF AnswerInv

LEMMA ContinueKeepsAnswers ==
  ASSUME TypeInv, TypeInv', RefInv, AnswerInv, NEW p \in Promises, NEW i \in Ids, Continue(p, i)
  PROVE  AnswerInv'
<1>1. /\ <<p, i>> \in awaiting /\ question[p] # "pending" /\ awaiting' = awaiting \ {<<p, i>>}
      /\ UNCHANGED <<question, entry, index, imports>>
  BY DEF Continue, holderVars
<1>2. CASE UNCHANGED <<client, toHolder>>
  <2>1. AwaitedAgree' /\ PendingAwaited'
    BY <1>1 DEF AnswerInv, AwaitedAgree, PendingAwaited
  <2>2. ClientsAgree' /\ DescriptorsAgree' /\ ImportsAgree' /\ ResolvesAgree'
    BY <1>1, <1>2 DEF AnswerInv, ClientsAgree, DescriptorsAgree, ImportsAgree, ResolvesAgree
  <2>3. ResolvesMeetImports' /\ ImportsSettled'
    BY <1>1, <1>2 DEF AnswerInv, ResolvesMeetImports, ImportsSettled
  <2> QED BY <2>1, <2>2, <2>3 DEF AnswerInv
<1>3. CASE /\ entry[i] # 0 /\ client[entry[i]] = "none"
           /\ Settle(entry[i], i, question[p])
  BY <1>1, <1>3, SettleKeepsAnswers
<1> QED BY <1>2, <1>3 DEF Continue

LEMMA HandleReleaseKeepsAnswers ==
  ASSUME TypeInv, TypeInv', RefInv, RefInv', AnswerInv, HandleRelease
  PROVE  AnswerInv'
<1>1. /\ UNCHANGED <<question, index, awaiting, client, imports, toHolder>>
      /\ entry' = entry \/ \E i \in Ids : entry' = [entry EXCEPT ![i] = 0]
  <2>1. Head(toHost).id \in Ids
    <3>1. Head(toHost) \in HostMessage /\ Head(toHost).type = "release"
      BY HostTakesTyped DEF HandleRelease, TypeInv
    <3> QED BY <3>1, HostMessageFields
  <2> QED BY <2>1 DEF HandleRelease, holderVars
<1>2. /\ entry \in [Ids -> {0} \cup Promises]
      /\ \A i \in Ids : entry'[i] \in {0, entry[i]}
  BY <1>1 DEF TypeInv, TableTypes
<1>3. NamedLive'
  BY NamedIsLiveInStep
<1>4. AwaitedAgree' /\ PendingAwaited' /\ ClientsAgree'
  BY <1>1, <1>2 DEF AnswerInv, AwaitedAgree, PendingAwaited, ClientsAgree
<1>5. DescriptorsAgree'
  <2> SUFFICES ASSUME NEW k \in DOMAIN toHolder', toHolder'[k].type = "promise"
               PROVE  entry'[toHolder'[k].id] = toHolder'[k].num
    BY DEF DescriptorsAgree
  <2>1. k \in DOMAIN toHolder /\ toHolder'[k] = toHolder[k] /\ toHolder[k].type = "promise"
    BY <1>1
  <2>2. toHolder[k].id \in Ids
    BY <2>1, HolderElements, HolderMessageFields DEF TypeInv
  <2> QED BY <1>2, <1>3, <2>1, <2>2 DEF AnswerInv, DescriptorsAgree, NamedLive
<1>6. ImportsAgree'
  BY <1>1, <1>2, <1>3 DEF AnswerInv, ImportsAgree, NamedLive
<1>7. ResolvesAgree' /\ ResolvesMeetImports' /\ ImportsSettled'
  BY <1>1 DEF AnswerInv, ResolvesAgree, ResolvesMeetImports, ImportsSettled
<1> QED BY <1>4, <1>5, <1>6, <1>7 DEF AnswerInv

LEMMA HandlePromiseKeepsAnswers ==
  ASSUME TypeInv, TypeInv', AnswerInv, HandlePromise
  PROVE  AnswerInv'
<1> DEFINE m == Head(toHolder)
<1>1. /\ m \in HolderMessage /\ m.type = "promise"
      /\ toHolder # <<>> /\ toHolder' = Tail(toHolder) /\ ChannelTypes
  BY HolderTakesTyped DEF HandlePromise, TypeInv
<1>2. m.id \in Ids /\ m.num \in Promises
  BY <1>1, HolderMessageFields
<1>3. /\ imports' = IF imports[m.id].refs = 0
                    THEN [imports EXCEPT ![m.id] = PromiseImport(m.num)]
                    ELSE [imports EXCEPT ![m.id].refs = @ + 1, ![m.id].local = @ + 1,
                                         ![m.id].isPromise = TRUE]
      /\ UNCHANGED <<question, entry, index, awaiting, client>>
  BY DEF HandlePromise, hostVars
<1>4. /\ 1 \in DOMAIN toHolder /\ toHolder[1] = m
      /\ \A k \in DOMAIN toHolder' :
           k + 1 \in DOMAIN toHolder /\ 1 < k + 1 /\ toHolder'[k] = toHolder[k + 1]
      /\ \A k \in DOMAIN toHolder : toHolder[k] \in HolderMessage
  BY <1>1, HolderElements
<1> HIDE DEF m
<1>5. /\ imports \in [Ids -> ImportEntry] /\ imports[m.id] \in ImportEntry
      /\ imports[m.id].refs \in Nat
  BY <1>2 DEF TypeInv, HolderTypes, ImportEntry
<1>6. /\ \A i \in Ids : i # m.id => imports'[i] = imports[i]
      /\ imports'[m.id].refs > 0
      /\ IF imports[m.id].refs = 0
         THEN imports'[m.id].of = m.num /\ imports'[m.id].resolved = "none"
         ELSE /\ imports'[m.id].of = imports[m.id].of
              /\ imports'[m.id].resolved = imports[m.id].resolved
  <2>1. CASE imports[m.id].refs = 0
    BY <1>2, <1>3, <1>5, <2>1 DEF PromiseImport
  <2>2. CASE imports[m.id].refs # 0
    BY <1>2, <1>3, <1>5, <2>2 DEF ImportEntry
  <2> QED BY <2>1, <2>2
<1>7. entry[m.id] = m.num
  BY <1>1, <1>4 DEF AnswerInv, DescriptorsAgree
<1>8. AwaitedAgree' /\ PendingAwaited' /\ ClientsAgree'
  BY <1>3 DEF AnswerInv, AwaitedAgree, PendingAwaited, ClientsAgree
<1>9. ImportsAgree'
  BY <1>2, <1>3, <1>5, <1>6, <1>7 DEF AnswerInv, ImportsAgree
<1>10. DescriptorsAgree' /\ ResolvesAgree'
  <2>1. NothingAnnounced
    BY <1>1, QuietSteps
  <2> QED BY <1>3, <2>1, QueueStaysTrue DEF AnswerInv
<1>11. ImportsSettled'
  <2> SUFFICES ASSUME NEW i \in Ids
               PROVE  /\ imports'[i].isPromise \/ imports'[i].resolved # "none" => imports'[i].refs > 0
                      /\ imports'[i].resolved # "none" =>
                           /\ imports'[i].of \in Promises /\ client'[imports'[i].of] # "none"
                           /\ imports'[i].resolved = Outcome(client'[imports'[i].of])
    BY DEF ImportsSettled
  <2>1. CASE i = m.id
    BY <1>2, <1>3, <1>6, <2>1 DEF AnswerInv, ImportsSettled
  <2>2. CASE i # m.id
    BY <1>3, <1>6, <2>2 DEF AnswerInv, ImportsSettled
  <2> QED BY <2>1, <2>2
<1>12. ResolvesMeetImports'
  <2> SUFFICES ASSUME NEW k \in DOMAIN toHolder', toHolder'[k].type = "resolve",
                      imports'[toHolder'[k].id].refs > 0
               PROVE  imports'[toHolder'[k].id].of = toHolder'[k].num
    BY DEF ResolvesMeetImports
  <2>1. /\ k + 1 \in DOMAIN toHolder /\ 1 < k + 1 /\ toHolder'[k] = toHolder[k + 1]
        /\ toHolder[k + 1].id \in Ids
    BY <1>4, HolderMessageFields
  <2>2. toHolder[k + 1].id = m.id => m.num = toHolder[k + 1].num
    BY <1>1, <1>4, <2>1 DEF AnswerInv, ResolvesAgree
  <2>3. imports[toHolder[k + 1].id].refs > 0 => imports[toHolder[k + 1].id].of = toHolder[k + 1].num
    BY <2>1 DEF AnswerInv, ResolvesMeetImports
  <2>4. CASE toHolder[k + 1].id = m.id
    BY <1>5, <1>6, <2>1, <2>2, <2>3, <2>4
  <2>5. CASE toHolder[k + 1].id # m.id
    BY <1>6, <2>1, <2>3, <2>5
  <2> QED BY <2>4, <2>5
<1> QED BY <1>8, <1>9, <1>10, <1>11, <1>12 DEF AnswerInv

LEMMA HandleResolveKeepsAnswers ==
  ASSUME TypeInv, TypeInv', AnswerInv, HandleResolve
  PROVE  AnswerInv'
<1> DEFINE m == Head(toHolder)
<1>1. /\ m \in HolderMessage /\ m.type = "resolve"
      /\ toHolder # <<>> /\ toHolder' = Tail(toHolder) /\ ChannelTypes
  BY HolderTakesTyped DEF HandleResolve, TypeInv
<1>2. m.id \in Ids /\ m.num \in Promises /\ m.to \in Resolutions
  BY <1>1, HolderMessageFields
<1>3. /\ IF imports[m.id].isPromise THEN ResolveImport(m) ELSE DiscardResolved(m)
      /\ UNCHANGED <<question, entry, index, awaiting, client>>
  BY DEF HandleResolve, hostVars
<1>4. 1 \in DOMAIN toHolder /\ toHolder[1] = m
  BY <1>1, HolderElements
<1>5. /\ m.to = client[m.num]
      /\ imports[m.id].refs > 0 => imports[m.id].of = m.num
  BY <1>1, <1>4 DEF AnswerInv, ResolvesAgree, ResolvesMeetImports
<1> HIDE DEF m
<1>6. /\ imports \in [Ids -> ImportEntry] /\ imports[m.id] \in ImportEntry
      /\ imports[m.id].refs \in Nat
  BY <1>2 DEF TypeInv, HolderTypes, ImportEntry
<1>7. AwaitedAgree' /\ PendingAwaited' /\ ClientsAgree'
  BY <1>3 DEF AnswerInv, AwaitedAgree, PendingAwaited, ClientsAgree
<1>8. NothingAnnounced
  BY <1>1, QuietSteps
<1>9. DescriptorsAgree' /\ ResolvesAgree' /\ (imports' = imports => ResolvesMeetImports')
  BY <1>3, <1>8, QueueStaysTrue DEF AnswerInv
<1>10. CASE imports' = imports
  <2>1. ImportsAgree' /\ ImportsSettled'
    BY <1>3, <1>10 DEF AnswerInv, ImportsAgree, ImportsSettled
  <2> QED BY <1>7, <1>9, <1>10, <2>1 DEF AnswerInv
<1>11. CASE imports[m.id].isPromise /\ ResolveImport(m)
  <2>1. imports[m.id].refs > 0 /\ imports[m.id].of = m.num
    BY <1>2, <1>5, <1>11 DEF AnswerInv, ImportsSettled
  <2>2. /\ \A i \in Ids : i # m.id => imports'[i] = imports[i]
        /\ imports'[m.id].of = imports[m.id].of
        /\ imports'[m.id].refs >= imports[m.id].refs /\ imports'[m.id].refs \in Nat
        /\ imports'[m.id].resolved = Outcome(m.to)
    <3>1. CASE /\ m.to = "back"
               /\ \E e \in EmbargoIds :
                    imports' = [imports EXCEPT ![m.id].resolved = "back",
                                               ![m.id].isPromise = FALSE, ![m.id].embargo = e]
      BY <1>2, <1>6, <3>1 DEF Outcome, ImportEntry
    <3>2. CASE /\ m.to \in {"known", "broken"}
               /\ imports' = [imports EXCEPT ![m.id].resolved = m.to, ![m.id].isPromise = FALSE]
      BY <1>2, <1>6, <3>2 DEF Outcome, ImportEntry
    <3>3. CASE /\ m.to = "fresh"
               /\ imports' = [imports EXCEPT ![m.id].resolved = "self", ![m.id].isPromise = FALSE,
                                             ![m.id].refs = @ + 1]
      BY <1>2, <1>6, <3>3 DEF Outcome, ImportEntry
    <3> QED BY <1>11, <3>1, <3>2, <3>3 DEF ResolveImport
  <2>3. imports'[m.id].refs > 0
    BY <1>6, <2>1, <2>2
  <2>4. ImportsAgree'
    BY <1>2, <1>3, <2>1, <2>2 DEF AnswerInv, ImportsAgree
  <2>5. ImportsSettled'
    <3> SUFFICES ASSUME NEW i \in Ids
                 PROVE  /\ imports'[i].isPromise \/ imports'[i].resolved # "none"
                             => imports'[i].refs > 0
                        /\ imports'[i].resolved # "none" =>
                             /\ imports'[i].of \in Promises /\ client'[imports'[i].of] # "none"
                             /\ imports'[i].resolved = Outcome(client'[imports'[i].of])
      BY DEF ImportsSettled
    <3>1. CASE i = m.id
      BY <1>2, <1>3, <1>5, <2>1, <2>2, <2>3, <3>1 DEF Resolutions
    <3>2. CASE i # m.id
      BY <1>3, <2>2, <3>2 DEF AnswerInv, ImportsSettled
    <3> QED BY <3>1, <3>2
  <2>6. ResolvesMeetImports'
    <3> SUFFICES ASSUME NEW k \in DOMAIN toHolder', toHolder'[k].type = "resolve",
                        imports'[toHolder'[k].id].refs > 0
                 PROVE  imports'[toHolder'[k].id].of = toHolder'[k].num
      BY DEF ResolvesMeetImports
    <3>1. k + 1 \in DOMAIN toHolder /\ toHolder'[k] = toHolder[k + 1] /\ toHolder[k + 1].id \in Ids
      BY <1>1, HolderElements, HolderMessageFields
    <3>2. imports[toHolder[k + 1].id].refs > 0
            => imports[toHolder[k + 1].id].of = toHolder[k + 1].num
      BY <3>1 DEF AnswerInv, ResolvesMeetImports
    <3> QED BY <2>1, <2>2, <3>1, <3>2
  <2> QED BY <1>7, <1>9, <2>4, <2>5, <2>6 DEF AnswerInv
<1> QED BY <1>3, <1>10, <1>11 DEF DiscardResolved

\* An import that is closed, or keeps what it stands for.
ImportKept(i) ==
  \/ imports'[i] = NoImport
  \/ /\ imports'[i].refs = imports[i].refs /\ imports'[i].of = imports[i].of
     /\ imports'[i].isPromise = imports[i].isPromise
     /\ imports'[i].resolved = imports[i].resolved
     /\ imports'[i].embargo \in {0, imports[i].embargo}

\* Steps that announce nothing and leave the tables of the host alone.
LEMMA QuietKeepsAnswers ==
  ASSUME TypeInv, TypeInv', AnswerInv, NothingAnnounced, \A i \in Ids : ImportKept(i),
         UNCHANGED <<question, entry, index, awaiting, client>>
  PROVE  AnswerInv'
<1>1. /\ NoImport.refs = 0 /\ NoImport.isPromise = FALSE /\ NoImport.resolved = "none"
  BY DEF NoImport
<1>2. AwaitedAgree' /\ PendingAwaited' /\ ClientsAgree'
  BY DEF AnswerInv, AwaitedAgree, PendingAwaited, ClientsAgree
<1>3. DescriptorsAgree' /\ ResolvesAgree'
  BY QueueStaysTrue DEF AnswerInv
<1>4. ImportsAgree'
  BY <1>1 DEF AnswerInv, ImportsAgree, ImportKept
<1>5. ImportsSettled'
  <2> SUFFICES ASSUME NEW i \in Ids
               PROVE  /\ imports'[i].isPromise \/ imports'[i].resolved # "none"
                           => imports'[i].refs > 0
                      /\ imports'[i].resolved # "none" =>
                           /\ imports'[i].of \in Promises /\ client'[imports'[i].of] # "none"
                           /\ imports'[i].resolved = Outcome(client'[imports'[i].of])
    BY DEF ImportsSettled
  <2>1. CASE imports'[i] = NoImport
    BY <1>1, <2>1
  <2>2. CASE imports'[i] # NoImport
    BY <2>2 DEF AnswerInv, ImportsSettled, ImportKept
  <2> QED BY <2>1, <2>2
<1>6. ResolvesMeetImports'
  <2> SUFFICES ASSUME NEW k \in DOMAIN toHolder', toHolder'[k].type = "resolve",
                      imports'[toHolder'[k].id].refs > 0
               PROVE  imports'[toHolder'[k].id].of = toHolder'[k].num
    BY DEF ResolvesMeetImports
  <2>1. PICK d \in {0, 1} : k + d \in DOMAIN toHolder /\ toHolder'[k] = toHolder[k + d]
    BY DEF NothingAnnounced
  <2>2. toHolder[k + d].id \in Ids
    BY <2>1, HolderElements, HolderMessageFields DEF TypeInv
  <2>3. imports[toHolder[k + d].id].refs > 0
          => imports[toHolder[k + d].id].of = toHolder[k + d].num
    BY <2>1 DEF AnswerInv, ResolvesMeetImports
  <2> QED BY <1>1, <2>1, <2>2, <2>3 DEF ImportKept
<1> QED BY <1>2, <1>3, <1>4, <1>5, <1>6 DEF AnswerInv

LEMMA QuestionSettlesKeepsAnswers ==
  ASSUME TypeInv, TypeInv', AnswerInv, NEW p \in Promises, QuestionSettles(p)
  PROVE  AnswerInv'
<1>1. /\ UNCHANGED <<entry, index, awaiting, client, imports, toHolder>>
      /\ question \in [Promises -> {"pending"} \cup Resolutions]
      /\ question[p] = "pending"
      /\ \A q \in Promises : q # p => question'[q] = question[q]
      /\ question'[p] # "pending"
  <2>1. PICK r \in Answers : question' = [question EXCEPT ![p] = r]
    BY DEF QuestionSettles
  <2>2. r # "pending"
    BY PromiseCapsAssumption DEF Resolutions
  <2> QED BY <2>1, <2>2 DEF QuestionSettles, holderVars, TypeInv, HostTypes
<1>2. client[p] = "none"
  <2>1. client[p] \in {"none"} \cup Resolutions
    BY DEF TypeInv, HostTypes
  <2> QED BY <1>1, <2>1 DEF AnswerInv, ClientsAgree, Resolutions
<1>3. AwaitedAgree' /\ PendingAwaited' /\ ClientsAgree'
  BY <1>1, <1>2 DEF AnswerInv, AwaitedAgree, PendingAwaited, ClientsAgree
<1>4. DescriptorsAgree' /\ ImportsAgree' /\ ResolvesAgree'
  BY <1>1 DEF AnswerInv, DescriptorsAgree, ImportsAgree, ResolvesAgree
<1>5. ResolvesMeetImports' /\ ImportsSettled'
  BY <1>1 DEF AnswerInv, ResolvesMeetImports, ImportsSettled
<1> QED BY <1>3, <1>4, <1>5 DEF AnswerInv

\* Calls, embargoes and what the holder does with its imports.
QuietStep ==
  \/ HandleCall \/ HandleSenderLoopback \/ HandleForwarded \/ HandleReceiverLoopback
  \/ LiftNext \/ LiftReturns \/ LiftEnds \/ UNCHANGED vars
  \/ \E i \in Ids : Call(i) \/ CloseRef(i)

\* They announce nothing and leave the tables of the host alone.
LEMMA QuietStepIsQuiet ==
  ASSUME TypeInv, TypeInv', QuietStep
  PROVE  /\ SameAnnounced /\ \A i \in Ids : ImportKept(i)
         /\ UNCHANGED <<question, entry, index, awaiting, client>>
<1>1. ChannelTypes /\ ChannelTypes' /\ imports \in [Ids -> ImportEntry]
  BY DEF TypeInv, HolderTypes
<1>2. UNCHANGED <<question, entry, index, awaiting, client>>
  BY DEF QuietStep, HandleCall, HandleSenderLoopback, HandleForwarded, HandleReceiverLoopback,
         LiftNext, LiftReturns, LiftEnds, Call, CloseRef, hostVars, vars
<1>3. SameAnnounced
  <2>1. CASE HandleCall
    <3>1. toHolder' = toHolder \/ \E c \in Calls : toHolder' = toHolder \o Forwards(<<c>>)
      <4>1. Head(toHost) \in HostMessage /\ Head(toHost).type = "call"
        BY <1>1, <2>1, HostTakesTyped DEF HandleCall
      <4>2. Head(toHost).num \in Calls
        BY <4>1, HostMessageFields
      <4> QED BY <2>1, <4>2 DEF HandleCall, ExportCall
    <3>2. ASSUME NEW c \in Calls, toHolder' = toHolder \o Forwards(<<c>>)
          PROVE  SameAnnounced
      <4> DEFINE m == Msg("call", 0, c, "none")
      <4>1. Forwards(<<c>>) = <<m>>
        BY DEF Forwards
      <4>2. m \in HolderMessage /\ m.type = "call"
        BY <3>2 DEF Msg, HolderMessage
      <4> HIDE DEF m
      <4>3. toHolder' = Append(toHolder, m)
        <5>1. toHolder \in Seq(HolderMessage)
          BY <1>1 DEF ChannelTypes
        <5>2. toHolder \o <<m>> = Append(toHolder, m)
          BY <4>2, <5>1
        <5> QED BY <3>2, <4>1, <5>2
      <4> QED BY <1>1, <4>2, <4>3, QuietSteps
    <3> QED BY <1>1, <3>1, <3>2, QuietSteps
  <2>2. CASE HandleSenderLoopback
    <3> DEFINE m == Msg("echo", 0, Head(toHost).num, "none")
    <3>1. Head(toHost) \in HostMessage /\ Head(toHost).type = "loopback"
      BY <1>1, <2>2, HostTakesTyped DEF HandleSenderLoopback
    <3>2. m \in HolderMessage /\ m.type = "echo"
      BY <3>1, HostMessageFields DEF Msg, HolderMessage
    <3>3. toHolder' = Append(toHolder, m)
      BY <2>2 DEF HandleSenderLoopback
    <3> HIDE DEF m
    <3> QED BY <1>1, <3>2, <3>3, QuietSteps
  <2>3. CASE HandleForwarded \/ HandleReceiverLoopback
    <3>1. /\ toHolder # <<>> /\ toHolder' = Tail(toHolder)
          /\ Head(toHolder).type \notin {"promise", "resolve"}
      BY <2>3 DEF HandleForwarded, HandleReceiverLoopback, HolderTakes
    <3> QED BY <1>1, <3>1, QuietSteps
  <2>4. CASE \/ LiftNext \/ LiftReturns \/ LiftEnds \/ UNCHANGED vars
             \/ \E i \in Ids : Call(i) \/ CloseRef(i)
    <3>1. toHolder' = toHolder
      BY <2>4 DEF LiftNext, LiftReturns, LiftEnds, Call, CloseRef, vars
    <3> QED BY <1>1, <3>1, QuietSteps
  <2> QED BY <2>1, <2>2, <2>3, <2>4 DEF QuietStep
<1>4. \A i \in Ids : ImportKept(i)
  <2>1. CASE HandleReceiverLoopback
    <3>1. imports' = imports
            \/ \E i \in Ids : imports' = [imports EXCEPT ![i].embargo = 0]
      <4>1. Head(toHolder) \in HolderMessage /\ Head(toHolder).type = "echo"
        BY <1>1, <2>1, HolderTakesTyped DEF HandleReceiverLoopback
      <4>2. Head(toHolder).num \in EmbargoIds
        BY <4>1, HolderMessageFields
      <4>3. disembargoes[Head(toHolder).num] \in {0} \cup Ids
        BY <4>2 DEF TypeInv, EmbargoTypes, HolderTypes
      <4> QED BY <2>1, <4>3 DEF HandleReceiverLoopback
    <3> QED BY <1>1, <3>1 DEF ImportKept, ImportEntry
  <2>2. ASSUME NEW i \in Ids, CloseRef(i) PROVE \A j \in Ids : ImportKept(j)
    <3>1. imports' = [imports EXCEPT ![i].local = @ - 1] \/ imports' = [imports EXCEPT ![i] = NoImport]
      BY <2>2 DEF CloseRef, CloseImport
    <3> QED BY <1>1, <3>1 DEF ImportKept, ImportEntry
  <2>3. CASE imports' = imports
    BY <2>3 DEF ImportKept
  <2>4. imports' = imports \/ HandleReceiverLoopback \/ \E i \in Ids : CloseRef(i)
    BY DEF QuietStep, HandleCall, HandleSenderLoopback, HandleForwarded, LiftNext, LiftReturns,
           LiftEnds, Call, holderVars, vars
  <2> QED BY <2>1, <2>2, <2>3, <2>4
<1> QED BY <1>2, <1>3, <1>4

LEMMA QuietStepsKeepAnswers ==
  ASSUME TypeInv, TypeInv', AnswerInv, QuietStep
  PROVE  AnswerInv'
BY QuietStepIsQuiet, QuietKeepsAnswers DEF SameAnnounced, NothingAnnounced

LEMMA InitAnswerInv == Init => AnswerInv
<1> SUFFICES ASSUME Init PROVE AnswerInv
  OBVIOUS
<1>1. AwaitedAgree /\ PendingAwaited /\ ClientsAgree
  BY DEF Init, AwaitedAgree, PendingAwaited, ClientsAgree
<1>2. DescriptorsAgree /\ ResolvesAgree /\ ResolvesMeetImports
  BY DEF Init, DescriptorsAgree, ResolvesAgree, ResolvesMeetImports
<1>3. ImportsAgree /\ ImportsSettled
  BY DEF Init, ImportsAgree, ImportsSettled, NoImport
<1> QED BY <1>1, <1>2, <1>3 DEF AnswerInv

LEMMA NextKeepsAnswerInv ==
  ASSUME "reuse pending" \notin Uses
  PROVE  TypeInv /\ TypeInv' /\ RefInv /\ RefInv' /\ AnswerInv /\ [Next]_vars => AnswerInv'
<1> SUFFICES ASSUME TypeInv, TypeInv', RefInv, RefInv', AnswerInv, [Next]_vars PROVE AnswerInv'
  OBVIOUS
<1>1. CASE \E p \in Promises : PassPromise(p) \/ QuestionSettles(p)
  BY <1>1, PassPromiseKeepsAnswers, QuestionSettlesKeepsAnswers
<1>2. CASE \E i \in Ids : Call(i) \/ CloseRef(i)
  BY <1>2, QuietStepsKeepAnswers DEF QuietStep
<1>3. CASE HostStep
  BY <1>3, ContinueKeepsAnswers, HandleReleaseKeepsAnswers, QuietStepsKeepAnswers
     DEF HostStep, QuietStep
<1>4. CASE HolderStep
  BY <1>4, HandlePromiseKeepsAnswers, HandleResolveKeepsAnswers, QuietStepsKeepAnswers
     DEF HolderStep, QuietStep
<1>5. CASE UNCHANGED vars
  BY <1>5, QuietStepsKeepAnswers DEF QuietStep
<1> QED BY <1>1, <1>2, <1>3, <1>4, <1>5 DEF Next

LEMMA AnswerInvHolds ==
  ASSUME "reuse pending" \notin Uses
  PROVE  Spec => []AnswerInv
<1>1. TypeInv /\ TypeInv' /\ RefInv /\ RefInv' /\ AnswerInv /\ [Next]_vars => AnswerInv'
  BY NextKeepsAnswerInv
<1> QED BY <1>1, InitAnswerInv, TypeInvHolds, RefInvHolds, PTL DEF Spec

\* Unless an id is used again under a question that is still asked, both vats
\* agree on the references to an exported promise, and on the promise it is
\* (addExportPromise, addImport, releaseImport, discardResolvedCap,
\* releaseExport).
THEOREM PromiseReferencesAgree ==
  ASSUME "reuse pending" \notin Uses
  PROVE  Spec => []PromiseRefsAgree
<1>1. RefInv /\ AnswerInv => PromiseRefsAgree
  BY DEF RefInv, AnswerInv, ReferencesAgree, ImportsAgree, PromiseRefsAgree
<1> QED BY <1>1, RefInvHolds, AnswerInvHolds, PTL

\* ... and a promise becomes what its own question was answered with, at both
\* ends, unless an id is used again under a question that is still asked
\* (addExportPromise, handleResolveMessage).
THEOREM PromisesResolveToTheirAnswer ==
  ASSUME "reuse pending" \notin Uses
  PROVE  Spec => []ResolvesToOwnAnswer
<1>1. AnswerInv => ResolvesToOwnAnswer
  <2> SUFFICES ASSUME AnswerInv, NEW i \in Ids,
                      imports[i].resolved \in {"known", "back", "broken"}
               PROVE  imports[i].resolved = question[imports[i].of]
    BY DEF AnswerInv, ClientsAgree, ResolvesToOwnAnswer
  <2>1. /\ imports[i].of \in Promises /\ client[imports[i].of] # "none"
        /\ imports[i].resolved = Outcome(client[imports[i].of])
    BY DEF AnswerInv, ImportsSettled
  <2>2. client[imports[i].of] = question[imports[i].of]
    BY <2>1 DEF AnswerInv, ClientsAgree
  <2> QED BY <2>1, <2>2 DEF Outcome
<1> QED BY <1>1, AnswerInvHolds, PTL

-----------------------------------------------------------------------------
(* Each promise has one entry, one import and one Resolve.                  *)

EntryIndexed == \A i \in Ids : entry[i] # 0 => index[entry[i]] = i

ImportsMarked ==
  \A i \in Ids : /\ imports[i].isPromise => imports[i].resolved = "none"
                 /\ imports[i].embargo # 0 => imports[i].resolved = "back"

IsResolve(m, p) == m.type = "resolve" /\ m.num = p

\* A Resolve is the only one of its promise, and the import it is for has seen
\* none; a descriptor of a promise that was resolved goes ahead of its Resolve.
OneResolve ==
  /\ \A k, l \in DOMAIN toHolder :
       toHolder[k].type = "resolve" /\ IsResolve(toHolder[l], toHolder[k].num) => k = l
  /\ \A k \in DOMAIN toHolder, i \in Ids :
       imports[i].refs > 0 /\ IsResolve(toHolder[k], imports[i].of) => imports[i].resolved = "none"
  /\ \A k \in DOMAIN toHolder :
       toHolder[k].type = "promise" /\ client[toHolder[k].num] # "none"
         => \E l \in DOMAIN toHolder : k < l /\ IsResolve(toHolder[l], toHolder[k].num)

ResolveInv == EntryIndexed /\ ImportsMarked /\ OneResolve

-----------------------------------------------------------------------------
(* Where the calls of a promise are.                                        *)

\* References to i that are given back behind position k.
GivenBackAfter(k, i) ==
  \E j \in DOMAIN toHost :
    j > k /\ toHost[j].type = "release" /\ toHost[j].id = i /\ toHost[j].num > 0

\* A call on its way to the host names the export of its promise, which stays
\* until then; or its promise was resolved.
CallNamed(k) ==
  LET m == toHost[k]
  IN  /\ m.num <= made /\ via[m.num] \in Promises
      /\ m.id = 0 => client[via[m.num]] = "known"
      /\ m.id # 0 => /\ entry[m.id] = via[m.num]
                     /\ imports[m.id].refs > 0 \/ GivenBackAfter(k, m.id)

CallsNamed == \A k \in DOMAIN toHost : toHost[k].type = "call" => CallNamed(k)

\* Only calls on what is the holder's own are sent back.
ForwardNamed(c) == c <= made /\ via[c] \in Promises /\ client[via[c]] = "back"

ForwardsNamed == \A m \in Range(toHolder) : m.type = "call" => ForwardNamed(m.num)

QueuesNamed ==
  \A p \in Promises :
    /\ client[p] \in {"known", "fresh", "back"} => queue[p] = <<>>
    /\ \A c \in Range(queue[p]) : c <= made /\ via[c] = p
    /\ \A c \in Range(delivered[p]) : c <= made

EmbargoedNamed ==
  \A i \in Ids :
    /\ embargoed[i] # <<>> => imports[i].refs > 0 /\ imports[i].resolved = "back"
    /\ \A c \in Range(embargoed[i]) : c <= made /\ via[c] = imports[i].of

HomeInv == CallsNamed /\ ForwardsNamed /\ QueuesNamed /\ EmbargoedNamed

\* The calls of p as they stand in line, <<part, position, call>>: delivered,
\* on their way back to the holder, queued by the host, on their way to the
\* host, held under embargo.
IsAt(s, x) == x[2] \in DOMAIN s /\ s[x[2]] = x[3]

CallAt(s, x) == x[2] \in DOMAIN s /\ s[x[2]].type = "call" /\ s[x[2]].num = x[3]

HeldAt(p, x) == \E i \in Ids : imports[i].refs > 0 /\ imports[i].of = p /\ IsAt(embargoed[i], x)

Places == (0..4) \X (Nat \ {0}) \X Calls

Stands(p, x) ==
  \/ x[1] = 0 /\ IsAt(delivered[p], x) /\ x[3] \notin reentered
  \/ x[1] = 1 /\ CallAt(toHolder, x) /\ via[x[3]] = p
  \/ x[1] = 2 /\ IsAt(queue[p], x)
  \/ x[1] = 3 /\ CallAt(toHost, x) /\ via[x[3]] = p
  \/ x[1] = 4 /\ HeldAt(p, x)

Line(p) == {x \in Places : Stands(p, x)}

Before(x, y) == x[1] < y[1] \/ (x[1] = y[1] /\ x[2] < y[2])

InOrder(L) == \A x, y \in L : Before(x, y) => x[3] < y[3]

LinesInOrder == \A p \in Promises : InOrder(Line(p))

-----------------------------------------------------------------------------
(* The embargo.                                                             *)

IsLoopback(m, e) == m.type = "loopback" /\ m.num = e
IsEcho(m, e) == m.type = "echo" /\ m.num = e

FlushLifted == flushing # 0 => imports[flushing].embargo = 0

DisembargoesAgree ==
  \A e \in EmbargoIds, i \in Ids : disembargoes[e] = i <=> imports[i].embargo = e

\* An embargo has one Disembargo on its way, there or back.
OneDisembargo ==
  \A e \in EmbargoIds :
    /\ \A k \in DOMAIN toHost : IsLoopback(toHost[k], e) =>
         /\ disembargoes[e] # 0
         /\ \A l \in DOMAIN toHost : IsLoopback(toHost[l], e) => k = l
         /\ \A l \in DOMAIN toHolder : ~ IsEcho(toHolder[l], e)
    /\ \A k \in DOMAIN toHolder : IsEcho(toHolder[k], e) =>
         /\ disembargoes[e] # 0
         /\ \A l \in DOMAIN toHolder : IsEcho(toHolder[l], e) => k = l

\* Every call of the promise that is still on its way goes ahead of it.
DrivenOut(e, L) ==
  \/ \E k \in DOMAIN toHost : IsLoopback(toHost[k], e) /\ \A x \in L : x[1] = 3 => x[2] < k
  \/ /\ \E k \in DOMAIN toHolder : IsEcho(toHolder[k], e) /\ \A x \in L : x[1] = 1 => x[2] < k
     /\ \A x \in L : x[1] # 3

EmbargoHolds ==
  \A i \in Ids : imports[i].embargo # 0 => DrivenOut(imports[i].embargo, Line(imports[i].of))

\* Without an embargo nothing is on its way, and what was held is being flushed.
WayIsClear ==
  \A i \in Ids : imports[i].resolved = "back" /\ imports[i].embargo = 0 =>
    /\ \A x \in Line(imports[i].of) : x[1] \notin {1, 3}
    /\ flushing # i => embargoed[i] = <<>>

EmbargoInv == FlushLifted /\ DisembargoesAgree /\ OneDisembargo /\ EmbargoHolds /\ WayIsClear

\* Steps that announce nothing.
LEMMA QuietKeepsResolves ==
  ASSUME TypeInv, TypeInv', ResolveInv, SameAnnounced, \A i \in Ids : ImportKept(i),
         UNCHANGED <<entry, index, client>>
  PROVE  ResolveInv'
<1>1. /\ NoImport.refs = 0 /\ NoImport.isPromise = FALSE /\ NoImport.resolved = "none"
      /\ NoImport.embargo = 0
  BY DEF NoImport
<1>2. PICK d \in {0, 1} :
        /\ \A k \in DOMAIN toHolder' :
             k \in Int /\ (toHolder'[k].type \in {"promise", "resolve"}
                             => k + d \in DOMAIN toHolder /\ toHolder'[k] = toHolder[k + d])
        /\ \A k \in DOMAIN toHolder :
             k \in Int /\ (toHolder[k].type \in {"promise", "resolve"}
                             => k - d \in DOMAIN toHolder' /\ toHolder'[k - d] = toHolder[k])
  BY DEF SameAnnounced
<1>3. EntryIndexed'
  BY DEF ResolveInv, EntryIndexed
<1>4. ImportsMarked'
  <2> SUFFICES ASSUME NEW i \in Ids
               PROVE  /\ imports'[i].isPromise => imports'[i].resolved = "none"
                      /\ imports'[i].embargo # 0 => imports'[i].resolved = "back"
    BY DEF ImportsMarked
  <2>1. CASE imports'[i] = NoImport
    BY <1>1, <2>1
  <2>2. CASE imports'[i] # NoImport
    BY <2>2 DEF ResolveInv, ImportsMarked, ImportKept
  <2> QED BY <2>1, <2>2
<1>5. ASSUME NEW k \in DOMAIN toHolder', NEW l \in DOMAIN toHolder',
             toHolder'[k].type = "resolve", IsResolve(toHolder'[l], toHolder'[k].num)
      PROVE  k = l
  <2>1. /\ k + d \in DOMAIN toHolder /\ toHolder'[k] = toHolder[k + d] /\ k \in Int
        /\ l + d \in DOMAIN toHolder /\ toHolder'[l] = toHolder[l + d] /\ l \in Int
    BY <1>2, <1>5 DEF IsResolve
  <2>2. k + d = l + d
    BY <1>5, <2>1 DEF ResolveInv, OneResolve
  <2> QED BY <2>1, <2>2
<1>6. ASSUME NEW k \in DOMAIN toHolder', NEW i \in Ids, imports'[i].refs > 0,
             IsResolve(toHolder'[k], imports'[i].of)
      PROVE  imports'[i].resolved = "none"
  <2>1. k + d \in DOMAIN toHolder /\ toHolder'[k] = toHolder[k + d]
    BY <1>2, <1>6 DEF IsResolve
  <2> QED BY <1>1, <1>6, <2>1 DEF ResolveInv, OneResolve, ImportKept
<1>7. ASSUME NEW k \in DOMAIN toHolder', toHolder'[k].type = "promise",
             client'[toHolder'[k].num] # "none"
      PROVE  \E l \in DOMAIN toHolder' : k < l /\ IsResolve(toHolder'[l], toHolder'[k].num)
  <2>1. k + d \in DOMAIN toHolder /\ toHolder'[k] = toHolder[k + d] /\ k \in Int
    BY <1>2, <1>7
  <2>2. PICK l \in DOMAIN toHolder : k + d < l /\ IsResolve(toHolder[l], toHolder[k + d].num)
    BY <1>7, <2>1 DEF ResolveInv, OneResolve
  <2>3. l - d \in DOMAIN toHolder' /\ toHolder'[l - d] = toHolder[l] /\ l \in Int
    BY <1>2, <2>2 DEF IsResolve
  <2>4. k < l - d
    BY <2>1, <2>2, <2>3
  <2> QED BY <2>1, <2>2, <2>3, <2>4
<1>8. OneResolve'
  BY <1>5, <1>6, <1>7 DEF OneResolve, IsResolve
<1> QED BY <1>3, <1>4, <1>8 DEF ResolveInv

\* Steps that leave the queue alone and may drop entries.
LEMMA OtherStepsKeepResolves ==
  ASSUME TypeInv, TypeInv', ResolveInv,
         QuietStep \/ HandleRelease \/ \E p \in Promises : QuestionSettles(p)
  PROVE  ResolveInv'
<1>1. CASE QuietStep
  BY <1>1, QuietStepIsQuiet, QuietKeepsResolves
<1>2. CASE \E p \in Promises : QuestionSettles(p)
  <2>1. UNCHANGED <<entry, index, client, toHolder, imports>>
    BY <1>2 DEF QuestionSettles, holderVars
  <2>2. SameAnnounced
    BY <2>1, QuietSteps DEF TypeInv
  <2> QED BY <2>1, <2>2, QuietKeepsResolves DEF ImportKept
<1>3. CASE HandleRelease
  <2>1. /\ UNCHANGED <<index, client, imports, toHolder>>
        /\ entry' = entry \/ \E i \in Ids : entry' = [entry EXCEPT ![i] = 0]
    <3>1. Head(toHost).id \in Ids
      <4>1. Head(toHost) \in HostMessage /\ Head(toHost).type = "release"
        BY <1>3, HostTakesTyped DEF HandleRelease, TypeInv
      <4> QED BY <4>1, HostMessageFields
    <3> QED BY <1>3, <3>1 DEF HandleRelease, holderVars
  <2>2. EntryIndexed'
    BY <2>1 DEF ResolveInv, EntryIndexed, TypeInv, TableTypes
  <2>3. ImportsMarked' /\ OneResolve'
    BY <2>1 DEF ResolveInv, ImportsMarked, OneResolve
  <2> QED BY <2>2, <2>3 DEF ResolveInv
<1> QED BY <1>1, <1>2, <1>3

LEMMA PassPromiseKeepsResolves ==
  ASSUME TypeInv, TypeInv', AnswerInv, ResolveInv, NEW p \in Promises, PassPromise(p)
  PROVE  ResolveInv'
<1>1. /\ imports' = imports /\ question[p] = "pending" /\ toHolder \in Seq(HolderMessage)
      /\ entry \in [Ids -> {0} \cup Promises] /\ index \in [Promises -> {0} \cup Ids]
      /\ client \in [Promises -> {"none"} \cup Resolutions]
  BY DEF PassPromise, holderVars, TypeInv, ChannelTypes, TableTypes, HostTypes
<1>2. client[p] = "none"
  BY <1>1 DEF AnswerInv, ClientsAgree, Resolutions
<1>3. \E i \in Ids :
        /\ toHolder' = Append(toHolder, Msg("promise", i, p, "none"))
        /\ client' = client /\ EntryIndexed'
  <2>1. CASE PassAgain(p)
    <3>1. index[p] \in Ids
      BY <2>1 DEF PassAgain, Listed
    <3>2. EntryIndexed'
      BY <2>1 DEF PassAgain, ResolveInv, EntryIndexed
    <3> QED BY <2>1, <3>1, <3>2 DEF PassAgain
  <2>2. CASE PassNew(p)
    <3> DEFINE k == IdToUse
    <3>1. /\ k \in Ids /\ entry' = [entry EXCEPT ![k] = p] /\ index' = [index EXCEPT ![p] = k]
          /\ client' = [client EXCEPT ![p] = "none"]
          /\ toHolder' = Append(toHolder, Msg("promise", k, p, "none")) /\ ~ Listed(p)
      BY <2>2 DEF PassNew
    <3> HIDE DEF k
    <3>2. \A i \in Ids : entry[i] # p
      <4> SUFFICES ASSUME NEW i \in Ids, entry[i] = p PROVE FALSE
        OBVIOUS
      <4>1. entry[i] # 0
        BY DEF Promises
      <4>2. index[p] = i
        BY <4>1 DEF ResolveInv, EntryIndexed
      <4> QED BY <3>1, <4>1, <4>2 DEF Listed
    <3>3. EntryIndexed'
      <4> SUFFICES ASSUME NEW i \in Ids, entry'[i] # 0 PROVE index'[entry'[i]] = i
        BY DEF EntryIndexed
      <4>1. CASE i = k
        BY <1>1, <3>1, <4>1
      <4>2. CASE i # k
        <5>1. entry'[i] = entry[i] /\ entry[i] \in Promises /\ entry[i] # p
          BY <1>1, <3>1, <3>2, <4>2
        <5> QED BY <1>1, <3>1, <5>1 DEF ResolveInv, EntryIndexed
      <4> QED BY <4>1, <4>2
    <3> QED BY <1>1, <1>2, <3>1, <3>3
  <2> QED BY <2>1, <2>2 DEF PassPromise
<1>4. PICK i \in Ids : toHolder' = Append(toHolder, Msg("promise", i, p, "none"))
  BY <1>3
<1> DEFINE m == Msg("promise", i, p, "none")
           n == Len(toHolder) + 1
<1>5. m \in HolderMessage /\ m.type = "promise" /\ m.num = p /\ toHolder' = Append(toHolder, m)
  BY <1>4, MessagesTyped DEF Msg
<1> HIDE DEF m
<1>6. /\ DOMAIN toHolder' = DOMAIN toHolder \cup {n} /\ n \in Int /\ toHolder'[n] = m
      /\ \A k \in DOMAIN toHolder : k \in Int /\ k < n /\ toHolder'[k] = toHolder[k]
  <2>1. /\ DOMAIN toHolder' = DOMAIN toHolder \cup {Len(toHolder) + 1}
        /\ Len(toHolder) + 1 \in Int /\ toHolder'[Len(toHolder) + 1] = m
        /\ \A k \in DOMAIN toHolder : k \in Int /\ k < Len(toHolder) + 1 /\ toHolder'[k] = toHolder[k]
    BY ONLY <1>1, <1>5, PositionsOfAppend
  <2> QED BY <2>1
<1> HIDE DEF n
<1>7. ImportsMarked'
  BY <1>1 DEF ResolveInv, ImportsMarked
<1>8. ASSUME NEW k \in DOMAIN toHolder', toHolder'[k].type = "resolve"
      PROVE  k \in DOMAIN toHolder /\ toHolder'[k] = toHolder[k]
  BY <1>5, <1>6, <1>8
<1>9. ASSUME NEW k \in DOMAIN toHolder', toHolder'[k].type = "promise",
             client[toHolder'[k].num] # "none"
      PROVE  \E l \in DOMAIN toHolder' : k < l /\ IsResolve(toHolder'[l], toHolder'[k].num)
  <2>1. k \in DOMAIN toHolder /\ toHolder'[k] = toHolder[k]
    BY <1>2, <1>5, <1>6, <1>9
  <2>2. PICK l \in DOMAIN toHolder : k < l /\ IsResolve(toHolder[l], toHolder[k].num)
    BY <1>9, <2>1 DEF ResolveInv, OneResolve
  <2> QED BY <1>6, <2>1, <2>2
<1>10. OneResolve'
  <2>1. \A k, l \in DOMAIN toHolder' :
          toHolder'[k].type = "resolve" /\ IsResolve(toHolder'[l], toHolder'[k].num) => k = l
    BY <1>8 DEF ResolveInv, OneResolve, IsResolve
  <2>2. \A k \in DOMAIN toHolder', j \in Ids :
          imports'[j].refs > 0 /\ IsResolve(toHolder'[k], imports'[j].of)
            => imports'[j].resolved = "none"
    BY <1>1, <1>8 DEF ResolveInv, OneResolve, IsResolve
  <2> QED BY <1>3, <1>9, <2>1, <2>2 DEF OneResolve, IsResolve
<1> QED BY <1>3, <1>7, <1>10 DEF ResolveInv

LEMMA ContinueKeepsResolves ==
  ASSUME TypeInv, TypeInv', AnswerInv, ResolveInv, NEW p \in Promises, NEW i \in Ids, Continue(p, i)
  PROVE  ResolveInv'
<1>1. UNCHANGED <<entry, index, imports>> /\ EntryIndexed' /\ ImportsMarked'
  BY DEF Continue, holderVars, ResolveInv, EntryIndexed, ImportsMarked
<1>2. CASE UNCHANGED <<client, toHolder>>
  BY <1>1, <1>2 DEF ResolveInv, OneResolve
<1>3. CASE entry[i] # 0 /\ client[entry[i]] = "none" /\ Settle(entry[i], i, question[p])
  <2> DEFINE e == entry[i]
             r == question[p]
             m == Msg("resolve", i, e, r)
  <2>1. e \in Promises /\ r \in Resolutions /\ Settle(e, i, r) /\ client[e] = "none"
    BY <1>3 DEF Continue, TypeInv, TableTypes, HostTypes
  <2>2. client' = [client EXCEPT ![e] = r] /\ client \in [Promises -> {"none"} \cup Resolutions]
    BY <2>1 DEF Settle, TypeInv, HostTypes
  <2>3. m.type = "resolve" /\ m.num = e
    BY DEF Msg
  <2>4. \E n \in Int :
          /\ n \in DOMAIN toHolder' /\ toHolder'[n] = m
          /\ \A k \in DOMAIN toHolder :
               k \in DOMAIN toHolder' /\ k < n /\ toHolder'[k] = toHolder[k]
          /\ \A k \in DOMAIN toHolder' :
               k \in Int /\ (k = n \/ k \in DOMAIN toHolder \/ toHolder'[k].type = "call")
    BY <2>1, SettlePositions
  <2> HIDE DEF e, r, m
  <2>5. PICK n \in Int :
          /\ n \in DOMAIN toHolder' /\ toHolder'[n] = m
          /\ \A k \in DOMAIN toHolder :
               k \in DOMAIN toHolder' /\ k < n /\ toHolder'[k] = toHolder[k]
          /\ \A k \in DOMAIN toHolder' :
               k \in Int /\ (k = n \/ k \in DOMAIN toHolder \/ toHolder'[k].type = "call")
    BY <2>4
  <2>6. \A k \in DOMAIN toHolder : toHolder[k] \in HolderMessage /\ k \in Int
    BY HolderElements DEF TypeInv
  <2>7. ASSUME NEW k \in DOMAIN toHolder, toHolder[k].type = "resolve"
        PROVE  toHolder[k].num # e
    <3>1. toHolder[k].to = client[toHolder[k].num] /\ toHolder[k].to \in Resolutions
      BY <2>6, <2>7, HolderMessageFields DEF AnswerInv, ResolvesAgree
    <3> QED BY <2>1, <3>1 DEF Resolutions
  <2>8. ASSUME NEW j \in Ids, imports[j].refs > 0, imports[j].of = e
        PROVE  imports[j].resolved = "none"
    BY <2>1, <2>8 DEF AnswerInv, ImportsSettled
  <2>9. \A k \in DOMAIN toHolder' : toHolder'[k].type \in {"promise", "resolve"} /\ k # n
           => k \in DOMAIN toHolder /\ toHolder'[k] = toHolder[k]
    BY <2>5
  <2>10. \A k, l \in DOMAIN toHolder' :
          toHolder'[k].type = "resolve" /\ IsResolve(toHolder'[l], toHolder'[k].num) => k = l
    BY <2>3, <2>5, <2>7, <2>9 DEF ResolveInv, OneResolve, IsResolve
  <2>11. \A k \in DOMAIN toHolder', j \in Ids :
          imports'[j].refs > 0 /\ IsResolve(toHolder'[k], imports'[j].of)
            => imports'[j].resolved = "none"
    BY <1>1, <2>3, <2>5, <2>8, <2>9 DEF ResolveInv, OneResolve, IsResolve
  <2>12. ASSUME NEW k \in DOMAIN toHolder', toHolder'[k].type = "promise",
                client'[toHolder'[k].num] # "none"
         PROVE  \E l \in DOMAIN toHolder' : k < l /\ IsResolve(toHolder'[l], toHolder'[k].num)
    <3>1. k \in DOMAIN toHolder /\ toHolder'[k] = toHolder[k] /\ k < n
      BY <2>3, <2>5, <2>9, <2>12
    <3>2. CASE toHolder[k].num = e
      BY <2>3, <2>5, <3>1, <3>2 DEF IsResolve
    <3>3. CASE toHolder[k].num # e
      <4>1. toHolder[k].num \in Promises
        BY <2>6, <2>12, <3>1, HolderMessageFields
      <4>2. PICK l \in DOMAIN toHolder : k < l /\ IsResolve(toHolder[l], toHolder[k].num)
        BY <2>2, <2>12, <3>1, <3>3, <4>1 DEF ResolveInv, OneResolve
      <4> QED BY <2>5, <3>1, <4>2
    <3> QED BY <3>2, <3>3
  <2>13. OneResolve'
    BY <2>10, <2>11, <2>12 DEF OneResolve
  <2> QED BY <1>1, <2>13 DEF ResolveInv
<1> QED BY <1>2, <1>3 DEF Continue

\* What a descriptor makes of an import.
LEMMA HandlePromiseImports ==
  ASSUME TypeInv, HandlePromise
  PROVE  LET m == Head(toHolder)
         IN  /\ m \in HolderMessage /\ m.type = "promise" /\ m.id \in Ids /\ m.num \in Promises
             /\ toHolder # <<>> /\ toHolder' = Tail(toHolder) /\ toHolder \in Seq(HolderMessage)
             /\ \A i \in Ids : i # m.id => imports'[i] = imports[i]
             /\ imports'[m.id].isPromise /\ imports'[m.id].refs > 0
             /\ imports[m.id].refs = 0 => imports'[m.id] = PromiseImport(m.num)
             /\ imports[m.id].refs > 0 =>
                  /\ imports'[m.id].of = imports[m.id].of
                  /\ imports'[m.id].resolved = imports[m.id].resolved
                  /\ imports'[m.id].embargo = imports[m.id].embargo
<1> DEFINE m == Head(toHolder)
<1>1. /\ m \in HolderMessage /\ m.type = "promise" /\ toHolder \in Seq(HolderMessage)
      /\ toHolder # <<>> /\ toHolder' = Tail(toHolder)
  BY HolderTakesTyped DEF HandlePromise, TypeInv, ChannelTypes
<1>2. m.id \in Ids /\ m.num \in Promises
  BY <1>1, HolderMessageFields
<1>3. imports' = IF imports[m.id].refs = 0
                 THEN [imports EXCEPT ![m.id] = PromiseImport(m.num)]
                 ELSE [imports EXCEPT ![m.id].refs = @ + 1, ![m.id].local = @ + 1,
                                      ![m.id].isPromise = TRUE]
  BY DEF HandlePromise
<1> HIDE DEF m
<1>4. imports \in [Ids -> ImportEntry] /\ imports[m.id] \in ImportEntry /\ imports[m.id].refs \in Nat
  BY <1>2 DEF TypeInv, HolderTypes, ImportEntry
<1>5. CASE imports[m.id].refs = 0
  BY <1>1, <1>2, <1>3, <1>4, <1>5 DEF PromiseImport, m
<1>6. CASE imports[m.id].refs # 0
  <2>1. /\ \A i \in Ids : i # m.id => imports'[i] = imports[i]
        /\ imports'[m.id].isPromise = TRUE /\ imports'[m.id].refs = imports[m.id].refs + 1
        /\ imports'[m.id].of = imports[m.id].of
        /\ imports'[m.id].resolved = imports[m.id].resolved
        /\ imports'[m.id].embargo = imports[m.id].embargo
    BY <1>2, <1>3, <1>4, <1>6 DEF ImportEntry
  <2> QED BY <1>1, <1>2, <1>4, <1>6, <2>1 DEF m
<1> QED BY <1>5, <1>6

LEMMA HandlePromiseKeepsResolves ==
  ASSUME TypeInv, TypeInv', AnswerInv, ResolveInv, HandlePromise
  PROVE  ResolveInv'
<1> DEFINE m == Head(toHolder)
<1>1. /\ m \in HolderMessage /\ m.type = "promise" /\ m.id \in Ids /\ m.num \in Promises
      /\ toHolder # <<>> /\ toHolder' = Tail(toHolder)
      /\ \A i \in Ids : i # m.id => imports'[i] = imports[i]
      /\ imports[m.id].refs = 0 => imports'[m.id] = PromiseImport(m.num)
      /\ imports[m.id].refs > 0 =>
           /\ imports'[m.id].of = imports[m.id].of
           /\ imports'[m.id].resolved = imports[m.id].resolved
           /\ imports'[m.id].embargo = imports[m.id].embargo
      /\ imports[m.id].refs \in Nat /\ UNCHANGED <<entry, index, client>>
  BY HandlePromiseImports DEF HandlePromise, hostVars, TypeInv, HolderTypes, ImportEntry
<1>2. /\ 1 \in DOMAIN toHolder /\ toHolder[1] = m
      /\ \A k \in DOMAIN toHolder' :
           /\ k \in Int /\ k + 1 \in DOMAIN toHolder /\ 1 < k + 1 /\ toHolder'[k] = toHolder[k + 1]
      /\ \A k \in DOMAIN toHolder : k \in Int
  BY <1>1, HolderElements DEF TypeInv
<1>3. \A l \in DOMAIN toHolder : 1 < l => l - 1 \in DOMAIN toHolder' /\ toHolder'[l - 1] = toHolder[l]
  <2>1. /\ Len(toHolder) \in Nat \ {0}
        /\ DOMAIN toHolder = 1..Len(toHolder) /\ DOMAIN toHolder' = 1..(Len(toHolder) - 1)
        /\ \A k \in 1..(Len(toHolder) - 1) : toHolder'[k] = toHolder[k + 1]
    BY <1>1, HeadTailProperties, EmptySeq, LenProperties DEF TypeInv, ChannelTypes
  <2> QED BY <2>1
<1> HIDE DEF m
<1>4. /\ PromiseImport(m.num).resolved = "none" /\ PromiseImport(m.num).embargo = 0
      /\ PromiseImport(m.num).of = m.num
  BY DEF PromiseImport
\* the import has seen no Resolve: its Resolve is still on the way, or its
\* promise was not resolved
<1>5. imports[m.id].refs > 0 => imports[m.id].of = m.num /\ imports[m.id].resolved = "none"
  <2> SUFFICES ASSUME imports[m.id].refs > 0
               PROVE  imports[m.id].of = m.num /\ imports[m.id].resolved = "none"
    OBVIOUS
  <2>1. imports[m.id].of = m.num
    BY <1>1, <1>2 DEF AnswerInv, ImportsAgree, DescriptorsAgree
  <2>2. CASE client[m.num] = "none"
    BY <1>1, <2>1, <2>2 DEF AnswerInv, ImportsSettled
  <2>3. CASE client[m.num] # "none"
    <3>1. PICK l \in DOMAIN toHolder : IsResolve(toHolder[l], m.num)
      BY <1>1, <1>2, <2>3 DEF ResolveInv, OneResolve
    <3> QED BY <1>1, <2>1, <3>1 DEF ResolveInv, OneResolve
  <2> QED BY <2>1, <2>2, <2>3
<1>6. imports'[m.id].resolved = "none" /\ imports'[m.id].of = m.num /\ imports'[m.id].embargo = 0
  <2>1. CASE imports[m.id].refs = 0
    BY <1>1, <1>4, <2>1
  <2>2. CASE imports[m.id].refs > 0
    BY <1>1, <1>5, <2>2 DEF ResolveInv, ImportsMarked
  <2> QED BY <1>1, <2>1, <2>2
<1>7. EntryIndexed' /\ ImportsMarked'
  BY <1>1, <1>6 DEF ResolveInv, EntryIndexed, ImportsMarked
<1>8. \A k, l \in DOMAIN toHolder' :
        toHolder'[k].type = "resolve" /\ IsResolve(toHolder'[l], toHolder'[k].num) => k = l
  <2> SUFFICES ASSUME NEW k \in DOMAIN toHolder', NEW l \in DOMAIN toHolder',
                      toHolder'[k].type = "resolve", IsResolve(toHolder'[l], toHolder'[k].num)
               PROVE  k = l
    OBVIOUS
  <2>1. k + 1 = l + 1
    BY <1>2 DEF ResolveInv, OneResolve
  <2> QED BY <1>2, <2>1
<1>9. \A k \in DOMAIN toHolder', i \in Ids :
        imports'[i].refs > 0 /\ IsResolve(toHolder'[k], imports'[i].of) => imports'[i].resolved = "none"
  BY <1>1, <1>2, <1>6 DEF ResolveInv, OneResolve
<1>10. ASSUME NEW k \in DOMAIN toHolder', toHolder'[k].type = "promise",
              client'[toHolder'[k].num] # "none"
       PROVE  \E l \in DOMAIN toHolder' : k < l /\ IsResolve(toHolder'[l], toHolder'[k].num)
  <2>1. PICK l \in DOMAIN toHolder : k + 1 < l /\ IsResolve(toHolder[l], toHolder[k + 1].num)
    BY <1>1, <1>2, <1>10 DEF ResolveInv, OneResolve
  <2>2. 1 < l /\ k < l - 1 /\ l \in Int
    BY <1>2, <2>1
  <2> QED BY <1>2, <1>3, <2>1, <2>2
<1>11. OneResolve'
  BY <1>8, <1>9, <1>10 DEF OneResolve
<1> QED BY <1>7, <1>11 DEF ResolveInv

\* What a Resolve makes of an import.
LEMMA HandleResolveImports ==
  ASSUME TypeInv, AnswerInv, ImportsMarked, HandleResolve
  PROVE  LET m == Head(toHolder)
         IN  /\ m \in HolderMessage /\ m.type = "resolve" /\ m.id \in Ids /\ m.num \in Promises
             /\ toHolder # <<>> /\ toHolder' = Tail(toHolder) /\ toHolder \in Seq(HolderMessage)
             /\ \/ /\ UNCHANGED <<imports, disembargoes>>
                   /\ \/ toHost' = toHost
                      \/ toHost' = Append(toHost, Msg("release", m.id, 1, "none"))
                \/ /\ imports[m.id].isPromise /\ imports[m.id].resolved = "none"
                   /\ imports[m.id].refs > 0 /\ imports[m.id].of = m.num
                   /\ imports[m.id].embargo = 0
                   /\ \A i \in Ids : i # m.id => imports'[i] = imports[i]
                   /\ imports'[m.id].of = m.num /\ imports'[m.id].refs >= imports[m.id].refs
                   /\ imports'[m.id].refs > 0 /\ ~ imports'[m.id].isPromise
                   /\ \/ /\ imports'[m.id].resolved # "back" /\ imports'[m.id].embargo = 0
                         /\ UNCHANGED <<toHost, disembargoes>>
                      \/ /\ imports'[m.id].resolved = "back"
                         /\ \E e \in EmbargoIds :
                              /\ disembargoes[e] = 0 /\ imports'[m.id].embargo = e
                              /\ disembargoes' = [disembargoes EXCEPT ![e] = m.id]
                              /\ toHost' = Append(toHost, Msg("loopback", m.id, e, "none"))
<1> DEFINE m == Head(toHolder)
<1>1. /\ m \in HolderMessage /\ m.type = "resolve" /\ toHolder # <<>> /\ toHolder' = Tail(toHolder)
      /\ toHolder \in Seq(HolderMessage)
  BY HolderTakesTyped DEF HandleResolve, TypeInv, ChannelTypes
<1>2. m.id \in Ids /\ m.num \in Promises
  BY <1>1, HolderMessageFields
<1>3. IF imports[m.id].isPromise THEN ResolveImport(m) ELSE DiscardResolved(m)
  BY DEF HandleResolve
<1>4. 1 \in DOMAIN toHolder /\ toHolder[1] = m
  BY <1>1, HolderElements DEF TypeInv
<1>5. imports[m.id].refs > 0 => imports[m.id].of = m.num
  BY <1>1, <1>4 DEF AnswerInv, ResolvesMeetImports
<1> HIDE DEF m
<1>6. imports \in [Ids -> ImportEntry] /\ imports[m.id] \in ImportEntry /\ imports[m.id].refs \in Nat
  BY <1>2 DEF TypeInv, HolderTypes, ImportEntry
<1>7. CASE ~ imports[m.id].isPromise
  BY <1>1, <1>2, <1>3, <1>7 DEF DiscardResolved, m
<1>8. CASE imports[m.id].isPromise
  <2>1. imports[m.id].refs > 0 /\ imports[m.id].resolved = "none" /\ imports[m.id].embargo = 0
    BY <1>2, <1>8 DEF AnswerInv, ImportsSettled, ImportsMarked
  <2>2. /\ \A i \in Ids : i # m.id => imports'[i] = imports[i]
        /\ imports'[m.id].of = imports[m.id].of /\ imports'[m.id].refs >= imports[m.id].refs
        /\ imports'[m.id].refs > 0 /\ imports'[m.id].isPromise = FALSE
        /\ \/ /\ imports'[m.id].resolved # "back" /\ imports'[m.id].embargo = imports[m.id].embargo
              /\ UNCHANGED <<toHost, disembargoes>>
           \/ /\ imports'[m.id].resolved = "back"
              /\ \E e \in EmbargoIds :
                   /\ disembargoes[e] = 0 /\ imports'[m.id].embargo = e
                   /\ disembargoes' = [disembargoes EXCEPT ![e] = m.id]
                   /\ toHost' = Append(toHost, Msg("loopback", m.id, e, "none"))
    <3>1. CASE /\ m.to = "back"
               /\ \E e \in EmbargoIds :
                    /\ disembargoes[e] = 0
                    /\ imports' = [imports EXCEPT ![m.id].resolved = "back",
                                                  ![m.id].isPromise = FALSE, ![m.id].embargo = e]
                    /\ disembargoes' = [disembargoes EXCEPT ![e] = m.id]
                    /\ toHost' = Append(toHost, Msg("loopback", m.id, e, "none"))
      <4>1. PICK e \in EmbargoIds :
              /\ disembargoes[e] = 0
              /\ imports' = [imports EXCEPT ![m.id].resolved = "back",
                                            ![m.id].isPromise = FALSE, ![m.id].embargo = e]
              /\ disembargoes' = [disembargoes EXCEPT ![e] = m.id]
              /\ toHost' = Append(toHost, Msg("loopback", m.id, e, "none"))
        BY <3>1
      <4>2. /\ \A i \in Ids : i # m.id => imports'[i] = imports[i]
            /\ imports'[m.id].of = imports[m.id].of /\ imports'[m.id].refs = imports[m.id].refs
            /\ imports'[m.id].isPromise = FALSE /\ imports'[m.id].resolved = "back"
            /\ imports'[m.id].embargo = e
        BY <1>2, <1>6, <4>1 DEF ImportEntry
      <4>3. \E f \in EmbargoIds :
              /\ disembargoes[f] = 0 /\ imports'[m.id].embargo = f
              /\ disembargoes' = [disembargoes EXCEPT ![f] = m.id]
              /\ toHost' = Append(toHost, Msg("loopback", m.id, f, "none"))
        BY ONLY <4>1, <4>2, Zenon
      <4>4. imports'[m.id].refs >= imports[m.id].refs /\ imports'[m.id].refs > 0
        BY <1>6, <2>1, <4>2
      <4> QED BY ONLY <4>2, <4>3, <4>4, Zenon
    <3>2. CASE /\ m.to \in {"known", "broken"}
               /\ imports' = [imports EXCEPT ![m.id].resolved = m.to, ![m.id].isPromise = FALSE]
               /\ UNCHANGED <<disembargoes, toHost>>
      BY <1>2, <1>6, <2>1, <3>2 DEF ImportEntry
    <3>3. CASE /\ m.to = "fresh"
               /\ imports' = [imports EXCEPT ![m.id].resolved = "self", ![m.id].isPromise = FALSE,
                                             ![m.id].refs = @ + 1]
               /\ UNCHANGED <<disembargoes, toHost>>
      BY <1>2, <1>6, <2>1, <3>3 DEF ImportEntry
    <3> QED BY <1>3, <1>8, <3>1, <3>2, <3>3 DEF ResolveImport
  <2> QED BY <1>1, <1>2, <1>5, <1>8, <2>1, <2>2 DEF m
<1> QED BY <1>7, <1>8

LEMMA HandleResolveKeepsResolves ==
  ASSUME TypeInv, TypeInv', AnswerInv, ResolveInv, HandleResolve
  PROVE  ResolveInv'
<1> DEFINE m == Head(toHolder)
<1>1. /\ m \in HolderMessage /\ m.type = "resolve" /\ m.id \in Ids /\ m.num \in Promises
      /\ toHolder # <<>> /\ toHolder' = Tail(toHolder)
      /\ UNCHANGED <<entry, index, client>>
      /\ \/ imports' = imports
         \/ /\ \A i \in Ids : i # m.id => imports'[i] = imports[i]
            /\ imports'[m.id].of = m.num /\ ~ imports'[m.id].isPromise
            /\ imports'[m.id].embargo # 0 => imports'[m.id].resolved = "back"
  BY HandleResolveImports DEF HandleResolve, hostVars, ResolveInv
<1>2. /\ 1 \in DOMAIN toHolder /\ toHolder[1] = m
      /\ \A k \in DOMAIN toHolder' :
           /\ k \in Int /\ k + 1 \in DOMAIN toHolder /\ 1 < k + 1 /\ toHolder'[k] = toHolder[k + 1]
      /\ \A k \in DOMAIN toHolder : k \in Int
  BY <1>1, HolderElements DEF TypeInv
<1>3. \A l \in DOMAIN toHolder : 1 < l => l - 1 \in DOMAIN toHolder' /\ toHolder'[l - 1] = toHolder[l]
  <2>1. /\ Len(toHolder) \in Nat \ {0}
        /\ DOMAIN toHolder = 1..Len(toHolder) /\ DOMAIN toHolder' = 1..(Len(toHolder) - 1)
        /\ \A k \in 1..(Len(toHolder) - 1) : toHolder'[k] = toHolder[k + 1]
    BY <1>1, HeadTailProperties, EmptySeq, LenProperties DEF TypeInv, ChannelTypes
  <2> QED BY <2>1
<1> HIDE DEF m
<1>4. EntryIndexed' /\ ImportsMarked'
  BY <1>1 DEF ResolveInv, EntryIndexed, ImportsMarked
<1>5. \A k, l \in DOMAIN toHolder' :
        toHolder'[k].type = "resolve" /\ IsResolve(toHolder'[l], toHolder'[k].num) => k = l
  <2> SUFFICES ASSUME NEW k \in DOMAIN toHolder', NEW l \in DOMAIN toHolder',
                      toHolder'[k].type = "resolve", IsResolve(toHolder'[l], toHolder'[k].num)
               PROVE  k = l
    OBVIOUS
  <2>1. k + 1 = l + 1
    BY <1>2 DEF ResolveInv, OneResolve
  <2> QED BY <1>2, <2>1
\* the Resolve that is taken was the only one of its promise
<1>6. \A k \in DOMAIN toHolder' : ~ IsResolve(toHolder'[k], m.num)
  <2> SUFFICES ASSUME NEW k \in DOMAIN toHolder', IsResolve(toHolder'[k], m.num) PROVE FALSE
    OBVIOUS
  <2>1. 1 = k + 1
    BY <1>1, <1>2 DEF ResolveInv, OneResolve
  <2> QED BY <1>2, <2>1
<1>7. \A k \in DOMAIN toHolder', i \in Ids :
        imports'[i].refs > 0 /\ IsResolve(toHolder'[k], imports'[i].of) => imports'[i].resolved = "none"
  <2> SUFFICES ASSUME NEW k \in DOMAIN toHolder', NEW i \in Ids, imports'[i].refs > 0,
                      IsResolve(toHolder'[k], imports'[i].of)
               PROVE  imports'[i].resolved = "none"
    OBVIOUS
  <2>1. k + 1 \in DOMAIN toHolder /\ toHolder'[k] = toHolder[k + 1]
    BY <1>2
  <2>2. CASE imports'[i] = imports[i]
    BY <2>1, <2>2 DEF ResolveInv, OneResolve
  <2>3. CASE imports'[i].of = m.num
    BY <1>6, <2>3
  <2> QED BY <1>1, <2>2, <2>3
<1>8. ASSUME NEW k \in DOMAIN toHolder', toHolder'[k].type = "promise",
             client'[toHolder'[k].num] # "none"
      PROVE  \E l \in DOMAIN toHolder' : k < l /\ IsResolve(toHolder'[l], toHolder'[k].num)
  <2>1. PICK l \in DOMAIN toHolder : k + 1 < l /\ IsResolve(toHolder[l], toHolder[k + 1].num)
    BY <1>1, <1>2, <1>8 DEF ResolveInv, OneResolve
  <2>2. 1 < l /\ k < l - 1 /\ l \in Int
    BY <1>2, <2>1
  <2> QED BY <1>2, <1>3, <2>1, <2>2
<1>9. OneResolve'
  BY <1>5, <1>7, <1>8 DEF OneResolve
<1> QED BY <1>4, <1>9 DEF ResolveInv

LEMMA InitResolveInv == Init => ResolveInv
BY DEF Init, ResolveInv, EntryIndexed, ImportsMarked, OneResolve, NoImport

LEMMA NextKeepsResolveInv ==
  TypeInv /\ TypeInv' /\ AnswerInv /\ ResolveInv /\ [Next]_vars => ResolveInv'
<1> SUFFICES ASSUME TypeInv, TypeInv', AnswerInv, ResolveInv, [Next]_vars PROVE ResolveInv'
  OBVIOUS
<1>1. CASE \E p \in Promises : PassPromise(p) \/ QuestionSettles(p)
  BY <1>1, PassPromiseKeepsResolves, OtherStepsKeepResolves
<1>2. CASE \E i \in Ids : Call(i) \/ CloseRef(i)
  BY <1>2, OtherStepsKeepResolves DEF QuietStep
<1>3. CASE HostStep
  BY <1>3, ContinueKeepsResolves, OtherStepsKeepResolves DEF HostStep, QuietStep
<1>4. CASE HolderStep
  BY <1>4, HandlePromiseKeepsResolves, HandleResolveKeepsResolves, OtherStepsKeepResolves
     DEF HolderStep, QuietStep
<1>5. CASE UNCHANGED vars
  BY <1>5, OtherStepsKeepResolves DEF QuietStep
<1> QED BY <1>1, <1>2, <1>3, <1>4, <1>5 DEF Next

LEMMA ResolveInvHolds ==
  ASSUME "reuse pending" \notin Uses
  PROVE  Spec => []ResolveInv
<1>1. TypeInv /\ TypeInv' /\ AnswerInv /\ ResolveInv /\ [Next]_vars => ResolveInv'
  BY NextKeepsResolveInv
<1> QED BY <1>1, InitResolveInv, TypeInvHolds, AnswerInvHolds, PTL DEF Spec

-----------------------------------------------------------------------------
(* Calls stay where their promise is.                                       *)

\* What no step takes back: an entry is not given to another promise at once,
\* and what a promise was resolved to and how calls were made stays.
HistoryKept ==
  /\ made <= made' /\ \A c \in Calls : c <= made => via'[c] = via[c]
  /\ \A p \in Promises : client[p] # "none" => client'[p] = client[p]
  /\ \A i \in Ids : entry[i] # 0 /\ entry'[i] # 0 => entry'[i] = entry[i]

LEMMA StepKeepsHistory ==
  ASSUME TypeInv, RefInv, AnswerInv, [Next]_vars
  PROVE  HistoryKept
<1>1. /\ made \in Int /\ via \in [Calls -> {0} \cup Promises]
      /\ client \in [Promises -> {"none"} \cup Resolutions]
      /\ entry \in [Ids -> {0} \cup Promises]
  BY DEF TypeInv, HolderTypes, HostTypes, TableTypes
<1>2. ASSUME NEW p \in Promises, PassPromise(p) PROVE HistoryKept
  <2>1. UNCHANGED <<made, via>> /\ question[p] = "pending"
    BY <1>2 DEF PassPromise, holderVars
  <2>2. client[p] = "none"
    BY <1>1, <2>1 DEF AnswerInv, ClientsAgree, Resolutions
  <2>3. CASE PassAgain(p)
    BY <1>1, <2>1, <2>3 DEF PassAgain, HistoryKept
  <2>4. CASE PassNew(p)
    <3> DEFINE k == IdToUse
    <3>1. /\ k \in Ids /\ entry' = [entry EXCEPT ![k] = p]
          /\ client' = [client EXCEPT ![p] = "none"]
      BY <2>4 DEF PassNew
    <3>2. entry[k] = 0
      BY <2>4, TakeIdKeepsFree DEF PassNew, RefInv
    <3> HIDE DEF k
    <3> QED BY <1>1, <2>1, <2>2, <3>1, <3>2 DEF HistoryKept
  <2> QED BY <1>2, <2>3, <2>4 DEF PassPromise
<1>3. ASSUME NEW p \in Promises, NEW i \in Ids, Continue(p, i) PROVE HistoryKept
  <2>1. /\ UNCHANGED <<made, via, entry>>
        /\ client' = client
             \/ (client[entry[i]] = "none" /\ client' = [client EXCEPT ![entry[i]] = question[p]])
    BY <1>3 DEF Continue, Settle, holderVars
  <2> QED BY <1>1, <2>1 DEF HistoryKept
<1>4. CASE HandleRelease
  <2>1. /\ UNCHANGED <<made, via, client>>
        /\ entry' = entry \/ entry' = [entry EXCEPT ![Head(toHost).id] = 0]
    BY <1>4 DEF HandleRelease, holderVars
  <2> QED BY <1>1, <2>1 DEF HistoryKept
<1>5. ASSUME NEW i \in Ids, Call(i) PROVE HistoryKept
  <2>1. /\ UNCHANGED <<client, entry>> /\ made' = made + 1
        /\ via' = [via EXCEPT ![made + 1] = imports[i].of]
    BY <1>5 DEF Call, hostVars
  <2>2. \A c \in Calls : c \in Int
    BY DEF Calls
  <2> QED BY <1>1, <2>1, <2>2 DEF HistoryKept
<1>6. CASE \/ \E p \in Promises : QuestionSettles(p)
           \/ HandleCall \/ HandleSenderLoopback \/ HolderStep \/ UNCHANGED vars
           \/ \E i \in Ids : CloseRef(i)
  <2>1. UNCHANGED <<client, entry, made, via>>
    BY <1>6 DEF QuestionSettles, HandleCall, HandleSenderLoopback, HolderStep, HandlePromise,
         HandleResolve, HandleForwarded, HandleReceiverLoopback, LiftNext, LiftReturns, LiftEnds,
         CloseRef, vars, hostVars, holderVars
  <2> QED BY <1>1, <2>1 DEF HistoryKept
<1> QED BY <1>2, <1>3, <1>4, <1>5, <1>6 DEF Next, HostStep

\* References that are given back keep the export until then.
GivenBackLive ==
  \A j \in DOMAIN toHost :
    toHost[j].type = "release" /\ toHost[j].num > 0 => entry[toHost[j].id] # 0

LEMMA GivenBackIsLive == TypeInv /\ RefInv => GivenBackLive
<1> SUFFICES ASSUME TypeInv, RefInv, NEW j \in DOMAIN toHost,
                    toHost[j].type = "release", toHost[j].num > 0
             PROVE  entry[toHost[j].id] # 0
  BY DEF GivenBackLive
<1>0. PICK i : i = toHost[j].id
  OBVIOUS
<1> DEFINE m == toHost[j]
<1>1. /\ toHost \in Seq(HostMessage) /\ toHolder \in Seq(HolderMessage)
      /\ imports \in [Ids -> ImportEntry]
  BY DEF TypeInv, ChannelTypes, HolderTypes
<1>2. j \in 1..Len(toHost) /\ m \in HostMessage
  BY <1>1, ElementOfSeq, LenProperties
<1>3. ReleasedBy(m, i) = m.num /\ m.num \in Nat /\ i \in Ids
  BY <1>0, <1>2, HostMessageFields DEF ReleasedBy
<1>4. /\ ReleaseWeight(i) \in [HostMessage -> Nat] /\ ReleaseWeight(i)[m] = m.num
      /\ DescriptorWeight(i) \in [HolderMessage -> Nat]
  BY <1>2, <1>3, WeightsTyped
<1>5. /\ ReleaseWeight(i)[toHost[j]] <= Total(toHost, ReleaseWeight(i))
      /\ Total(toHost, ReleaseWeight(i)) \in Nat
  BY <1>1, <1>2, <1>4, TotalInSteps
<1>6. Total(toHolder, DescriptorWeight(i)) \in Nat
  BY <1>1, <1>4, TotalInSteps
<1>7. /\ Introduced(i) = Total(toHolder, DescriptorWeight(i))
      /\ Released(i) = Total(toHost, ReleaseWeight(i))
  BY <1>3, InFlightIsTotal DEF TypeInv, InFlight
<1>8. imports[i].refs \in Nat
  BY <1>1, <1>3 DEF ImportEntry
<1> QED BY <1>0, <1>3, <1>4, <1>5, <1>6, <1>7, <1>8 DEF RefInv, ReferencesAgree, TableOK

LEMMA HostElements ==
  ASSUME ChannelTypes
  PROVE  \A k \in DOMAIN toHost : k \in Int /\ k >= 1 /\ toHost[k] \in HostMessage
BY ElementOfSeq, LenProperties DEF ChannelTypes

\* Calls that are behind d messages taken stay named, and so does a new one.
LEMMA CallsStayNamed ==
  ASSUME TypeInv, TypeInv', RefInv, RefInv', CallsNamed, HistoryKept, NEW d \in {0, 1},
         \A k \in DOMAIN toHost' : toHost'[k].type = "call" =>
           CallNamed(k)' \/ (k + d \in DOMAIN toHost /\ toHost'[k] = toHost[k + d]),
         \A j \in DOMAIN toHost : j > d /\ toHost[j].type = "release" =>
           j - d \in DOMAIN toHost' /\ toHost'[j - d] = toHost[j],
         \A i \in Ids : imports[i].refs > 0 => imports'[i].refs > 0
           \/ \A k \in DOMAIN toHost' : toHost'[k].type = "call" => GivenBackAfter(k, i)'
  PROVE  CallsNamed'
<1> SUFFICES ASSUME NEW k \in DOMAIN toHost', toHost'[k].type = "call",
                    k + d \in DOMAIN toHost, toHost'[k] = toHost[k + d]
             PROVE  CallNamed(k)'
  BY DEF CallsNamed
<1> DEFINE m == toHost[k + d]
<1>1. CallNamed(k + d)
  BY DEF CallsNamed
<1>2. m.id \in {0} \cup Ids /\ m.num \in Calls /\ k \in Int /\ k >= 1
  <2>1. ChannelTypes /\ ChannelTypes'
    BY DEF TypeInv
  <2>2. m \in HostMessage /\ m.type = "call"
    BY <2>1, HostElements
  <2>3. k \in Int /\ k >= 1
    <3>1. toHost' \in Seq(HostMessage)
      BY <2>1 DEF ChannelTypes
    <3> QED BY <3>1, LenProperties
  <2> QED BY <2>2, <2>3, HostMessageFields
<1>3. m.num <= made' /\ via'[m.num] = via[m.num] /\ via[m.num] \in Promises
  <2>1. made \in Int /\ made' \in Int /\ m.num \in Int
    BY <1>2 DEF TypeInv, HolderTypes, Calls
  <2> QED BY <1>1, <1>2, <2>1 DEF CallNamed, HistoryKept
<1>4. CASE m.id = 0
  <2>1. client'[via[m.num]] = "known"
    BY <1>1, <1>3, <1>4 DEF CallNamed, HistoryKept
  <2> QED BY <1>3, <1>4, <2>1 DEF CallNamed
<1>5. CASE m.id # 0
  <2>0. PICK i : i = m.id
    OBVIOUS
  <2>1. i \in Ids
    BY <1>2, <1>5, <2>0
  <2>2. imports'[i].refs > 0 \/ GivenBackAfter(k, i)'
    <3>1. CASE imports[i].refs > 0
      BY <2>1, <3>1
    <3>2. CASE GivenBackAfter(k + d, i)
      <4>1. PICK j \in DOMAIN toHost :
              j > k + d /\ toHost[j].type = "release" /\ toHost[j].id = i /\ toHost[j].num > 0
        BY <3>2 DEF GivenBackAfter
      <4>2. j \in Int
        BY <4>1, HostElements DEF TypeInv
      <4>3. j > d /\ j - d > k
        BY <1>2, <4>1, <4>2
      <4>4. j - d \in DOMAIN toHost' /\ toHost'[j - d] = toHost[j]
        BY <4>1, <4>3
      <4> QED BY <4>1, <4>3, <4>4 DEF GivenBackAfter
    <3> QED BY <1>1, <1>5, <2>0, <3>1, <3>2 DEF CallNamed
  <2>3. entry'[i] # 0
    <3>1. (TypeInv /\ RefInv => GivenBackLive)'
      BY GivenBackIsLive, PTL
    <3>2. NamedLive'
      BY NamedIsLiveInStep
    <3> QED BY <2>1, <2>2, <3>1, <3>2 DEF NamedLive, GivenBackLive, GivenBackAfter
  <2>4. entry[i] = via[m.num] /\ entry[i] # 0
    BY <1>1, <1>3, <1>5, <2>0 DEF CallNamed, Promises
  <2>5. entry'[i] = via[m.num]
    BY <2>1, <2>3, <2>4 DEF HistoryKept
  <2> QED BY <1>3, <1>5, <2>0, <2>2, <2>5 DEF CallNamed, GivenBackAfter
<1> QED BY <1>4, <1>5

\* What becomes of the messages to the host.
LEMMA HostQueueMoves ==
  ASSUME ChannelTypes
  PROVE  /\ toHost' = toHost =>
              /\ \A k \in DOMAIN toHost' : k + 0 \in DOMAIN toHost /\ toHost'[k] = toHost[k + 0]
              /\ \A j \in DOMAIN toHost : j - 0 \in DOMAIN toHost' /\ toHost'[j - 0] = toHost[j]
         /\ toHost # <<>> /\ toHost' = Tail(toHost) =>
              /\ \A k \in DOMAIN toHost' : k + 1 \in DOMAIN toHost /\ toHost'[k] = toHost[k + 1]
              /\ \A j \in DOMAIN toHost : j > 1 =>
                   j - 1 \in DOMAIN toHost' /\ toHost'[j - 1] = toHost[j]
         /\ \A m \in HostMessage : toHost' = Append(toHost, m) =>
              /\ Len(toHost) + 1 \in DOMAIN toHost' /\ toHost'[Len(toHost) + 1] = m
              /\ \A k \in DOMAIN toHost' : k # Len(toHost) + 1 =>
                   k + 0 \in DOMAIN toHost /\ toHost'[k] = toHost[k + 0] /\ k < Len(toHost) + 1
              /\ \A j \in DOMAIN toHost : j - 0 \in DOMAIN toHost' /\ toHost'[j - 0] = toHost[j]
<1>1. toHost \in Seq(HostMessage) /\ \A k \in DOMAIN toHost : k \in Int /\ k >= 1
  BY HostElements DEF ChannelTypes
<1>2. ASSUME toHost' = toHost
      PROVE  /\ \A k \in DOMAIN toHost' : k + 0 \in DOMAIN toHost /\ toHost'[k] = toHost[k + 0]
             /\ \A j \in DOMAIN toHost : j - 0 \in DOMAIN toHost' /\ toHost'[j - 0] = toHost[j]
  <2>1. \A k \in DOMAIN toHost : k + 0 = k /\ k - 0 = k
    BY <1>1
  <2> QED BY <1>2, <2>1
<1>3. ASSUME toHost # <<>>, toHost' = Tail(toHost)
      PROVE  /\ \A k \in DOMAIN toHost' : k + 1 \in DOMAIN toHost /\ toHost'[k] = toHost[k + 1]
             /\ \A j \in DOMAIN toHost : j > 1 =>
                  j - 1 \in DOMAIN toHost' /\ toHost'[j - 1] = toHost[j]
  <2>1. \A k \in DOMAIN toHost' : k + 1 \in DOMAIN toHost /\ toHost'[k] = toHost[k + 1]
    BY <1>1, <1>3, PositionsOfTail
  <2>2. \A j \in DOMAIN toHost :
          j = 1 \/ (1 < j /\ j - 1 \in DOMAIN toHost' /\ toHost'[j - 1] = toHost[j])
    BY <1>1, <1>3, PositionsBeforeTail
  <2>3. \A j \in DOMAIN toHost : j > 1 => j # 1
    BY <1>1
  <2> QED BY <2>1, <2>2, <2>3
<1>4. ASSUME NEW m \in HostMessage, toHost' = Append(toHost, m)
      PROVE  /\ Len(toHost) + 1 \in DOMAIN toHost' /\ toHost'[Len(toHost) + 1] = m
             /\ \A k \in DOMAIN toHost' : k # Len(toHost) + 1 =>
                  k + 0 \in DOMAIN toHost /\ toHost'[k] = toHost[k + 0] /\ k < Len(toHost) + 1
             /\ \A j \in DOMAIN toHost : j - 0 \in DOMAIN toHost' /\ toHost'[j - 0] = toHost[j]
  <2>1. /\ DOMAIN toHost' = DOMAIN toHost \cup {Len(toHost) + 1}
        /\ toHost'[Len(toHost) + 1] = m
        /\ \A k \in DOMAIN toHost : k < Len(toHost) + 1 /\ toHost'[k] = toHost[k]
    BY ONLY <1>1, <1>4, PositionsOfAppend
  <2>2. \A k \in DOMAIN toHost : k + 0 = k /\ k - 0 = k
    BY <1>1
  <2> QED BY <2>1, <2>2
<1> QED BY <1>2, <1>3, <1>4

\* Steps of the host, and of the holder that send no call.
LEMMA OtherStepsKeepCallsNamed ==
  ASSUME TypeInv, TypeInv', RefInv, RefInv', AnswerInv, ResolveInv, CallsNamed, HistoryKept,
         \/ \E p \in Promises : PassPromise(p) \/ QuestionSettles(p)
         \/ HostStep \/ HolderStep \/ UNCHANGED vars
         \/ \E i \in Ids : CloseRef(i)
  PROVE  CallsNamed'
<1>1. ChannelTypes /\ imports \in [Ids -> ImportEntry]
  BY DEF TypeInv, HolderTypes
<1>2. CASE toHost' = toHost /\ \A i \in Ids : imports[i].refs > 0 => imports'[i].refs > 0
  BY <1>1, <1>2, HostQueueMoves, CallsStayNamed
<1>3. CASE toHost # <<>> /\ toHost' = Tail(toHost) /\ imports' = imports
  BY <1>1, <1>3, HostQueueMoves, CallsStayNamed
<1>4. ASSUME NEW m \in HostMessage, m.type # "call", toHost' = Append(toHost, m),
             \A i \in Ids : imports[i].refs > 0 =>
               imports'[i].refs > 0 \/ (m.type = "release" /\ m.id = i /\ m.num > 0)
      PROVE  CallsNamed'
  <2> DEFINE n == Len(toHost) + 1
  <2>1. /\ n \in DOMAIN toHost' /\ toHost'[n] = m
        /\ \A k \in DOMAIN toHost' : k # n =>
             k + 0 \in DOMAIN toHost /\ toHost'[k] = toHost[k + 0] /\ k < n
        /\ \A j \in DOMAIN toHost : j - 0 \in DOMAIN toHost' /\ toHost'[j - 0] = toHost[j]
    BY <1>1, <1>4, HostQueueMoves
  <2>2. n \in Int
    BY <1>1, LenProperties DEF ChannelTypes
  <2> HIDE DEF n
  <2>3. ASSUME NEW i \in Ids, m.type = "release", m.id = i, m.num > 0,
               NEW k \in DOMAIN toHost', toHost'[k].type = "call"
        PROVE  GivenBackAfter(k, i)'
    <3>1. k # n
      BY <1>4, <2>1, <2>3
    <3>2. k \in DOMAIN toHost'
      BY <2>3
    <3>3. n > k
      <4>1. toHost' \in Seq(HostMessage)
        BY DEF TypeInv, ChannelTypes
      <4>2. k \in Int
        BY <4>1, LenProperties
      <4> QED BY <2>1, <2>2, <3>1, <4>2
    <3> QED BY <2>1, <2>3, <3>3 DEF GivenBackAfter
  <2>4. \A k \in DOMAIN toHost' : toHost'[k].type = "call" =>
          k + 0 \in DOMAIN toHost /\ toHost'[k] = toHost[k + 0]
    BY <1>4, <2>1
  <2> QED BY <1>4, <2>1, <2>3, <2>4, CallsStayNamed
<1>5. CASE HandleResolve
  <2>1. LET m == Head(toHolder)
        IN  /\ m.id \in Ids
            /\ \/ toHost' = toHost
               \/ toHost' = Append(toHost, Msg("release", m.id, 1, "none"))
               \/ \E e \in EmbargoIds : toHost' = Append(toHost, Msg("loopback", m.id, e, "none"))
            /\ \A i \in Ids : imports[i].refs > 0 => imports'[i].refs > 0
    BY <1>5, HandleResolveImports DEF ResolveInv
  <2>2. \A i \in Ids : /\ Msg("release", i, 1, "none") \in HostMessage
                       /\ Msg("release", i, 1, "none").type = "release"
                       /\ \A e \in EmbargoIds : /\ Msg("loopback", i, e, "none") \in HostMessage
                                                /\ Msg("loopback", i, e, "none").type = "loopback"
    BY MessagesTyped DEF Msg
  <2> QED BY <1>2, <1>4, <2>1, <2>2
<1>6. ASSUME NEW i \in Ids, CloseRef(i) PROVE CallsNamed'
  <2>1. CASE toHost' = toHost /\ imports' = [imports EXCEPT ![i].local = @ - 1]
    BY <1>1, <1>2, <2>1 DEF ImportEntry
  <2>2. CASE CloseImport(i)
    <3> DEFINE m == Msg("release", i, imports[i].refs, "none")
    <3>1. /\ imports' = [imports EXCEPT ![i] = NoImport] /\ toHost' = Append(toHost, m)
          /\ imports[i].refs \in Nat
      BY <1>1, <2>2 DEF CloseImport, ImportEntry
    <3>2. m \in HostMessage /\ m.type = "release" /\ m.id = i /\ m.num = imports[i].refs
      BY <3>1, MessagesTyped DEF Msg
    <3> HIDE DEF m
    <3> QED BY <1>1, <1>4, <3>1, <3>2
  <2> QED BY <1>6, <2>1, <2>2 DEF CloseRef
<1>7. CASE HandleCall \/ HandleRelease \/ HandleSenderLoopback
  BY <1>3, <1>7 DEF HandleCall, HandleRelease, HandleSenderLoopback, HostTakes, holderVars
<1>8. CASE HandlePromise
  <2>1. toHost' = toHost
    BY <1>8 DEF HandlePromise
  <2>2. \A i \in Ids : imports[i].refs > 0 => imports'[i].refs > 0
    BY <1>8, HandlePromiseImports
  <2> QED BY <1>2, <2>1, <2>2
<1>9. CASE HandleReceiverLoopback
  <2>1. toHost' = toHost
    BY <1>9 DEF HandleReceiverLoopback
  <2>2. \A i \in Ids : imports'[i].refs = imports[i].refs
    <3>1. imports' = imports
            \/ imports' = [imports EXCEPT ![disembargoes[Head(toHolder).num]].embargo = 0]
      BY <1>9 DEF HandleReceiverLoopback
    <3> QED BY <1>1, <3>1 DEF ImportEntry
  <2> QED BY <1>2, <2>1, <2>2
<1>10. CASE \/ \E p \in Promises : PassPromise(p) \/ QuestionSettles(p)
            \/ \E p \in Promises, i \in Ids : Continue(p, i)
            \/ HandleForwarded \/ LiftNext \/ LiftReturns \/ LiftEnds \/ UNCHANGED vars
  <2>1. UNCHANGED <<toHost, imports>>
    BY <1>10 DEF PassPromise, QuestionSettles, Continue, HandleForwarded, LiftNext, LiftReturns,
         LiftEnds, vars, holderVars
  <2> QED BY <1>2, <2>1
<1> QED BY <1>5, <1>6, <1>7, <1>8, <1>9, <1>10 DEF HostStep, HolderStep

LEMMA ForwardsStayNamed ==
  ASSUME TypeInv, TypeInv', HistoryKept, ForwardsNamed,
         \A m \in Range(toHolder') :
           m.type = "call" => m \in Range(toHolder) \/ ForwardNamed(m.num)'
  PROVE  ForwardsNamed'
<1> SUFFICES ASSUME NEW m \in Range(toHolder), m.type = "call"
             PROVE  ForwardNamed(m.num)'
  BY DEF ForwardsNamed
<1>1. m \in HolderMessage /\ made \in Int /\ made' \in Int
  <2>1. toHolder \in Seq(HolderMessage)
    BY DEF TypeInv, ChannelTypes
  <2> QED BY <2>1, RangeIsElements DEF TypeInv, HolderTypes
<1>2. m.num \in Calls /\ m.num \in Int
  BY <1>1, HolderMessageFields DEF Calls
<1> QED BY <1>1, <1>2 DEF ForwardsNamed, ForwardNamed, HistoryKept

LEMMA QueuesStayNamed ==
  ASSUME TypeInv, TypeInv', HistoryKept, QueuesNamed,
         \A p \in Promises :
           /\ \/ queue'[p] = <<>>
              \/ queue'[p] = queue[p] /\ client'[p] = client[p]
              \/ /\ client'[p] = client[p] /\ client[p] \in {"none", "broken"}
                 /\ \E c \in Calls : /\ queue'[p] = Append(queue[p], c)
                                     /\ c <= made' /\ via'[c] = p
           /\ \A c \in Range(delivered'[p]) : c \in Range(delivered[p]) \/ c <= made'
  PROVE  QueuesNamed'
<1> SUFFICES ASSUME NEW p \in Promises
             PROVE  /\ client'[p] \in {"known", "fresh", "back"} => queue'[p] = <<>>
                    /\ \A c \in Range(queue'[p]) : c <= made' /\ via'[c] = p
                    /\ \A c \in Range(delivered'[p]) : c <= made'
  BY DEF QueuesNamed
<1>1. /\ queue[p] \in Seq(Calls) /\ delivered[p] \in Seq(Calls) /\ made \in Int /\ made' \in Int
      /\ \A c \in Calls : c \in Int
  BY DEF TypeInv, QueueTypes, OutcomeTypes, HolderTypes, Calls
<1>2. /\ Range(queue[p]) \subseteq Calls /\ Range(delivered[p]) \subseteq Calls
      /\ Range(<<>>) = {}
  BY <1>1, RangeTyped, RangeOfEmpty
<1>3. /\ \A c \in Range(queue[p]) : c <= made' /\ via'[c] = p
      /\ \A c \in Range(delivered[p]) : c <= made'
  BY <1>1, <1>2 DEF QueuesNamed, HistoryKept
<1>4. ASSUME NEW c \in Calls, queue'[p] = Append(queue[p], c), c <= made', via'[c] = p
      PROVE  \A x \in Range(queue'[p]) : x <= made' /\ via'[x] = p
  <2>1. Range(queue'[p]) = Range(queue[p]) \cup {c}
    BY <1>1, <1>4, RangeOfAppend
  <2> QED BY <1>3, <1>4, <2>1
<1>5. \A c \in Range(queue'[p]) : c <= made' /\ via'[c] = p
  BY <1>2, <1>3, <1>4
<1>6. client'[p] \in {"known", "fresh", "back"} => queue'[p] = <<>>
  BY DEF QueuesNamed
<1> QED BY <1>3, <1>5, <1>6

\* A call is delivered.
LEMMA DeliverAdds ==
  ASSUME TypeInv, NEW c \in Calls, NEW q, delivered' = [delivered EXCEPT ![q] = Append(@, c)]
  PROVE  \A p \in Promises : \A x \in Range(delivered'[p]) : x \in Range(delivered[p]) \/ x = c
<1> SUFFICES ASSUME NEW p \in Promises, NEW x \in Range(delivered'[p])
             PROVE  x \in Range(delivered[p]) \/ x = c
  OBVIOUS
<1>1. delivered \in [Promises -> Seq(Calls)] /\ delivered[p] \in Seq(Calls)
  BY DEF TypeInv, OutcomeTypes
<1>2. CASE p = q
  <2>1. delivered'[p] = Append(delivered[p], c)
    BY <1>1, <1>2
  <2> QED BY <1>1, <2>1, RangeOfAppend
<1>3. CASE p # q
  BY <1>1, <1>3
<1> QED BY <1>2, <1>3

LEMMA PassPromiseKeepsQueues ==
  ASSUME TypeInv, TypeInv', ForwardsNamed, QueuesNamed, HistoryKept,
         NEW p \in Promises, PassPromise(p)
  PROVE  ForwardsNamed' /\ QueuesNamed'
<1>1. /\ queue \in [Promises -> Seq(Calls)] /\ client \in [Promises -> {"none"} \cup Resolutions]
      /\ toHolder \in Seq(HolderMessage) /\ delivered' = delivered
  BY DEF TypeInv, QueueTypes, HostTypes, ChannelTypes, PassPromise
<1>2. \A q \in Promises :
        \/ queue'[q] = <<>>
        \/ queue'[q] = queue[q] /\ client'[q] = client[q]
  BY <1>1 DEF PassPromise, PassAgain, PassNew
<1>3. QueuesNamed'
  BY <1>1, <1>2, QueuesStayNamed
<1>4. \E i \in Ids : toHolder' = Append(toHolder, Msg("promise", i, p, "none"))
  BY DEF PassPromise, PassAgain, PassNew, Listed
<1>5. PICK i \in Ids : toHolder' = Append(toHolder, Msg("promise", i, p, "none"))
  BY <1>4
<1> DEFINE m == Msg("promise", i, p, "none")
<1>6. m \in HolderMessage /\ m.type = "promise"
  BY MessagesTyped DEF Msg
<1> HIDE DEF m
<1>7. Range(toHolder') = Range(toHolder) \cup {m}
  BY <1>1, <1>5, <1>6, RangeOfAppend DEF m
<1> QED BY <1>3, <1>6, <1>7, ForwardsStayNamed

LEMMA ContinueKeepsQueues ==
  ASSUME TypeInv, TypeInv', ForwardsNamed, QueuesNamed, HistoryKept,
         NEW p \in Promises, NEW i \in Ids, Continue(p, i)
  PROVE  ForwardsNamed' /\ QueuesNamed'
<1>1. /\ queue \in [Promises -> Seq(Calls)] /\ client \in [Promises -> {"none"} \cup Resolutions]
      /\ toHolder \in Seq(HolderMessage) /\ delivered \in [Promises -> Seq(Calls)]
      /\ UNCHANGED <<made, via>>
  BY DEF TypeInv, QueueTypes, HostTypes, ChannelTypes, OutcomeTypes, Continue, holderVars
<1>2. CASE UNCHANGED <<client, queue, toHolder, delivered>>
  BY <1>2, QueuesStayNamed, ForwardsStayNamed
<1>3. CASE entry[i] # 0 /\ Settle(entry[i], i, question[p])
  <2> DEFINE e == entry[i]
             r == question[p]
  <2>1. e \in Promises /\ r \in Resolutions /\ Settle(e, i, r)
    BY <1>3 DEF Continue, TypeInv, TableTypes, HostTypes
  <2> HIDE DEF e, r
  <2>2. /\ client' = [client EXCEPT ![e] = r] /\ queue' = [queue EXCEPT ![e] = <<>>]
        /\ delivered' = delivered \/ delivered' = [delivered EXCEPT ![e] = @ \o queue[e]]
    BY <2>1 DEF Settle
  <2>3. \A q \in Promises : \A c \in Range(delivered'[q]) :
          c \in Range(delivered[q]) \/ c <= made'
    <3> SUFFICES ASSUME NEW q \in Promises, NEW c \in Range(delivered'[q]),
                        delivered'[q] # delivered[q]
                 PROVE  c \in Range(delivered[q]) \/ c <= made'
      OBVIOUS
    <3>1. q = e /\ delivered'[q] = delivered[q] \o queue[q]
      BY <1>1, <2>2
    <3>2. Range(delivered'[q]) = Range(delivered[q]) \cup Range(queue[q])
      BY <1>1, <3>1, RangeOfConcat
    <3> QED BY <1>1, <3>2 DEF QueuesNamed
  <2>4. QueuesNamed'
    <3>1. \A q \in Promises : queue'[q] = <<>> \/ (queue'[q] = queue[q] /\ client'[q] = client[q])
      BY <1>1, <2>1, <2>2
    <3> QED BY <2>3, <3>1, QueuesStayNamed
  <2>5. ASSUME NEW m \in Range(toHolder'), m.type = "call"
        PROVE  m \in Range(toHolder) \/ ForwardNamed(m.num)'
    <3>1. PICK k \in DOMAIN toHolder' : m = toHolder'[k]
      BY DEF Range
    <3>2. \/ k \in DOMAIN toHolder /\ toHolder'[k] = toHolder[k]
          \/ r = "back" /\ \E l \in DOMAIN queue[e] : m.num = queue[e][l]
      <4>1. Msg("resolve", i, e, r).type = "resolve"
        BY DEF Msg
      <4>2. \E n \in Int :
              /\ n \in DOMAIN toHolder' /\ toHolder'[n] = Msg("resolve", i, e, r)
              /\ \A j \in DOMAIN toHolder :
                   j \in DOMAIN toHolder' /\ j < n /\ toHolder'[j] = toHolder[j]
              /\ \A j \in DOMAIN toHolder' :
                   /\ j \in Int
                   /\ \/ j = n \/ j \in DOMAIN toHolder
                      \/ /\ j > Len(toHolder) /\ j < n /\ toHolder'[j].type = "call"
                         /\ r = "back" /\ j - Len(toHolder) \in DOMAIN queue[e]
                         /\ toHolder'[j].num = queue[e][j - Len(toHolder)]
        BY <2>1, SettlePositions
      <4> QED BY <2>5, <3>1, <4>1, <4>2
    <3>3. CASE r = "back" /\ \E l \in DOMAIN queue[e] : m.num = queue[e][l]
      <4>1. m.num \in Range(queue[e])
        BY <3>3 DEF Range
      <4>2. client'[e] = "back"
        BY <1>1, <2>1, <2>2, <3>3
      <4> QED BY <1>1, <2>1, <4>1, <4>2 DEF QueuesNamed, ForwardNamed
    <3> QED BY <3>1, <3>2, <3>3 DEF Range
  <2> QED BY <2>4, <2>5, ForwardsStayNamed
<1> QED BY <1>2, <1>3 DEF Continue

\* A call the host takes is delivered, queued on its promise or sent back to
\* what its promise became.
LEMMA HandleCallPlaces ==
  ASSUME TypeInv, QueuesNamed, CallsNamed, HandleCall
  PROVE  LET c == Head(toHost).num
             p == via[c]
         IN  /\ c \in Calls /\ c <= made /\ p \in Promises
             /\ toHost # <<>> /\ toHost' = Tail(toHost)
             /\ 1 \in DOMAIN toHost /\ toHost[1].type = "call" /\ toHost[1].num = c
             /\ \/ /\ client[p] \in {"known", "fresh"} /\ queue[p] = <<>>
                   /\ delivered' = [delivered EXCEPT ![p] = Append(@, c)]
                   /\ UNCHANGED <<queue, toHolder>>
                \/ /\ client[p] \in {"none", "broken"}
                   /\ queue' = queue \/ queue' = [queue EXCEPT ![p] = Append(@, c)]
                   /\ UNCHANGED <<delivered, toHolder>>
                \/ /\ client[p] = "back" /\ queue[p] = <<>>
                   /\ toHolder' = Append(toHolder, Msg("call", 0, c, "none"))
                   /\ UNCHANGED <<delivered, queue>>
<1> DEFINE m == Head(toHost)
           c == m.num
           p == via[c]
<1>1. /\ m \in HostMessage /\ m.type = "call" /\ toHost # <<>> /\ toHost' = Tail(toHost)
      /\ toHost \in Seq(HostMessage)
  BY HostTakesTyped DEF HandleCall, TypeInv, ChannelTypes
<1>2. c \in Calls /\ m.id \in {0} \cup Ids
  BY <1>1, HostMessageFields
<1>3. 1 \in DOMAIN toHost /\ toHost[1] = m
  BY <1>1, PositionsOfTail
<1>4. c <= made /\ p \in Promises /\ (m.id = 0 => client[p] = "known") /\ (m.id # 0 => entry[m.id] = p)
  BY <1>1, <1>3 DEF CallsNamed, CallNamed
<1>5. \/ m.id = 0 /\ Deliver(c) /\ UNCHANGED <<queue, toHolder, dropped>>
      \/ m.id # 0 /\ ExportCall(entry[m.id], c)
  BY DEF HandleCall
<1> HIDE DEF m
<1>6. client[p] \in {"known", "fresh", "back"} => queue[p] = <<>>
  BY <1>4 DEF QueuesNamed
<1>7. CASE m.id = 0 /\ Deliver(c) /\ UNCHANGED <<queue, toHolder, dropped>>
  BY <1>1, <1>2, <1>3, <1>4, <1>6, <1>7 DEF Deliver, m
<1>8. CASE m.id # 0 /\ ExportCall(p, c)
  <2>1. toHolder \o Forwards(<<c>>) = Append(toHolder, Msg("call", 0, c, "none"))
    <3> DEFINE f == Msg("call", 0, c, "none")
    <3>1. Forwards(<<c>>) = <<f>>
      BY DEF Forwards
    <3>2. f \in HolderMessage /\ toHolder \in Seq(HolderMessage)
      BY <1>2, MessagesTyped DEF TypeInv, ChannelTypes
    <3> HIDE DEF f
    <3>3. toHolder \o <<f>> = Append(toHolder, f)
      BY <3>2
    <3> QED BY <3>1, <3>3 DEF f
  <2>2. \/ /\ client[p] \in {"none", "broken"}
           /\ queue' = queue \/ queue' = [queue EXCEPT ![p] = Append(@, c)]
           /\ UNCHANGED <<delivered, toHolder>>
        \/ /\ client[p] \in {"known", "fresh"} /\ Deliver(c)
           /\ UNCHANGED <<queue, toHolder>>
        \/ /\ client[p] = "back"
           /\ toHolder' = Append(toHolder, Msg("call", 0, c, "none"))
           /\ UNCHANGED <<queue, delivered>>
    BY <1>8, <2>1 DEF ExportCall
  <2> QED BY <1>1, <1>2, <1>3, <1>4, <1>6, <2>2 DEF Deliver, m
<1> QED BY <1>4, <1>5, <1>7, <1>8

LEMMA HandleCallKeepsQueues ==
  ASSUME TypeInv, TypeInv', ForwardsNamed, QueuesNamed, CallsNamed, HistoryKept, HandleCall
  PROVE  ForwardsNamed' /\ QueuesNamed'
<1>1. PICK c, p :
        /\ p = via[c] /\ c \in Calls /\ c <= made /\ p \in Promises
        /\ \/ /\ client[p] \in {"known", "fresh"}
              /\ delivered' = [delivered EXCEPT ![p] = Append(@, c)]
              /\ UNCHANGED <<queue, toHolder>>
           \/ /\ client[p] \in {"none", "broken"}
              /\ queue' = queue \/ queue' = [queue EXCEPT ![p] = Append(@, c)]
              /\ UNCHANGED <<delivered, toHolder>>
           \/ /\ client[p] = "back"
              /\ toHolder' = Append(toHolder, Msg("call", 0, c, "none"))
              /\ UNCHANGED <<delivered, queue>>
  BY HandleCallPlaces
<1>2. /\ UNCHANGED <<client, made, via>> /\ queue \in [Promises -> Seq(Calls)]
      /\ toHolder \in Seq(HolderMessage)
  BY DEF HandleCall, holderVars, TypeInv, QueueTypes, ChannelTypes
<1>3. CASE /\ delivered' = [delivered EXCEPT ![p] = Append(@, c)]
           /\ UNCHANGED <<queue, toHolder>>
  <2>1. \A q \in Promises : \A x \in Range(delivered'[q]) :
          x \in Range(delivered[q]) \/ x <= made'
    BY <1>1, <1>2, <1>3, DeliverAdds
  <2>2. QueuesNamed'
    BY <1>2, <1>3, <2>1, QueuesStayNamed
  <2> QED BY <1>3, <2>2, ForwardsStayNamed
<1>4. CASE /\ client[p] \in {"none", "broken"}
           /\ queue' = queue \/ queue' = [queue EXCEPT ![p] = Append(@, c)]
           /\ UNCHANGED <<delivered, toHolder>>
  <2>1. \A q \in Promises :
          \/ queue'[q] = queue[q]
          \/ q = p /\ queue'[q] = Append(queue[q], c)
    BY <1>2, <1>4
  <2>2. QueuesNamed'
    BY <1>1, <1>2, <1>4, <2>1, QueuesStayNamed
  <2> QED BY <1>4, <2>2, ForwardsStayNamed
<1>5. CASE /\ client[p] = "back"
           /\ toHolder' = Append(toHolder, Msg("call", 0, c, "none"))
           /\ UNCHANGED <<delivered, queue>>
  <2> DEFINE m == Msg("call", 0, c, "none")
  <2>1. m \in HolderMessage /\ m.num = c
    BY <1>1, MessagesTyped DEF Msg
  <2> HIDE DEF m
  <2>2. Range(toHolder') = Range(toHolder) \cup {m}
    BY <1>2, <1>5, <2>1, RangeOfAppend DEF m
  <2>3. ForwardNamed(c)'
    BY <1>1, <1>2, <1>5 DEF ForwardNamed
  <2>4. ForwardsNamed'
    BY <2>1, <2>2, <2>3, ForwardsStayNamed
  <2>5. QueuesNamed'
    BY <1>2, <1>5, QueuesStayNamed
  <2> QED BY <2>4, <2>5
<1> QED BY <1>1, <1>3, <1>4, <1>5

\* Steps that send the holder no call and deliver at most one.
LEMMA OtherStepsKeepQueues ==
  ASSUME TypeInv, TypeInv', ForwardsNamed, QueuesNamed, EmbargoedNamed, HistoryKept,
         \/ \E p \in Promises : QuestionSettles(p)
         \/ HandleRelease \/ HandleSenderLoopback \/ HolderStep \/ UNCHANGED vars
         \/ \E i \in Ids : Call(i) \/ CloseRef(i)
  PROVE  ForwardsNamed' /\ QueuesNamed'
<1>1. /\ ChannelTypes /\ toHolder \in Seq(HolderMessage) /\ queue \in [Promises -> Seq(Calls)]
      /\ embargoed \in [Ids -> Seq(Calls)] /\ made \in Int
  BY DEF TypeInv, ChannelTypes, QueueTypes, EmbargoTypes, HolderTypes
<1>2. ForwardsNamed'
  <2>1. CASE toHolder' = toHolder
    BY <2>1, ForwardsStayNamed
  <2>2. CASE toHolder # <<>> /\ toHolder' = Tail(toHolder)
    BY <1>1, <2>2, RangeOfTail, ForwardsStayNamed
  <2>3. CASE HandleSenderLoopback
    <3> DEFINE m == Msg("echo", 0, Head(toHost).num, "none")
    <3>1. Head(toHost) \in HostMessage /\ Head(toHost).type = "loopback"
      BY <1>1, <2>3, HostTakesTyped DEF HandleSenderLoopback
    <3>2. m \in HolderMessage /\ m.type = "echo"
      BY <3>1, HostMessageFields, MessagesTyped DEF Msg
    <3>3. toHolder' = Append(toHolder, m)
      BY <2>3 DEF HandleSenderLoopback
    <3> HIDE DEF m
    <3>4. Range(toHolder') = Range(toHolder) \cup {m}
      BY <1>1, <3>2, <3>3, RangeOfAppend
    <3> QED BY <3>2, <3>4, ForwardsStayNamed
  <2>4. toHolder' = toHolder \/ (toHolder # <<>> /\ toHolder' = Tail(toHolder)) \/ HandleSenderLoopback
    BY DEF QuestionSettles, HandleRelease, HolderStep, HandlePromise, HandleResolve,
         HandleForwarded, HandleReceiverLoopback, LiftNext, LiftReturns, LiftEnds, HolderTakes,
         Call, CloseRef, vars
  <2> QED BY <2>1, <2>2, <2>3, <2>4
<1>3. UNCHANGED client
  BY DEF QuestionSettles, HandleRelease, HandleSenderLoopback, HolderStep, HandlePromise,
       HandleResolve, HandleForwarded, HandleReceiverLoopback, LiftNext, LiftReturns, LiftEnds,
       Call, CloseRef, hostVars, vars
<1>4. \A p \in Promises : queue'[p] = <<>> \/ queue'[p] = queue[p]
  <2>1. queue' = queue \/ \E e : queue' = [queue EXCEPT ![e] = <<>>]
    BY DEF QuestionSettles, HandleRelease, HandleSenderLoopback, HolderStep, HandlePromise,
         HandleResolve, HandleForwarded, HandleReceiverLoopback, LiftNext, LiftReturns, LiftEnds,
         Call, CloseRef, hostVars, vars
  <2> QED BY <1>1, <2>1
<1>5. \A p \in Promises : \A x \in Range(delivered'[p]) : x \in Range(delivered[p]) \/ x <= made'
  <2>1. CASE delivered' = delivered
    BY <2>1
  <2>2. ASSUME NEW c \in Calls, c <= made', NEW q,
               delivered' = [delivered EXCEPT ![q] = Append(@, c)]
        PROVE  \A p \in Promises : \A x \in Range(delivered'[p]) :
                 x \in Range(delivered[p]) \/ x <= made'
    BY <2>2, DeliverAdds
  <2>3. CASE HandleForwarded
    <3> DEFINE m == Head(toHolder)
    <3>1. m \in HolderMessage /\ m.type = "call" /\ toHolder # <<>>
      BY <1>1, <2>3, HolderTakesTyped DEF HandleForwarded
    <3>2. m.num \in Calls /\ m \in Range(toHolder)
      BY <1>1, <3>1, HolderMessageFields, RangeOfTail
    <3>3. m.num <= made /\ made' = made
      BY <2>3, <3>1, <3>2 DEF ForwardsNamed, ForwardNamed, HandleForwarded, holderVars
    <3>4. delivered' = [delivered EXCEPT ![via[m.num]] = Append(@, m.num)]
      BY <2>3 DEF HandleForwarded, Deliver
    <3> HIDE DEF m
    <3> QED BY <2>2, <3>2, <3>3, <3>4
  <2>4. CASE LiftNext
    <3> DEFINE s == embargoed[flushing]
               c == Head(s)
    <3>1. flushing \in Ids /\ s # <<>> /\ made' = made
          /\ delivered' = [delivered EXCEPT ![via[c]] = Append(@, c)]
      BY <2>4 DEF LiftNext, Deliver, TypeInv, HolderTypes
    <3>2. s \in Seq(Calls)
      BY <1>1, <3>1
    <3> HIDE DEF s
    <3>3. c \in Calls /\ c \in Range(s)
      BY <3>1, <3>2, RangeOfTail
    <3>4. c <= made
      BY <3>1, <3>3 DEF EmbargoedNamed, s
    <3> HIDE DEF c
    <3> QED BY <2>2, <3>1, <3>3, <3>4
  <2>5. ASSUME NEW i \in Ids, Call(i)
        PROVE  \A p \in Promises : \A x \in Range(delivered'[p]) :
                 x \in Range(delivered[p]) \/ x <= made'
    <3>1. made + 1 \in Calls /\ made' = made + 1 /\ made' <= made'
      BY <1>1, <2>5 DEF Call, Calls, TypeInv, HolderTypes
    <3>2. delivered' = delivered
            \/ delivered' = [delivered EXCEPT ![imports[i].of] = Append(@, made + 1)]
      BY <2>5 DEF Call, CallOut
    <3> QED BY <2>1, <2>2, <3>1, <3>2
  <2>6. \/ delivered' = delivered \/ HandleForwarded \/ LiftNext \/ \E i \in Ids : Call(i)
    BY DEF QuestionSettles, HandleRelease, HandleSenderLoopback, HolderStep, HandlePromise,
         HandleResolve, HandleReceiverLoopback, LiftReturns, LiftEnds, CloseRef, vars
  <2> QED BY <2>1, <2>3, <2>4, <2>5, <2>6
<1>6. QueuesNamed'
  BY <1>3, <1>4, <1>5, QueuesStayNamed
<1> QED BY <1>2, <1>6

LEMMA StepKeepsEmbargoed ==
  ASSUME TypeInv, TypeInv', AnswerInv, ResolveInv, EmbargoedNamed, HistoryKept, [Next]_vars
  PROVE  EmbargoedNamed'
<1>1. /\ ChannelTypes /\ embargoed \in [Ids -> Seq(Calls)] /\ made \in Int /\ made' \in Int
      /\ imports \in [Ids -> ImportEntry] /\ \A c \in Calls : c \in Int
      /\ via \in [Calls -> {0} \cup Promises]
  BY DEF TypeInv, EmbargoTypes, HolderTypes, Calls
<1> SUFFICES ASSUME NEW i \in Ids
             PROVE  /\ embargoed'[i] # <<>>
                         => imports'[i].refs > 0 /\ imports'[i].resolved = "back"
                    /\ \A c \in Range(embargoed'[i]) : c <= made' /\ via'[c] = imports'[i].of
  BY DEF EmbargoedNamed
<1>2. /\ embargoed[i] \in Seq(Calls) /\ Range(embargoed[i]) \subseteq Calls /\ Range(<<>>) = {}
      /\ embargoed[i] # <<>> => imports[i].refs > 0 /\ imports[i].resolved = "back"
      /\ \A c \in Range(embargoed[i]) : c <= made' /\ via'[c] = imports[i].of
  BY <1>1, RangeTyped, RangeOfEmpty DEF EmbargoedNamed, HistoryKept
<1>3. CASE embargoed'[i] = <<>>
  BY <1>2, <1>3
<1>4. CASE /\ embargoed[i] # <<>> => imports'[i].resolved = imports[i].resolved
           /\ embargoed[i] # <<>> => imports'[i].refs > 0 /\ imports'[i].of = imports[i].of
           /\ \/ embargoed'[i] = embargoed[i]
              \/ embargoed[i] # <<>> /\ embargoed'[i] = Tail(embargoed[i])
  <2>1. CASE embargoed'[i] = embargoed[i]
    BY <1>2, <1>3, <1>4, <2>1
  <2>2. CASE embargoed[i] # <<>> /\ embargoed'[i] = Tail(embargoed[i])
    <3>1. Range(embargoed'[i]) \subseteq Range(embargoed[i])
      BY <1>2, <2>2, RangeOfTail
    <3> QED BY <1>2, <1>4, <2>2, <3>1
  <2> QED BY <1>4, <2>1, <2>2
<1>5. CASE imports' = imports /\ embargoed'[i] = embargoed[i]
  BY <1>2, <1>4, <1>5
<1>6. CASE HandlePromise
  <2>1. embargoed' = embargoed
    BY <1>6 DEF HandlePromise
  <2>2. /\ Head(toHolder).id \in Ids /\ \A j \in Ids : j # Head(toHolder).id => imports'[j] = imports[j]
        /\ imports'[Head(toHolder).id].refs > 0
        /\ imports[Head(toHolder).id].refs > 0 =>
             /\ imports'[Head(toHolder).id].of = imports[Head(toHolder).id].of
             /\ imports'[Head(toHolder).id].resolved = imports[Head(toHolder).id].resolved
    BY <1>6, HandlePromiseImports
  <2> QED BY <1>2, <1>4, <2>1, <2>2
<1>7. CASE HandleResolve
  <2>1. embargoed' = embargoed
    BY <1>7 DEF HandleResolve
  <2>2. \/ imports' = imports
        \/ /\ imports[Head(toHolder).id].resolved = "none"
           /\ \A j \in Ids : j # Head(toHolder).id => imports'[j] = imports[j]
    BY <1>7, HandleResolveImports DEF ResolveInv
  <2> QED BY <1>2, <1>4, <2>1, <2>2
<1>8. CASE HandleReceiverLoopback
  <2>1. embargoed' = embargoed
    BY <1>8 DEF HandleReceiverLoopback
  <2>2. /\ imports'[i].refs = imports[i].refs /\ imports'[i].of = imports[i].of
        /\ imports'[i].resolved = imports[i].resolved
    <3>1. imports' = imports \/ \E j : imports' = [imports EXCEPT ![j].embargo = 0]
      BY <1>8 DEF HandleReceiverLoopback
    <3>2. ASSUME NEW j, imports' = [imports EXCEPT ![j].embargo = 0]
          PROVE  /\ imports'[i].refs = imports[i].refs /\ imports'[i].of = imports[i].of
                 /\ imports'[i].resolved = imports[i].resolved
      BY <1>1, <3>2 DEF ImportEntry
    <3> QED BY <3>1, <3>2
  <2> QED BY <1>2, <1>4, <2>1, <2>2
<1>9. CASE LiftNext
  <2>1. /\ imports' = imports /\ embargoed[flushing] # <<>>
        /\ embargoed' = [embargoed EXCEPT ![flushing] = Tail(@)]
    BY <1>9 DEF LiftNext
  <2> QED BY <1>1, <1>2, <1>4, <2>1
<1>10. ASSUME NEW j \in Ids, CloseRef(j)
       PROVE  /\ embargoed'[i] # <<>>
                   => imports'[i].refs > 0 /\ imports'[i].resolved = "back"
              /\ \A c \in Range(embargoed'[i]) : c <= made' /\ via'[c] = imports'[i].of
  <2>1. CASE embargoed' = embargoed /\ imports' = [imports EXCEPT ![j].local = @ - 1]
    <3>1. /\ imports'[i].refs = imports[i].refs /\ imports'[i].of = imports[i].of
          /\ imports'[i].resolved = imports[i].resolved
      BY <1>1, <2>1 DEF ImportEntry
    <3> QED BY <1>2, <1>4, <2>1, <3>1
  <2>2. CASE /\ embargoed' = [embargoed EXCEPT ![j] = <<>>]
             /\ imports' = [imports EXCEPT ![j] = NoImport]
    BY <1>1, <1>2, <1>3, <1>4, <2>2
  <2> QED BY <1>10, <2>1, <2>2 DEF CloseRef, CloseImport
<1>11. ASSUME NEW j \in Ids, Call(j)
       PROVE  /\ embargoed'[i] # <<>>
                   => imports'[i].refs > 0 /\ imports'[i].resolved = "back"
              /\ \A c \in Range(embargoed'[i]) : c <= made' /\ via'[c] = imports'[i].of
  <2>1. imports' = imports /\ via' = [via EXCEPT ![made + 1] = imports[j].of] /\ made' = made + 1
    BY <1>11 DEF Call
  <2>2. \/ embargoed' = embargoed
        \/ /\ imports[j].resolved = "back"
           /\ embargoed' = [embargoed EXCEPT ![j] = Append(@, made + 1)]
    BY <1>11 DEF Call, CallOut
  <2>3. CASE i = j /\ imports[j].resolved = "back" /\ embargoed'[i] = Append(embargoed[i], made + 1)
    <3>1. made + 1 \in Calls
      BY <1>1, <1>11 DEF Call, Calls, TypeInv, HolderTypes
    <3>2. Range(embargoed'[i]) = Range(embargoed[i]) \cup {made + 1}
      BY <1>2, <2>3, <3>1, RangeOfAppend
    <3>3. imports[j].refs > 0
      BY <2>3 DEF AnswerInv, ImportsSettled
    <3>4. via'[made + 1] = imports[i].of
      BY <1>1, <2>1, <2>3, <3>1
    <3> QED BY <1>1, <1>2, <2>1, <2>3, <3>2, <3>3, <3>4
  <2> QED BY <1>1, <1>5, <2>1, <2>2, <2>3
<1>12. CASE \/ \E p \in Promises : PassPromise(p) \/ QuestionSettles(p)
            \/ HostStep \/ HandleForwarded \/ LiftReturns \/ LiftEnds \/ UNCHANGED vars
  <2>1. UNCHANGED <<imports, embargoed>>
    BY <1>12 DEF PassPromise, QuestionSettles, HostStep, Continue, HandleCall, HandleRelease,
         HandleSenderLoopback, HandleForwarded, LiftReturns, LiftEnds, vars, holderVars
  <2> QED BY <1>5, <2>1
<1> QED BY <1>6, <1>7, <1>8, <1>9, <1>10, <1>11, <1>12 DEF Next, HolderStep

LEMMA CallKeepsCallsNamed ==
  ASSUME TypeInv, TypeInv', RefInv, RefInv', AnswerInv, CallsNamed, HistoryKept,
         NEW i \in Ids, Call(i)
  PROVE  CallsNamed'
<1>0. PICK c, n : c = made + 1 /\ n = Len(toHost) + 1
  OBVIOUS
<1>1. /\ ChannelTypes /\ made \in Int /\ imports \in [Ids -> ImportEntry]
      /\ via \in [Calls -> {0} \cup Promises]
      /\ imports[i].refs >= imports[i].local
  BY DEF TypeInv, HolderTypes
<1>2. /\ UNCHANGED <<imports, client, entry>> /\ made' = c /\ imports[i].local > 0
      /\ via' = [via EXCEPT ![c] = imports[i].of] /\ c \in Calls
  BY <1>0, <1>1 DEF Call, hostVars, Calls, TypeInv, HolderTypes
<1>3. imports[i].refs > 0
  BY <1>1, <1>2 DEF ImportEntry
<1>4. entry[i] = imports[i].of /\ imports[i].of \in Promises /\ via'[c] = imports[i].of
  <2>1. entry[i] = imports[i].of
    BY <1>3 DEF AnswerInv, ImportsAgree
  <2>2. entry[i] # 0
    BY <1>3, NamedIsLiveInStep DEF NamedLive
  <2> QED BY <1>1, <1>2, <2>1, <2>2 DEF TypeInv, TableTypes
<1>5. CASE toHost' = toHost
  BY <1>1, <1>2, <1>5, HostQueueMoves, CallsStayNamed
<1>6. CASE /\ imports[i].resolved \in {"none", "known"}
           /\ toHost' = Append(toHost,
                Msg("call", IF imports[i].resolved = "none" THEN i ELSE 0, c, "none"))
  <2> DEFINE m == Msg("call", IF imports[i].resolved = "none" THEN i ELSE 0, c, "none")
  <2>1. m \in HostMessage /\ m.num = c /\ m.id = IF imports[i].resolved = "none" THEN i ELSE 0
    BY <1>2, MessagesTyped DEF Msg
  <2> HIDE DEF m
  <2>2. /\ n \in DOMAIN toHost' /\ toHost'[n] = m
        /\ \A k \in DOMAIN toHost' : k # n =>
             k + 0 \in DOMAIN toHost /\ toHost'[k] = toHost[k + 0] /\ k < n
        /\ \A j \in DOMAIN toHost : j - 0 \in DOMAIN toHost' /\ toHost'[j - 0] = toHost[j]
    BY <1>0, <1>1, <1>6, <2>1, HostQueueMoves DEF m
  <2>3. c \in Int
    BY <1>2 DEF Calls
  <2>4. imports[i].resolved = "known" => client'[imports[i].of] = "known"
    BY <1>2 DEF AnswerInv, ImportsSettled, Outcome
  <2>5. CallNamed(n)'
    <3>1. CASE imports[i].resolved = "none"
      BY <1>2, <1>3, <1>4, <2>1, <2>2, <2>3, <3>1, IdsArePositive DEF CallNamed
    <3>2. CASE imports[i].resolved # "none"
      BY <1>2, <1>4, <1>6, <2>1, <2>2, <2>3, <2>4, <3>2 DEF CallNamed
    <3> QED BY <3>1, <3>2
  <2> QED BY <1>2, <2>2, <2>5, CallsStayNamed
<1> QED BY <1>0, <1>5, <1>6 DEF Call, CallOut

LEMMA InitHomeInv == Init => HomeInv
<1> SUFFICES ASSUME Init PROVE HomeInv
  OBVIOUS
<1>1. CallsNamed
  BY DEF Init, CallsNamed
<1>2. ForwardsNamed /\ QueuesNamed /\ EmbargoedNamed
  BY RangeOfEmpty DEF Init, ForwardsNamed, QueuesNamed, EmbargoedNamed
<1> QED BY <1>1, <1>2 DEF HomeInv

LEMMA NextKeepsHomeInv ==
  TypeInv /\ TypeInv' /\ RefInv /\ RefInv' /\ AnswerInv /\ ResolveInv /\ HomeInv /\ [Next]_vars
    => HomeInv'
<1> SUFFICES ASSUME TypeInv, TypeInv', RefInv, RefInv', AnswerInv, ResolveInv, HomeInv, [Next]_vars
             PROVE  HomeInv'
  OBVIOUS
<1>1. HistoryKept /\ CallsNamed /\ ForwardsNamed /\ QueuesNamed /\ EmbargoedNamed
  BY StepKeepsHistory DEF HomeInv
<1>2. CallsNamed'
  BY <1>1, OtherStepsKeepCallsNamed, CallKeepsCallsNamed DEF Next
<1>3. ForwardsNamed' /\ QueuesNamed'
  <2>1. CASE \E p \in Promises : PassPromise(p)
    BY <1>1, <2>1, PassPromiseKeepsQueues
  <2>2. CASE \E p \in Promises, i \in Ids : Continue(p, i)
    BY <1>1, <2>2, ContinueKeepsQueues
  <2>3. CASE HandleCall
    BY <1>1, <2>3, HandleCallKeepsQueues
  <2> QED BY <1>1, <2>1, <2>2, <2>3, OtherStepsKeepQueues DEF Next, HostStep
<1>4. EmbargoedNamed'
  BY <1>1, StepKeepsEmbargoed
<1> QED BY <1>2, <1>3, <1>4 DEF HomeInv

LEMMA HomeInvHolds ==
  ASSUME "reuse pending" \notin Uses
  PROVE  Spec => []HomeInv
<1>1. TypeInv /\ TypeInv' /\ RefInv /\ RefInv' /\ AnswerInv /\ ResolveInv /\ HomeInv /\ [Next]_vars
        => HomeInv'
  BY NextKeepsHomeInv
<1> QED BY <1>1, InitHomeInv, TypeInvHolds, RefInvHolds, AnswerInvHolds, ResolveInvHolds, PTL
       DEF Spec

-----------------------------------------------------------------------------
(* A line in order stays in order when calls leave it, when the first call  *)
(* of a part moves behind the parts ahead of it, when all that is queued    *)
(* moves on, and when the last call made joins it.                          *)

\* Where a call stood that moved up in the parts T.
Back(x, T) == IF x[1] \in T THEN <<x[1], x[2] + 1, x[3]>> ELSE x

LEMMA PlaceFields ==
  ASSUME NEW x \in Places
  PROVE  /\ x = <<x[1], x[2], x[3]>> /\ x[1] \in 0..4 /\ x[2] \in Nat /\ x[2] >= 1
         /\ x[3] \in Calls /\ x[3] \in Int
         /\ <<x[1], x[2] + 1, x[3]>> \in Places
BY DEF Places, Calls

LEMMA BackFields ==
  ASSUME NEW x \in Places, NEW T
  PROVE  \E u \in Places : /\ u = Back(x, T) /\ u[1] = x[1] /\ u[3] = x[3]
                           /\ u[2] = IF x[1] \in T THEN x[2] + 1 ELSE x[2]
<1>1. CASE x[1] \in T
  <2>1. Back(x, T) = <<x[1], x[2] + 1, x[3]>>
    BY <1>1 DEF Back
  <2>2. <<x[1], x[2] + 1, x[3]>> \in Places
    BY PlaceFields
  <2> QED BY <1>1, <2>1, <2>2
<1>2. CASE x[1] \notin T
  <2>1. Back(x, T) = x
    BY <1>2 DEF Back
  <2> QED BY <1>2, <2>1
<1> QED BY <1>1, <1>2

LEMMA ShrinkKeepsOrder ==
  ASSUME NEW L \in SUBSET Places, NEW M \in SUBSET Places, InOrder(L), NEW T,
         \A x \in M : Back(x, T) \in L
  PROVE  InOrder(M)
<1> SUFFICES ASSUME NEW x \in M, NEW y \in M, Before(x, y) PROVE x[3] < y[3]
  BY DEF InOrder
<1>1. PICK u \in Places : /\ u = Back(x, T) /\ u[1] = x[1] /\ u[3] = x[3]
                         /\ u[2] = IF x[1] \in T THEN x[2] + 1 ELSE x[2]
  BY BackFields
<1>2. PICK w \in Places : /\ w = Back(y, T) /\ w[1] = y[1] /\ w[3] = y[3]
                         /\ w[2] = IF y[1] \in T THEN y[2] + 1 ELSE y[2]
  BY BackFields
<1>3. u \in L /\ w \in L
  BY <1>1, <1>2
<1>4. x[1] \in 0..4 /\ x[2] \in Nat /\ y[1] \in 0..4 /\ y[2] \in Nat
  BY PlaceFields
<1>5. Before(u, w)
  BY <1>1, <1>2, <1>4 DEF Before
<1> QED BY <1>1, <1>2, <1>3, <1>5 DEF InOrder

LEMMA MoveKeepsOrder ==
  ASSUME NEW L \in SUBSET Places, NEW M \in SUBSET Places, InOrder(L),
         NEW T, NEW a \in T, NEW y \in Places, a \in 0..4, y[1] < a, <<a, 1, y[3]>> \in L,
         \A x \in M : x = y \/ (Back(x, T) \in L /\ (Before(x, y) \/ x[1] >= a))
  PROVE  InOrder(M)
<1>1. PICK z \in L : z[1] = a /\ z[2] = 1 /\ z[3] = y[3]
  OBVIOUS
<1> SUFFICES ASSUME NEW u \in M, NEW w \in M, Before(u, w) PROVE u[3] < w[3]
  BY DEF InOrder
<1>2. /\ y[1] \in 0..4 /\ y[2] \in Nat
      /\ u[1] \in 0..4 /\ u[2] \in Nat /\ u[2] >= 1
      /\ w[1] \in 0..4 /\ w[2] \in Nat /\ w[2] >= 1
  BY PlaceFields
<1>3. PICK v \in Places : /\ v = Back(u, T) /\ v[1] = u[1] /\ v[3] = u[3]
                         /\ v[2] = IF u[1] \in T THEN u[2] + 1 ELSE u[2]
  BY BackFields
<1>4. PICK x \in Places : /\ x = Back(w, T) /\ x[1] = w[1] /\ x[3] = w[3]
                         /\ x[2] = IF w[1] \in T THEN w[2] + 1 ELSE w[2]
  BY BackFields
<1>5. /\ u # y => v \in L /\ (Before(u, y) \/ u[1] >= a)
      /\ w # y => x \in L /\ (Before(w, y) \/ w[1] >= a)
  BY <1>3, <1>4
<1>6. CASE u = y /\ w = y
  BY <1>2, <1>6 DEF Before
<1>7. CASE u = y /\ w # y
  <2>1. w[1] >= a
    BY <1>2, <1>5, <1>7 DEF Before
  <2>2. Before(z, x)
    BY <1>1, <1>2, <1>4, <2>1 DEF Before
  <2> QED BY <1>1, <1>4, <1>5, <1>7, <2>2 DEF InOrder
<1>8. CASE u # y /\ w = y
  <2>1. u[1] < a
    BY <1>2, <1>8 DEF Before
  <2>2. Before(v, z)
    BY <1>1, <1>2, <1>3, <2>1 DEF Before
  <2> QED BY <1>1, <1>3, <1>5, <1>8, <2>2 DEF InOrder
<1>9. CASE u # y /\ w # y
  <2>1. Before(v, x)
    BY <1>2, <1>3, <1>4 DEF Before
  <2> QED BY <1>3, <1>4, <1>5, <1>9, <2>1 DEF InOrder
<1> QED BY <1>6, <1>7, <1>8, <1>9

LEMMA NewKeepsOrder ==
  ASSUME NEW L \in SUBSET Places, NEW M \in SUBSET Places, InOrder(L), NEW y \in Places,
         \A x \in L : x[3] < y[3],
         \A x \in M : x = y \/ (x \in L /\ Before(x, y))
  PROVE  InOrder(M)
<1> SUFFICES ASSUME NEW u \in M, NEW w \in M, Before(u, w) PROVE u[3] < w[3]
  BY DEF InOrder
<1>1. /\ u[1] \in 0..4 /\ u[2] \in Nat /\ w[1] \in 0..4 /\ w[2] \in Nat
      /\ y[1] \in 0..4 /\ y[2] \in Nat
  BY PlaceFields
<1>2. w = y => u # y
  BY <1>1 DEF Before
<1>3. u = y => w = y
  BY <1>1 DEF Before
<1> QED BY <1>2, <1>3 DEF InOrder

\* The queue moves as a whole behind what went before: part b, from position n.
LEMMA FlushKeepsOrder ==
  ASSUME NEW L \in SUBSET Places, NEW M \in SUBSET Places, InOrder(L),
         NEW b \in {0, 1}, NEW n \in Nat,
         \A x \in M :
           \/ x \in L /\ (x[1] > 2 \/ (x[1] = 0 /\ (b = 0 => x[2] <= n)))
           \/ x[1] = b /\ x[2] > n /\ <<2, x[2] - n, x[3]>> \in L
  PROVE  InOrder(M)
<1> SUFFICES ASSUME NEW u \in M, NEW w \in M, Before(u, w) PROVE u[3] < w[3]
  BY DEF InOrder
<1>1. ASSUME NEW x \in M
      PROVE  \E z \in L : /\ z[3] = x[3] /\ x[1] \in 0..4 /\ x[2] \in Nat
                          /\ \/ z = x /\ (x[1] > 2 \/ (x[1] = 0 /\ (b = 0 => x[2] <= n)))
                             \/ x[1] = b /\ x[2] > n /\ z[1] = 2 /\ z[2] = x[2] - n
  <2>1. x[1] \in 0..4 /\ x[2] \in Nat
    BY PlaceFields
  <2> QED BY <2>1
<1>2. PICK v \in L : /\ v[3] = u[3] /\ u[1] \in 0..4 /\ u[2] \in Nat
                    /\ \/ v = u /\ (u[1] > 2 \/ (u[1] = 0 /\ (b = 0 => u[2] <= n)))
                       \/ u[1] = b /\ u[2] > n /\ v[1] = 2 /\ v[2] = u[2] - n
  BY <1>1
<1>3. PICK x \in L : /\ x[3] = w[3] /\ w[1] \in 0..4 /\ w[2] \in Nat
                    /\ \/ x = w /\ (w[1] > 2 \/ (w[1] = 0 /\ (b = 0 => w[2] <= n)))
                       \/ w[1] = b /\ w[2] > n /\ x[1] = 2 /\ x[2] = w[2] - n
  BY <1>1
<1>4. Before(v, x)
  BY <1>2, <1>3 DEF Before
<1> QED BY <1>2, <1>3, <1>4 DEF InOrder

-----------------------------------------------------------------------------
(* What each step makes of the lines.                                       *)

LEMMA ElementsAfterTail ==
  ASSUME NEW S, NEW s \in Seq(S), NEW x \in Places, s # <<>>, NEW t, t = Tail(s), IsAt(t, x)
  PROVE  IsAt(s, <<x[1], x[2] + 1, x[3]>>)
<1>1. x[2] \in DOMAIN t /\ t[x[2]] = x[3]
  BY DEF IsAt
<1>2. x[2] + 1 \in DOMAIN s /\ t[x[2]] = s[x[2] + 1]
  BY <1>1, PositionsOfTail
<1> QED BY <1>1, <1>2 DEF IsAt

LEMMA NothingAtEmpty == \A x : ~ IsAt(<<>>, x)
BY DEF IsAt

LEMMA CallsAfterTail ==
  ASSUME NEW S, NEW s \in Seq(S), NEW x \in Places, s # <<>>, NEW t, t = Tail(s), CallAt(t, x)
  PROVE  CallAt(s, <<x[1], x[2] + 1, x[3]>>)
<1>1. x[2] \in DOMAIN t /\ t[x[2]].type = "call" /\ t[x[2]].num = x[3]
  BY DEF CallAt
<1>2. x[2] + 1 \in DOMAIN s /\ t[x[2]] = s[x[2] + 1]
  BY <1>1, PositionsOfTail
<1> QED BY <1>1, <1>2 DEF CallAt

\* What is held stays held by the same import, or goes.
LEMMA HeldStays ==
  ASSUME TypeInv, EmbargoedNamed,
         \A i \in Ids : /\ embargoed'[i] \in {<<>>, embargoed[i]}
                        /\ imports[i].refs > 0 /\ imports'[i].refs > 0
                             => imports'[i].of = imports[i].of
  PROVE  \A p \in Promises, x \in Places : HeldAt(p, x)' => HeldAt(p, x)
<1> SUFFICES ASSUME NEW p \in Promises, NEW x \in Places, NEW i \in Ids,
                    imports'[i].refs > 0, imports'[i].of = p, IsAt(embargoed'[i], x)
             PROVE  HeldAt(p, x)
  BY DEF HeldAt
<1>1. embargoed[i] \in Seq(Calls)
  BY DEF TypeInv, EmbargoTypes
<1>2. embargoed'[i] = embargoed[i] /\ embargoed[i] # <<>>
  BY <1>1, NothingAtEmpty
<1> QED BY <1>2 DEF EmbargoedNamed, HeldAt

LineKept(p, T) == \A x \in Line(p)' : x \in Places /\ Back(x, T) \in Line(p)

\* The parts whose first message is taken.
Taken == {a \in {1, 3} : \/ a = 1 /\ toHolder # <<>> /\ toHolder' = Tail(toHolder)
                         \/ a = 3 /\ toHost # <<>> /\ toHost' = Tail(toHost)}

LEMMA QuietLinesKept ==
  ASSUME TypeInv, TypeInv', AnswerInv, ResolveInv, HomeInv,
         \/ \E p \in Promises : PassPromise(p) \/ QuestionSettles(p)
         \/ HandleRelease \/ HandleSenderLoopback
         \/ HandlePromise \/ HandleResolve \/ HandleReceiverLoopback
         \/ LiftReturns \/ LiftEnds \/ UNCHANGED vars
         \/ \E i \in Ids : CloseRef(i)
  PROVE  \A p \in Promises : LineKept(p, Taken)
<1> DEFINE T == Taken
<1>1. /\ ChannelTypes /\ toHolder \in Seq(HolderMessage) /\ toHost \in Seq(HostMessage)
      /\ queue \in [Promises -> Seq(Calls)] /\ imports \in [Ids -> ImportEntry]
      /\ embargoed \in [Ids -> Seq(Calls)] /\ EmbargoedNamed
  BY DEF TypeInv, ChannelTypes, QueueTypes, HolderTypes, EmbargoTypes, HomeInv
<1>2. UNCHANGED <<via, reentered, delivered>>
  BY DEF PassPromise, QuestionSettles, HandleRelease, HandleSenderLoopback, HandlePromise,
         HandleResolve, HandleReceiverLoopback, LiftReturns, LiftEnds, CloseRef, vars, holderVars
<1>3. \A p \in Promises : queue'[p] \in {<<>>, queue[p]}
  <2>1. queue' = queue \/ \E e : queue' = [queue EXCEPT ![e] = <<>>]
    BY DEF PassPromise, PassAgain, PassNew, QuestionSettles, HandleRelease, HandleSenderLoopback,
         HandlePromise, HandleResolve, HandleReceiverLoopback, LiftReturns, LiftEnds, CloseRef,
         vars, hostVars
  <2> QED BY <1>1, <2>1
<1>4. \A p \in Promises, x \in Places : HeldAt(p, x)' => HeldAt(p, x)
  <2>1. \A i \in Ids : /\ embargoed'[i] \in {<<>>, embargoed[i]}
                       /\ imports[i].refs > 0 /\ imports'[i].refs > 0
                            => imports'[i].of = imports[i].of
    <3>1. CASE UNCHANGED <<embargoed, imports>>
      BY <3>1
    <3>2. CASE HandlePromise
      <4>1. embargoed' = embargoed
        BY <3>2 DEF HandlePromise
      <4> QED BY <3>2, <4>1, HandlePromiseImports
    <3>3. CASE HandleResolve
      <4>1. embargoed' = embargoed
        BY <3>3 DEF HandleResolve
      <4>2. \/ imports' = imports
            \/ /\ imports[Head(toHolder).id].of = Head(toHolder).num
               /\ imports'[Head(toHolder).id].of = Head(toHolder).num
               /\ \A i \in Ids : i # Head(toHolder).id => imports'[i] = imports[i]
        BY <3>3, HandleResolveImports DEF ResolveInv
      <4> QED BY <4>1, <4>2
    <3>4. CASE HandleReceiverLoopback
      <4>1. embargoed' = embargoed
              /\ (imports' = imports \/ \E j : imports' = [imports EXCEPT ![j].embargo = 0])
        BY <3>4 DEF HandleReceiverLoopback
      <4>2. ASSUME NEW j, imports' = [imports EXCEPT ![j].embargo = 0], NEW i \in Ids
            PROVE  imports'[i].of = imports[i].of
        BY <1>1, <4>2 DEF ImportEntry
      <4> QED BY <4>1, <4>2
    <3>5. ASSUME NEW j \in Ids, CloseRef(j), NEW i \in Ids
          PROVE  /\ embargoed'[i] \in {<<>>, embargoed[i]}
                 /\ imports[i].refs > 0 /\ imports'[i].refs > 0
                      => imports'[i].of = imports[i].of
      <4>1. CASE embargoed' = embargoed /\ imports' = [imports EXCEPT ![j].local = @ - 1]
        BY <1>1, <4>1 DEF ImportEntry
      <4>2. CASE /\ embargoed' = [embargoed EXCEPT ![j] = <<>>]
                 /\ imports' = [imports EXCEPT ![j] = NoImport]
        BY <1>1, <4>2 DEF NoImport
      <4> QED BY <3>5, <4>1, <4>2 DEF CloseRef, CloseImport
    <3>6. \/ HandlePromise \/ HandleResolve \/ HandleReceiverLoopback \/ \E i \in Ids : CloseRef(i)
          \/ UNCHANGED <<embargoed, imports>>
      BY DEF PassPromise, QuestionSettles, HandleRelease, HandleSenderLoopback, LiftReturns,
             LiftEnds, vars, holderVars
    <3> QED BY <3>1, <3>2, <3>3, <3>4, <3>5, <3>6
  <2> QED BY <1>1, <2>1, HeldStays
<1>5. \A x \in Places : x[1] = 1 /\ CallAt(toHolder', x) => CallAt(toHolder, Back(x, T))
  <2> SUFFICES ASSUME NEW x \in Places, x[1] = 1, CallAt(toHolder', x)
               PROVE  CallAt(toHolder, Back(x, T))
    OBVIOUS
  <2>1. CASE toHolder # <<>> /\ toHolder' = Tail(toHolder)
    <3>1. Back(x, T) = <<x[1], x[2] + 1, x[3]>>
      BY <2>1 DEF Back, Taken
    <3> QED BY <1>1, <2>1, <3>1, CallsAfterTail
  <2>2. CASE ~ (toHolder # <<>> /\ toHolder' = Tail(toHolder))
    <3>1. Back(x, T) = x
      BY <2>2 DEF Back, Taken
    <3>2. \/ toHolder' = toHolder
          \/ \E m \in HolderMessage : m.type # "call" /\ toHolder' = Append(toHolder, m)
      <4>1. CASE HandleSenderLoopback
        <5>1. Head(toHost) \in HostMessage /\ Head(toHost).type = "loopback"
          BY <1>1, <4>1, HostTakesTyped DEF HandleSenderLoopback
        <5>2. /\ Msg("echo", 0, Head(toHost).num, "none") \in HolderMessage
              /\ Msg("echo", 0, Head(toHost).num, "none").type = "echo"
          BY <5>1, HostMessageFields, MessagesTyped DEF Msg
        <5> QED BY <4>1, <5>2 DEF HandleSenderLoopback
      <4>2. ASSUME NEW p \in Promises, PassPromise(p)
            PROVE  \E m \in HolderMessage : m.type # "call" /\ toHolder' = Append(toHolder, m)
        <5>1. \E i \in Ids : toHolder' = Append(toHolder, Msg("promise", i, p, "none"))
          BY <4>2 DEF PassPromise, PassAgain, PassNew, Listed
        <5>2. \A i \in Ids : /\ Msg("promise", i, p, "none") \in HolderMessage
                             /\ Msg("promise", i, p, "none").type = "promise"
          BY MessagesTyped DEF Msg
        <5> QED BY <5>1, <5>2
      <4> QED BY <2>2, <4>1, <4>2 DEF QuestionSettles, HandleRelease, HandlePromise, HandleResolve,
            HandleReceiverLoopback, HolderTakes, LiftReturns, LiftEnds, CloseRef, vars
    <3>3. ASSUME NEW m \in HolderMessage, m.type # "call", toHolder' = Append(toHolder, m)
          PROVE  CallAt(toHolder, x)
      <4>1. /\ DOMAIN toHolder' = DOMAIN toHolder \cup {Len(toHolder) + 1}
            /\ toHolder'[Len(toHolder) + 1] = m
            /\ \A k \in DOMAIN toHolder : toHolder'[k] = toHolder[k]
        BY <1>1, <3>3, PositionsOfAppend
      <4> QED BY <3>3, <4>1 DEF CallAt
    <3> QED BY <2>2, <3>1, <3>2, <3>3
  <2> QED BY <2>1, <2>2
<1>6. \A x \in Places : x[1] = 3 /\ CallAt(toHost', x) => CallAt(toHost, Back(x, T))
  <2> SUFFICES ASSUME NEW x \in Places, x[1] = 3, CallAt(toHost', x)
               PROVE  CallAt(toHost, Back(x, T))
    OBVIOUS
  <2>1. CASE toHost # <<>> /\ toHost' = Tail(toHost)
    <3>1. Back(x, T) = <<x[1], x[2] + 1, x[3]>>
      BY <2>1 DEF Back, Taken
    <3> QED BY <1>1, <2>1, <3>1, CallsAfterTail
  <2>2. CASE ~ (toHost # <<>> /\ toHost' = Tail(toHost))
    <3>1. Back(x, T) = x
      BY <2>2 DEF Back, Taken
    <3>2. \/ toHost' = toHost
          \/ \E m \in HostMessage : m.type # "call" /\ toHost' = Append(toHost, m)
      <4>1. \A i \in Ids, n \in Nat :
              /\ Msg("release", i, n, "none") \in HostMessage
              /\ Msg("release", i, n, "none").type = "release"
              /\ \A e \in EmbargoIds : /\ Msg("loopback", i, e, "none") \in HostMessage
                                       /\ Msg("loopback", i, e, "none").type = "loopback"
        BY MessagesTyped DEF Msg
      <4>2. CASE HandleResolve
        <5>1. /\ Head(toHolder).id \in Ids
              /\ \/ toHost' = toHost
                 \/ toHost' = Append(toHost, Msg("release", Head(toHolder).id, 1, "none"))
                 \/ \E e \in EmbargoIds :
                      toHost' = Append(toHost, Msg("loopback", Head(toHolder).id, e, "none"))
          BY <4>2, HandleResolveImports DEF ResolveInv
        <5> QED BY <4>1, <5>1
      <4>3. ASSUME NEW i \in Ids, CloseRef(i)
            PROVE  \/ toHost' = toHost
                   \/ \E m \in HostMessage : m.type # "call" /\ toHost' = Append(toHost, m)
        <5>1. \/ toHost' = toHost
              \/ toHost' = Append(toHost, Msg("release", i, imports[i].refs, "none"))
          BY <4>3 DEF CloseRef, CloseImport
        <5>2. imports[i].refs \in Nat
          BY <1>1 DEF ImportEntry
        <5> QED BY <4>1, <5>1, <5>2
      <4> QED BY <2>2, <4>2, <4>3 DEF PassPromise, QuestionSettles, HandleRelease,
            HandleSenderLoopback, HostTakes, HandlePromise, HandleReceiverLoopback, LiftReturns,
            LiftEnds, vars
    <3>3. ASSUME NEW m \in HostMessage, m.type # "call", toHost' = Append(toHost, m)
          PROVE  CallAt(toHost, x)
      <4>1. /\ DOMAIN toHost' = DOMAIN toHost \cup {Len(toHost) + 1}
            /\ toHost'[Len(toHost) + 1] = m
            /\ \A k \in DOMAIN toHost : toHost'[k] = toHost[k]
        BY <1>1, <3>3, PositionsOfAppend
      <4> QED BY <3>3, <4>1 DEF CallAt
    <3> QED BY <2>2, <3>1, <3>2, <3>3
  <2> QED BY <2>1, <2>2
<1>7. T \in SUBSET {1, 3, 4} /\ \A x \in Places : x[1] = 4 => Back(x, T) = x
  BY DEF Back, Taken
<1> HIDE DEF T
<1> SUFFICES ASSUME NEW p \in Promises PROVE LineKept(p, T)
  BY DEF T
<1>8. \A x \in Places : x[1] = 2 /\ IsAt(queue'[p], x) => IsAt(queue[p], x)
  BY <1>1, <1>3, NothingAtEmpty
<1>9. ASSUME NEW x \in Line(p)' PROVE x \in Places /\ Back(x, T) \in Line(p)
  <2>1. x \in Places /\ Stands(p, x)'
    BY <1>9 DEF Line
  <2>2. PICK u \in Places : /\ u = Back(x, T) /\ u[1] = x[1] /\ u[3] = x[3]
                          /\ u[2] = IF x[1] \in T THEN x[2] + 1 ELSE x[2]
    BY <2>1, BackFields
  <2>3. x[1] \notin T => u = x
    BY <2>2 DEF Back
  <2>4. CASE x[1] = 0 /\ IsAt(delivered'[p], x) /\ x[3] \notin reentered'
    BY <1>2, <1>7, <2>2, <2>3, <2>4 DEF Line, Stands
  <2>5. CASE x[1] = 1 /\ CallAt(toHolder', x) /\ via'[x[3]] = p
    BY <1>2, <1>5, <2>1, <2>2, <2>5 DEF Line, Stands
  <2>6. CASE x[1] = 2 /\ IsAt(queue'[p], x)
    BY <1>7, <1>8, <2>1, <2>2, <2>3, <2>6 DEF Line, Stands
  <2>7. CASE x[1] = 3 /\ CallAt(toHost', x) /\ via'[x[3]] = p
    BY <1>2, <1>6, <2>1, <2>2, <2>7 DEF Line, Stands
  <2>8. CASE x[1] = 4 /\ HeldAt(p, x)'
    BY <1>4, <1>7, <2>1, <2>2, <2>8 DEF Line, Stands
  <2>9. Stands(p, x)' =>
          \/ x[1] = 0 /\ IsAt(delivered'[p], x) /\ x[3] \notin reentered'
          \/ x[1] = 1 /\ CallAt(toHolder', x) /\ via'[x[3]] = p
          \/ x[1] = 2 /\ IsAt(queue'[p], x)
          \/ x[1] = 3 /\ CallAt(toHost', x) /\ via'[x[3]] = p
          \/ x[1] = 4 /\ HeldAt(p, x)'
    BY DEF Stands
  <2> QED BY <2>1, <2>2, <2>4, <2>5, <2>6, <2>7, <2>8, <2>9
<1> QED BY <1>9 DEF LineKept

\* A promise has one import.
OneImport ==
  \A i, j \in Ids :
    imports[i].refs > 0 /\ imports[j].refs > 0 /\ imports[i].of = imports[j].of => i = j

LEMMA ImportsAreUnique == TypeInv /\ RefInv /\ AnswerInv /\ ResolveInv => OneImport
<1> SUFFICES ASSUME TypeInv, RefInv, AnswerInv, ResolveInv, NEW i \in Ids, NEW j \in Ids,
                    imports[i].refs > 0, imports[j].refs > 0, imports[i].of = imports[j].of
             PROVE  i = j
  BY DEF OneImport
<1>1. NamedLive
  BY NamedIsLive
<1>2. entry[i] # 0 /\ entry[j] # 0 /\ entry[i] = imports[i].of /\ entry[j] = imports[j].of
  BY <1>1 DEF NamedLive, AnswerInv, ImportsAgree
<1> QED BY <1>2 DEF ResolveInv, EntryIndexed

\* What is known of the places in a line.
LEMMA LineFacts ==
  ASSUME TypeInv, AnswerInv, HomeInv, NEW p \in Promises, NEW x \in Line(p)
  PROVE  /\ x \in Places /\ Stands(p, x) /\ x[3] <= made
         /\ x[1] = 1 => client[p] = "back"
         /\ x[1] = 2 => client[p] \in {"none", "broken"}
         /\ x[1] = 4 => client[p] = "back" /\ HeldAt(p, x)
<1>1. x \in Places /\ Stands(p, x)
  BY DEF Line
<1>2. /\ toHolder \in Seq(HolderMessage) /\ queue \in [Promises -> Seq(Calls)]
      /\ client \in [Promises -> {"none"} \cup Resolutions]
  BY DEF TypeInv, ChannelTypes, QueueTypes, HostTypes
<1>3. CASE x[1] = 0 /\ IsAt(delivered[p], x)
  <2>1. x[3] \in Range(delivered[p])
    BY <1>3 DEF IsAt, Range
  <2> QED BY <1>1, <1>3, <2>1 DEF HomeInv, QueuesNamed
<1>4. CASE x[1] = 1 /\ CallAt(toHolder, x) /\ via[x[3]] = p
  <2>1. toHolder[x[2]] \in Range(toHolder) /\ toHolder[x[2]].type = "call" /\ toHolder[x[2]].num = x[3]
    BY <1>4 DEF CallAt, Range
  <2>2. ForwardNamed(x[3])
    BY <2>1 DEF HomeInv, ForwardsNamed
  <2> QED BY <1>1, <1>4, <2>2 DEF ForwardNamed
<1>5. CASE x[1] = 2 /\ IsAt(queue[p], x)
  <2>1. x[3] \in Range(queue[p]) /\ queue[p] # <<>>
    BY <1>5, NothingAtEmpty DEF IsAt, Range
  <2> QED BY <1>1, <1>2, <1>5, <2>1 DEF HomeInv, QueuesNamed, Resolutions
<1>6. CASE x[1] = 3 /\ CallAt(toHost, x) /\ via[x[3]] = p
  <2>1. CallNamed(x[2]) /\ toHost[x[2]].num = x[3]
    BY <1>6 DEF CallAt, HomeInv, CallsNamed
  <2> QED BY <1>1, <1>6, <2>1 DEF CallNamed
<1>7. CASE x[1] = 4 /\ HeldAt(p, x)
  <2>1. PICK i \in Ids : imports[i].refs > 0 /\ imports[i].of = p /\ IsAt(embargoed[i], x)
    BY <1>7 DEF HeldAt
  <2>2. embargoed[i] # <<>> /\ x[3] \in Range(embargoed[i])
    BY <2>1, NothingAtEmpty DEF IsAt, Range
  <2>3. imports[i].resolved = "back" /\ x[3] <= made
    BY <2>2 DEF HomeInv, EmbargoedNamed
  <2>4. "back" = Outcome(client[p])
    BY <2>1, <2>3 DEF AnswerInv, ImportsSettled
  <2>5. client[p] = "back"
    BY <2>4 DEF Outcome
  <2> QED BY <1>1, <1>7, <2>3, <2>5
<1> QED BY <1>1, <1>3, <1>4, <1>5, <1>6, <1>7 DEF Stands

\* The places after a step, part by part.
LEMMA Columns ==
  ASSUME TypeInv, NEW p \in Promises, NEW x \in Line(p)', via'[x[3]] = via[x[3]],
         x[3] \in reentered => x[3] \in reentered'
  PROVE  /\ x \in Places
         /\ x[1] = 0 =>
              /\ delivered'[p] = delivered[p] => x \in Line(p)
              /\ \A c \in Calls : delivered'[p] = Append(delivered[p], c) =>
                   (x \in Line(p) /\ x[2] < Len(delivered[p]) + 1)
                     \/ x = <<0, Len(delivered[p]) + 1, c>>
         /\ x[1] = 1 =>
              /\ toHolder' = toHolder => x \in Line(p)
              /\ toHolder # <<>> /\ toHolder' = Tail(toHolder) => <<1, x[2] + 1, x[3]>> \in Line(p)
              /\ \A m \in HolderMessage : toHolder' = Append(toHolder, m) =>
                   (x \in Line(p) /\ x[2] < Len(toHolder) + 1)
                     \/ (x = <<1, Len(toHolder) + 1, m.num>> /\ m.type = "call" /\ via[m.num] = p)
         /\ x[1] = 2 =>
              /\ queue'[p] # <<>>
              /\ queue'[p] = queue[p] => x \in Line(p)
              /\ \A c \in Calls : queue'[p] = Append(queue[p], c) =>
                   (x \in Line(p) /\ x[2] < Len(queue[p]) + 1) \/ x = <<2, Len(queue[p]) + 1, c>>
         /\ x[1] = 3 =>
              /\ toHost' = toHost => x \in Line(p)
              /\ toHost # <<>> /\ toHost' = Tail(toHost) => <<3, x[2] + 1, x[3]>> \in Line(p)
              /\ \A m \in HostMessage : toHost' = Append(toHost, m) =>
                   (x \in Line(p) /\ x[2] < Len(toHost) + 1)
                     \/ (x = <<3, Len(toHost) + 1, m.num>> /\ m.type = "call" /\ via[m.num] = p)
         /\ x[1] = 4 => (UNCHANGED <<imports, embargoed>> => x \in Line(p))
<1>1. /\ x \in Places /\ x = <<x[1], x[2], x[3]>>
      /\ \/ x[1] = 0 /\ IsAt(delivered'[p], x) /\ x[3] \notin reentered
         \/ x[1] = 1 /\ CallAt(toHolder', x) /\ via[x[3]] = p
         \/ x[1] = 2 /\ IsAt(queue'[p], x)
         \/ x[1] = 3 /\ CallAt(toHost', x) /\ via[x[3]] = p
         \/ x[1] = 4 /\ HeldAt(p, x)'
  <2>1. x \in Places /\ Stands(p, x)'
    BY DEF Line
  <2> QED BY <2>1, PlaceFields DEF Stands
<1>2. /\ delivered[p] \in Seq(Calls) /\ queue[p] \in Seq(Calls)
      /\ toHolder \in Seq(HolderMessage) /\ toHost \in Seq(HostMessage)
  BY DEF TypeInv, OutcomeTypes, QueueTypes, ChannelTypes
<1>3. <<x[1], x[2] + 1, x[3]>> \in Places
  BY <1>1, PlaceFields
<1>4. CASE x[1] = 0 /\ IsAt(delivered'[p], x) /\ x[3] \notin reentered
  <2>1. ASSUME delivered'[p] = delivered[p] PROVE x \in Line(p)
    BY <1>1, <1>4, <2>1 DEF Line, Stands
  <2>2. ASSUME NEW c \in Calls, delivered'[p] = Append(delivered[p], c)
        PROVE  (x \in Line(p) /\ x[2] < Len(delivered[p]) + 1) \/ x = <<0, Len(delivered[p]) + 1, c>>
    <3>1. /\ DOMAIN delivered'[p] = DOMAIN delivered[p] \cup {Len(delivered[p]) + 1}
          /\ delivered'[p][Len(delivered[p]) + 1] = c
          /\ \A k \in DOMAIN delivered[p] : k < Len(delivered[p]) + 1 /\ delivered'[p][k] = delivered[p][k]
      BY <1>2, <2>2, PositionsOfAppend
    <3>2. (IsAt(delivered[p], x) /\ x[2] < Len(delivered[p]) + 1)
            \/ (x[2] = Len(delivered[p]) + 1 /\ x[3] = c)
      BY <1>4, <3>1 DEF IsAt
    <3> QED BY <1>1, <1>4, <3>2 DEF Line, Stands
  <2> QED BY <1>1, <1>4, <2>1, <2>2
<1>5. CASE x[1] = 1 /\ CallAt(toHolder', x) /\ via[x[3]] = p
  <2>1. ASSUME toHolder' = toHolder PROVE x \in Line(p)
    BY <1>1, <1>5, <2>1 DEF Line, Stands
  <2>2. ASSUME toHolder # <<>>, toHolder' = Tail(toHolder) PROVE <<1, x[2] + 1, x[3]>> \in Line(p)
    <3>1. CallAt(toHolder, <<x[1], x[2] + 1, x[3]>>)
      BY <1>1, <1>2, <1>5, <2>2, CallsAfterTail
    <3> QED BY <1>3, <1>5, <3>1 DEF Line, Stands
  <2>3. ASSUME NEW m \in HolderMessage, toHolder' = Append(toHolder, m)
        PROVE  (x \in Line(p) /\ x[2] < Len(toHolder) + 1)
                 \/ (x = <<1, Len(toHolder) + 1, m.num>> /\ m.type = "call" /\ via[m.num] = p)
    <3>1. /\ DOMAIN toHolder' = DOMAIN toHolder \cup {Len(toHolder) + 1}
          /\ toHolder'[Len(toHolder) + 1] = m
          /\ \A k \in DOMAIN toHolder : k < Len(toHolder) + 1 /\ toHolder'[k] = toHolder[k]
      BY <1>2, <2>3, PositionsOfAppend
    <3>2. (CallAt(toHolder, x) /\ x[2] < Len(toHolder) + 1)
            \/ (x[2] = Len(toHolder) + 1 /\ m.type = "call" /\ x[3] = m.num)
      BY <1>5, <3>1 DEF CallAt
    <3> QED BY <1>1, <1>5, <3>2 DEF Line, Stands
  <2> QED BY <1>1, <1>5, <2>1, <2>2, <2>3
<1>6. CASE x[1] = 2 /\ IsAt(queue'[p], x)
  <2>1. ASSUME queue'[p] = queue[p] PROVE x \in Line(p)
    BY <1>1, <1>6, <2>1 DEF Line, Stands
  <2>2. ASSUME NEW c \in Calls, queue'[p] = Append(queue[p], c)
        PROVE  (x \in Line(p) /\ x[2] < Len(queue[p]) + 1) \/ x = <<2, Len(queue[p]) + 1, c>>
    <3>1. /\ DOMAIN queue'[p] = DOMAIN queue[p] \cup {Len(queue[p]) + 1}
          /\ queue'[p][Len(queue[p]) + 1] = c
          /\ \A k \in DOMAIN queue[p] : k < Len(queue[p]) + 1 /\ queue'[p][k] = queue[p][k]
      BY <1>2, <2>2, PositionsOfAppend
    <3>2. (IsAt(queue[p], x) /\ x[2] < Len(queue[p]) + 1)
            \/ (x[2] = Len(queue[p]) + 1 /\ x[3] = c)
      BY <1>6, <3>1 DEF IsAt
    <3> QED BY <1>1, <1>6, <3>2 DEF Line, Stands
  <2>3. queue'[p] # <<>>
    BY <1>6, NothingAtEmpty
  <2> QED BY <1>1, <1>6, <2>1, <2>2, <2>3
<1>7. CASE x[1] = 3 /\ CallAt(toHost', x) /\ via[x[3]] = p
  <2>1. ASSUME toHost' = toHost PROVE x \in Line(p)
    BY <1>1, <1>7, <2>1 DEF Line, Stands
  <2>2. ASSUME toHost # <<>>, toHost' = Tail(toHost) PROVE <<3, x[2] + 1, x[3]>> \in Line(p)
    <3>1. CallAt(toHost, <<x[1], x[2] + 1, x[3]>>)
      BY <1>1, <1>2, <1>7, <2>2, CallsAfterTail
    <3> QED BY <1>3, <1>7, <3>1 DEF Line, Stands
  <2>3. ASSUME NEW m \in HostMessage, toHost' = Append(toHost, m)
        PROVE  (x \in Line(p) /\ x[2] < Len(toHost) + 1)
                 \/ (x = <<3, Len(toHost) + 1, m.num>> /\ m.type = "call" /\ via[m.num] = p)
    <3>1. /\ DOMAIN toHost' = DOMAIN toHost \cup {Len(toHost) + 1}
          /\ toHost'[Len(toHost) + 1] = m
          /\ \A k \in DOMAIN toHost : k < Len(toHost) + 1 /\ toHost'[k] = toHost[k]
      BY <1>2, <2>3, PositionsOfAppend
    <3>2. (CallAt(toHost, x) /\ x[2] < Len(toHost) + 1)
            \/ (x[2] = Len(toHost) + 1 /\ m.type = "call" /\ x[3] = m.num)
      BY <1>7, <3>1 DEF CallAt
    <3> QED BY <1>1, <1>7, <3>2 DEF Line, Stands
  <2> QED BY <1>1, <1>7, <2>1, <2>2, <2>3
<1>8. CASE x[1] = 4 /\ HeldAt(p, x)'
  <2>1. ASSUME UNCHANGED <<imports, embargoed>> PROVE x \in Line(p)
    <3>1. HeldAt(p, x)
      BY <1>8, <2>1 DEF HeldAt
    <3> QED BY <1>1, <1>8, <3>1 DEF Line, Stands
  <2> QED BY <1>1, <1>8, <2>1
<1> QED BY <1>1, <1>4, <1>5, <1>6, <1>7, <1>8

\* The first call of part a moves to y, behind the parts ahead of it.
MovedTo(p, T, a, y) ==
  /\ y \in Places /\ y[1] < a /\ <<a, 1, y[3]>> \in Line(p)
  /\ \A x \in Line(p)' : x = y \/ (Back(x, T) \in Line(p) /\ (Before(x, y) \/ x[1] >= a))

LEMMA MovedKeepsOrder ==
  ASSUME LinesInOrder, NEW p \in Promises, NEW T, NEW a \in T, a \in 0..4, NEW y, MovedTo(p, T, a, y)
  PROVE  InOrder(Line(p)')
<1> DEFINE L == Line(p)
           M == Line(p)'
<1>1. L \in SUBSET Places /\ M \in SUBSET Places /\ InOrder(L)
  BY DEF Line, LinesInOrder
<1>2. /\ y \in Places /\ y[1] < a /\ <<a, 1, y[3]>> \in L
      /\ \A x \in M : x = y \/ (Back(x, T) \in L /\ (Before(x, y) \/ x[1] >= a))
  BY DEF MovedTo
<1> HIDE DEF L, M
<1>3. InOrder(M)
  BY <1>1, <1>2, MoveKeepsOrder
<1> QED BY <1>3 DEF M

LEMMA KeptKeepsOrder ==
  ASSUME LinesInOrder, NEW p \in Promises, NEW T, LineKept(p, T)
  PROVE  InOrder(Line(p)')
<1> DEFINE L == Line(p)
           M == Line(p)'
<1>1. L \in SUBSET Places /\ M \in SUBSET Places /\ InOrder(L)
  BY DEF Line, LinesInOrder
<1>2. \A x \in M : Back(x, T) \in L
  BY DEF LineKept
<1> HIDE DEF L, M
<1>3. InOrder(M)
  BY <1>1, <1>2, ShrinkKeepsOrder
<1> QED BY <1>3 DEF M

\* A call forwarded to the holder is delivered behind those delivered before.
LEMMA HandleForwardedLines ==
  ASSUME TypeInv, AnswerInv, HomeInv, HandleForwarded, NEW p \in Promises
  PROVE  LineKept(p, {1}) \/ \E y : y[1] = 0 /\ MovedTo(p, {1}, 1, y)
<1>1. /\ Head(toHolder) \in HolderMessage /\ Head(toHolder).type = "call"
      /\ toHolder # <<>> /\ toHolder' = Tail(toHolder) /\ toHolder \in Seq(HolderMessage)
  BY HolderTakesTyped DEF HandleForwarded, TypeInv, ChannelTypes
<1>2. PICK c : c = Head(toHolder).num
  OBVIOUS
<1>3. /\ c \in Calls /\ delivered' = [delivered EXCEPT ![via[c]] = Append(@, c)]
      /\ UNCHANGED <<via, reentered, queue, toHost, imports, embargoed>>
      /\ delivered \in [Promises -> Seq(Calls)]
  BY <1>1, <1>2, HolderMessageFields DEF HandleForwarded, Deliver, hostVars, holderVars, TypeInv,
     OutcomeTypes
<1>4. 1 \in DOMAIN toHolder /\ toHolder[1] = Head(toHolder)
  BY <1>1, PositionsOfTail
<1>5. ASSUME NEW x \in Line(p)'
      PROVE  /\ x \in Places
             /\ x[1] = 0 => /\ delivered'[p] = delivered[p] => x \in Line(p)
                            /\ delivered'[p] = Append(delivered[p], c) =>
                                 (x \in Line(p) /\ x[2] < Len(delivered[p]) + 1)
                                   \/ x = <<0, Len(delivered[p]) + 1, c>>
             /\ x[1] # 0 => Back(x, {1}) \in Line(p)
  <2>1. x \in Places /\ x[1] \in 0..4 /\ (x[1] # 1 => Back(x, {1}) = x)
          /\ (x[1] = 1 => Back(x, {1}) = <<1, x[2] + 1, x[3]>>)
    BY PlaceFields DEF Line, Back
  <2>2. /\ via'[x[3]] = via[x[3]] /\ (x[3] \in reentered => x[3] \in reentered')
        /\ queue'[p] = queue[p] /\ toHost' = toHost /\ UNCHANGED <<imports, embargoed>>
    BY <1>3
  <2>3. /\ x[1] = 0 => /\ delivered'[p] = delivered[p] => x \in Line(p)
                       /\ delivered'[p] = Append(delivered[p], c) =>
                            (x \in Line(p) /\ x[2] < Len(delivered[p]) + 1)
                              \/ x = <<0, Len(delivered[p]) + 1, c>>
        /\ x[1] = 1 => <<1, x[2] + 1, x[3]>> \in Line(p)
        /\ x[1] \in {2, 3, 4} => x \in Line(p)
    BY <1>1, <1>3, <2>2, Columns
  <2> QED BY <2>1, <2>3
<1>6. CASE via[c] # p
  <2>1. delivered'[p] = delivered[p]
    BY <1>3, <1>6
  <2>2. \A x : x[1] = 0 => Back(x, {1}) = x
    BY DEF Back
  <2> QED BY <1>5, <2>1, <2>2 DEF LineKept
<1>7. CASE via[c] = p
  <2>1. PICK y : y = <<0, Len(delivered[p]) + 1, c>>
    OBVIOUS
  <2>2. y \in Places /\ y[1] = 0 /\ y[2] = Len(delivered[p]) + 1 /\ y[3] = c
    BY <1>3, <2>1, LenProperties DEF Places
  <2>3. <<1, 1, c>> \in Line(p)
    BY <1>1, <1>2, <1>3, <1>4, <1>7 DEF Line, Stands, CallAt, Places
  <2>4. delivered'[p] = Append(delivered[p], c)
    BY <1>3, <1>7
  <2>5. ASSUME NEW x \in Line(p)'
        PROVE  x = y \/ (Back(x, {1}) \in Line(p) /\ (Before(x, y) \/ x[1] >= 1))
    <3>1. x \in Places /\ x[1] \in 0..4
      BY <1>5, PlaceFields
    <3>2. CASE x[1] = 0
      <4>1. (x \in Line(p) /\ x[2] < Len(delivered[p]) + 1) \/ x = y
        BY <1>5, <2>1, <2>4, <3>2
      <4>2. Back(x, {1}) = x
        BY <3>2 DEF Back
      <4> QED BY <2>2, <3>2, <4>1, <4>2 DEF Before
    <3>3. CASE x[1] # 0
      BY <1>5, <3>1, <3>3
    <3> QED BY <3>2, <3>3
  <2> QED BY <2>2, <2>3, <2>5 DEF MovedTo
<1> QED BY <1>6, <1>7

\* An import that calls are held for, and what its promise is.
LEMMA HeldImport ==
  ASSUME TypeInv, AnswerInv, HomeInv, NEW i \in Ids, embargoed[i] # <<>>
  PROVE  /\ imports[i].refs > 0 /\ imports[i].resolved = "back"
         /\ imports[i].of \in Promises /\ client[imports[i].of] = "back"
<1>1. imports[i].refs > 0 /\ imports[i].resolved = "back"
  BY DEF HomeInv, EmbargoedNamed
<1>2. imports[i].of \in Promises /\ "back" = Outcome(client[imports[i].of])
  BY <1>1 DEF AnswerInv, ImportsSettled
<1> QED BY <1>1, <1>2 DEF Outcome

LEMMA LiftNextLines ==
  ASSUME TypeInv, AnswerInv, HomeInv, EmbargoInv, OneImport, LiftNext, NEW p \in Promises
  PROVE  LineKept(p, {}) \/ \E y : y[1] = 0 /\ MovedTo(p, {4}, 4, y)
<1>1. PICK f, c : f = flushing /\ c = Head(embargoed[f])
  OBVIOUS
<1>2. /\ f \in Ids /\ embargoed[f] # <<>> /\ embargoed[f] \in Seq(Calls)
      /\ delivered' = [delivered EXCEPT ![via[c]] = Append(@, c)]
      /\ embargoed' = [embargoed EXCEPT ![f] = Tail(@)]
      /\ UNCHANGED <<via, reentered, queue, toHost, toHolder, imports>>
      /\ delivered \in [Promises -> Seq(Calls)] /\ embargoed \in [Ids -> Seq(Calls)]
      /\ flushing # 0
  BY <1>1 DEF LiftNext, Deliver, hostVars, TypeInv, HolderTypes, OutcomeTypes, EmbargoTypes
<1>3. /\ imports[f].refs > 0 /\ imports[f].resolved = "back"
      /\ imports[f].of \in Promises /\ client[imports[f].of] = "back"
  BY <1>2, HeldImport
<1>4. /\ 1 \in DOMAIN embargoed[f] /\ embargoed[f][1] = c /\ c \in Calls
      /\ c \in Range(embargoed[f])
  BY <1>1, <1>2, PositionsOfTail, RangeOfTail
<1>5. via[c] = imports[f].of
  BY <1>2, <1>4 DEF HomeInv, EmbargoedNamed
<1>6. \A x \in Line(imports[f].of) : x[1] \notin {1, 2, 3}
  <2>1. imports[f].embargo = 0
    BY <1>1, <1>2 DEF EmbargoInv, FlushLifted
  <2>2. \A x \in Line(imports[f].of) : x[1] \notin {1, 3}
    BY <1>2, <1>3, <2>1 DEF EmbargoInv, WayIsClear
  <2>3. \A x \in Line(imports[f].of) : x[1] # 2
    BY <1>3, LineFacts
  <2> QED BY <2>2, <2>3
<1>7. ASSUME NEW x \in Line(p)'
      PROVE  /\ x \in Places
             /\ x[1] = 0 => /\ delivered'[p] = delivered[p] => x \in Line(p)
                            /\ delivered'[p] = Append(delivered[p], c) =>
                                 (x \in Line(p) /\ x[2] < Len(delivered[p]) + 1)
                                   \/ x = <<0, Len(delivered[p]) + 1, c>>
             /\ x[1] \in {1, 2, 3} => x \in Line(p)
             /\ x[1] = 4 => HeldAt(p, x)'
  <2>1. /\ via'[x[3]] = via[x[3]] /\ (x[3] \in reentered => x[3] \in reentered')
        /\ queue'[p] = queue[p] /\ toHost' = toHost /\ toHolder' = toHolder
    BY <1>2
  <2>2. Stands(p, x)'
    BY DEF Line
  <2>3. x[1] = 4 => HeldAt(p, x)'
    BY <2>2 DEF Stands
  <2> QED BY <1>4, <2>1, <2>3, Columns
<1>8. ASSUME NEW x \in Places, x[1] = 4, HeldAt(p, x)'
      PROVE  /\ imports[f].of # p => x \in Line(p)
             /\ imports[f].of = p => <<4, x[2] + 1, x[3]>> \in Line(p)
  <2>1. PICK j \in Ids : imports[j].refs > 0 /\ imports[j].of = p /\ IsAt(embargoed'[j], x)
    BY <1>2, <1>8 DEF HeldAt
  <2>2. CASE imports[f].of # p
    <3>1. embargoed'[j] = embargoed[j]
      BY <1>2, <2>1, <2>2
    <3> QED BY <1>8, <2>1, <2>2, <3>1 DEF Line, Stands, HeldAt
  <2>3. CASE imports[f].of = p
    <3>1. j = f
      BY <1>2, <1>3, <2>1, <2>3 DEF OneImport
    <3>2. IsAt(Tail(embargoed[f]), x)
      BY <1>2, <2>1, <3>1
    <3>3. IsAt(embargoed[f], <<x[1], x[2] + 1, x[3]>>)
      BY <1>2, <3>2, ElementsAfterTail
    <3>4. <<4, x[2] + 1, x[3]>> \in Places
      BY <1>8, PlaceFields
    <3> QED BY <1>2, <1>3, <1>8, <2>3, <3>3, <3>4 DEF Line, Stands, HeldAt
  <2> QED BY <2>2, <2>3
<1>9. CASE imports[f].of # p
  <2>1. delivered'[p] = delivered[p]
    BY <1>2, <1>5, <1>9
  <2>2. ASSUME NEW x \in Line(p)' PROVE x \in Places /\ x \in Line(p)
    <3>1. x \in Places /\ x[1] \in 0..4
      BY <1>7, PlaceFields
    <3>2. x[1] = 4 => x \in Line(p)
      BY <1>7, <1>8, <1>9, <3>1
    <3> QED BY <1>7, <2>1, <3>1, <3>2
  <2> QED BY <2>2 DEF LineKept, Back
<1>10. CASE imports[f].of = p
  <2>1. PICK y : y = <<0, Len(delivered[p]) + 1, c>>
    OBVIOUS
  <2>2. y \in Places /\ y[1] = 0 /\ y[2] = Len(delivered[p]) + 1 /\ y[3] = c
    BY <1>2, <1>4, <2>1, LenProperties DEF Places
  <2>3. <<4, 1, c>> \in Line(p)
    BY <1>2, <1>3, <1>4, <1>10 DEF Line, Stands, HeldAt, IsAt, Places
  <2>4. delivered'[p] = Append(delivered[p], c)
    BY <1>2, <1>5, <1>10
  <2>5. ASSUME NEW x \in Line(p)'
        PROVE  x = y \/ (Back(x, {4}) \in Line(p) /\ (Before(x, y) \/ x[1] >= 4))
    <3>1. x \in Places /\ x[1] \in 0..4 /\ x[1] \notin {1, 2, 3}
      BY <1>6, <1>7, <1>10, PlaceFields
    <3>2. CASE x[1] = 0
      <4>1. (x \in Line(p) /\ x[2] < Len(delivered[p]) + 1) \/ x = y
        BY <1>7, <2>1, <2>4, <3>2
      <4>2. Back(x, {4}) = x
        BY <3>2 DEF Back
      <4> QED BY <2>2, <3>2, <4>1, <4>2 DEF Before
    <3>3. CASE x[1] = 4
      <4>1. Back(x, {4}) = <<4, x[2] + 1, x[3]>>
        BY <3>3 DEF Back
      <4> QED BY <1>7, <1>8, <1>10, <3>1, <3>3, <4>1
    <3> QED BY <3>1, <3>2, <3>3
  <2> QED BY <2>2, <2>3, <2>5 DEF MovedTo
<1> QED BY <1>9, <1>10

LEMMA HandleCallLines ==
  ASSUME TypeInv, AnswerInv, HomeInv, HandleCall, NEW p \in Promises
  PROVE  LineKept(p, {3}) \/ \E y : y[1] \in {0, 1, 2} /\ MovedTo(p, {3}, 3, y)
<1>1. PICK c, q : c = Head(toHost).num /\ q = via[c]
  OBVIOUS
<1>2. /\ c \in Calls /\ q \in Promises /\ toHost # <<>> /\ toHost' = Tail(toHost)
      /\ 1 \in DOMAIN toHost /\ toHost[1].type = "call" /\ toHost[1].num = c
      /\ \/ /\ client[q] \in {"known", "fresh"}
            /\ delivered' = [delivered EXCEPT ![q] = Append(@, c)]
            /\ UNCHANGED <<queue, toHolder>>
         \/ /\ client[q] \in {"none", "broken"}
            /\ queue' = queue \/ queue' = [queue EXCEPT ![q] = Append(@, c)]
            /\ UNCHANGED <<delivered, toHolder>>
         \/ /\ client[q] = "back"
            /\ toHolder' = Append(toHolder, Msg("call", 0, c, "none"))
            /\ UNCHANGED <<delivered, queue>>
  BY <1>1, HandleCallPlaces DEF HomeInv
<1>3. /\ UNCHANGED <<via, reentered, imports, embargoed>>
      /\ delivered \in [Promises -> Seq(Calls)] /\ queue \in [Promises -> Seq(Calls)]
      /\ toHolder \in Seq(HolderMessage) /\ delivered[p] \in Seq(Calls) /\ queue[p] \in Seq(Calls)
  BY DEF HandleCall, holderVars, TypeInv, OutcomeTypes, QueueTypes, ChannelTypes
<1>4. PICK m : m = Msg("call", 0, c, "none")
  OBVIOUS
<1>5. m \in HolderMessage /\ m.type = "call" /\ m.num = c
  BY <1>2, <1>4, MessagesTyped DEF Msg
<1>6. PICK d, u, h : /\ d = <<0, Len(delivered[p]) + 1, c>>
                    /\ u = <<2, Len(queue[p]) + 1, c>> /\ h = <<1, Len(toHolder) + 1, c>>
  OBVIOUS
<1>7. /\ d \in Places /\ d[1] = 0 /\ d[2] = Len(delivered[p]) + 1 /\ d[3] = c
      /\ u \in Places /\ u[1] = 2 /\ u[2] = Len(queue[p]) + 1 /\ u[3] = c
      /\ h \in Places /\ h[1] = 1 /\ h[2] = Len(toHolder) + 1 /\ h[3] = c
  <2>1. /\ Len(delivered[p]) + 1 \in Nat \ {0} /\ Len(queue[p]) + 1 \in Nat \ {0}
        /\ Len(toHolder) + 1 \in Nat \ {0}
    BY <1>3, LenProperties
  <2> QED BY <1>2, <1>6, <2>1 DEF Places
<1>8. ASSUME NEW x \in Line(p)'
      PROVE  /\ x \in Places /\ x[1] \in 0..4
             /\ x[1] = 0 => /\ delivered'[p] = delivered[p] => x \in Line(p)
                            /\ delivered'[p] = Append(delivered[p], c) =>
                                 (x \in Line(p) /\ x[2] < Len(delivered[p]) + 1) \/ x = d
             /\ x[1] = 1 => /\ toHolder' = toHolder => x \in Line(p)
                            /\ toHolder' = Append(toHolder, m) =>
                                 (x \in Line(p) /\ x[2] < Len(toHolder) + 1)
                                   \/ (x = h /\ via[c] = p)
             /\ x[1] = 2 => /\ queue'[p] = queue[p] => x \in Line(p)
                            /\ queue'[p] = Append(queue[p], c) =>
                                 (x \in Line(p) /\ x[2] < Len(queue[p]) + 1) \/ x = u
             /\ x[1] \in {3, 4} => Back(x, {3}) \in Line(p)
             /\ x[1] \in {0, 1, 2} => Back(x, {3}) = x
  <2>1. /\ via'[x[3]] = via[x[3]] /\ (x[3] \in reentered => x[3] \in reentered')
        /\ UNCHANGED <<imports, embargoed>>
    BY <1>3
  <2>2. x \in Places /\ x[1] \in 0..4
    BY PlaceFields DEF Line
  <2>3. /\ x[1] = 0 =>
             /\ delivered'[p] = delivered[p] => x \in Line(p)
             /\ delivered'[p] = Append(delivered[p], c) =>
                  (x \in Line(p) /\ x[2] < Len(delivered[p]) + 1) \/ x = d
        /\ x[1] = 2 =>
             /\ queue'[p] = queue[p] => x \in Line(p)
             /\ queue'[p] = Append(queue[p], c) =>
                  (x \in Line(p) /\ x[2] < Len(queue[p]) + 1) \/ x = u
    BY <1>2, <1>6, <2>1, Columns
  <2>4. x[1] = 1 =>
             /\ toHolder' = toHolder => x \in Line(p)
             /\ toHolder' = Append(toHolder, m) =>
                  (x \in Line(p) /\ x[2] < Len(toHolder) + 1)
                    \/ (x = <<1, Len(toHolder) + 1, m.num>> /\ via[m.num] = p)
    <3>1. x[1] = 1 =>
             /\ toHolder' = toHolder => x \in Line(p)
             /\ \A n \in HolderMessage : toHolder' = Append(toHolder, n) =>
                  (x \in Line(p) /\ x[2] < Len(toHolder) + 1)
                    \/ (x = <<1, Len(toHolder) + 1, n.num>> /\ n.type = "call" /\ via[n.num] = p)
      BY <2>1, Columns
    <3>2. m \in HolderMessage
      BY <1>5
    <3> QED BY ONLY <3>1, <3>2
  <2>5. /\ x[1] = 3 => <<3, x[2] + 1, x[3]>> \in Line(p)
        /\ x[1] = 4 => x \in Line(p)
    BY <1>2, <2>1, Columns
  <2>6. /\ x[1] # 3 => Back(x, {3}) = x
        /\ x[1] = 3 => Back(x, {3}) = <<3, x[2] + 1, x[3]>>
    BY DEF Back
  <2>7. x[1] \in {3, 4} => Back(x, {3}) \in Line(p)
    BY <2>5, <2>6
  <2> QED BY <1>5, <1>6, <2>2, <2>3, <2>4, <2>6, <2>7
<1>10. CASE q # p
  <2>1. delivered'[p] = delivered[p] /\ queue'[p] = queue[p]
    BY <1>2, <1>3, <1>10
  <2>2. ASSUME NEW x \in Line(p)' PROVE x \in Places /\ Back(x, {3}) \in Line(p)
    <3>1. x[1] = 1 => x \in Line(p)
      BY <1>1, <1>2, <1>4, <1>8, <1>10
    <3> QED BY <1>8, <2>1, <3>1
  <2> QED BY <2>2 DEF LineKept
<1>11. CASE q = p
  <2>1. <<3, 1, c>> \in Line(p)
    <3>1. c \in Calls /\ 1 \in DOMAIN toHost /\ toHost[1].type = "call" /\ toHost[1].num = c
          /\ via[c] = p
      BY <1>1, <1>2, <1>11
    <3>2. <<3, 1, c>> \in Places
      BY <3>1 DEF Places
    <3>3. CallAt(toHost, <<3, 1, c>>)
      BY <3>1 DEF CallAt
    <3> QED BY <3>1, <3>2, <3>3 DEF Line, Stands
  <2>2. /\ \A x \in Line(p) : x[1] = 1 => client[p] = "back"
        /\ \A x \in Line(p) : x[1] = 2 => client[p] \in {"none", "broken"}
    BY LineFacts
  <2>3. CASE client[p] \in {"known", "fresh"}
    <3>1. delivered'[p] = Append(delivered[p], c) /\ queue' = queue /\ toHolder' = toHolder
      BY <1>2, <1>3, <1>11, <2>3
    <3>2. ASSUME NEW x \in Line(p)'
          PROVE  x = d \/ (Back(x, {3}) \in Line(p) /\ (Before(x, d) \/ x[1] >= 3))
      <4>1. CASE x[1] = 0
        BY <1>7, <1>8, <3>1, <4>1 DEF Before
      <4>2. CASE x[1] \in {1, 2}
        BY <1>8, <2>2, <2>3, <3>1, <4>2
      <4>3. CASE x[1] \in {3, 4}
        BY <1>8, <4>3
      <4> QED BY <1>8, <4>1, <4>2, <4>3
    <3> QED BY <1>7, <2>1, <3>2 DEF MovedTo
  <2>4. CASE client[p] = "back"
    <3>1. toHolder' = Append(toHolder, m) /\ queue' = queue /\ delivered' = delivered
      BY <1>2, <1>4, <1>11, <2>4
    <3>2. ASSUME NEW x \in Line(p)'
          PROVE  x = h \/ (Back(x, {3}) \in Line(p) /\ (Before(x, h) \/ x[1] >= 3))
      <4>1. CASE x[1] = 0
        BY <1>7, <1>8, <3>1, <4>1 DEF Before
      <4>2. CASE x[1] = 1
        BY <1>7, <1>8, <3>1, <4>2 DEF Before
      <4>3. CASE x[1] = 2
        BY <1>8, <2>2, <2>4, <3>1, <4>3
      <4>4. CASE x[1] \in {3, 4}
        BY <1>8, <4>4
      <4> QED BY <1>8, <4>1, <4>2, <4>3, <4>4
    <3> QED BY <1>7, <2>1, <3>2 DEF MovedTo
  <2>5. CASE client[p] \in {"none", "broken"} /\ queue' = queue
    <3>1. toHolder' = toHolder /\ delivered' = delivered
      BY <1>2, <1>11, <2>5
    <3>2. ASSUME NEW x \in Line(p)' PROVE x \in Places /\ Back(x, {3}) \in Line(p)
      BY <1>8, <2>5, <3>1
    <3> QED BY <3>2 DEF LineKept
  <2>6. CASE client[p] \in {"none", "broken"} /\ queue' = [queue EXCEPT ![q] = Append(@, c)]
    <3>1. toHolder' = toHolder /\ delivered' = delivered /\ queue'[p] = Append(queue[p], c)
      BY <1>2, <1>3, <1>11, <2>6
    <3>2. ASSUME NEW x \in Line(p)'
          PROVE  x = u \/ (Back(x, {3}) \in Line(p) /\ (Before(x, u) \/ x[1] >= 3))
      <4>1. CASE x[1] \in {0, 1}
        BY <1>7, <1>8, <3>1, <4>1 DEF Before
      <4>2. CASE x[1] = 2
        BY <1>7, <1>8, <3>1, <4>2 DEF Before
      <4>3. CASE x[1] \in {3, 4}
        BY <1>8, <4>3
      <4> QED BY <1>8, <4>1, <4>2, <4>3
    <3> QED BY <1>7, <2>1, <3>2 DEF MovedTo
  <2> QED BY <1>2, <1>11, <2>3, <2>4, <2>5, <2>6
<1> QED BY <1>10, <1>11

\* What p queued moves on: behind what was delivered, or behind all that is
\* on its way to the holder.
Flushed(p, b, n) ==
  /\ b \in {0, 1} /\ n \in Nat /\ client[p] = "none"
  /\ \A x \in Line(p)' :
       \/ x \in Line(p) /\ (x[1] > 2 \/ (x[1] = 0 /\ (b = 0 => x[2] <= n)))
       \/ x[1] = b /\ x[2] > n /\ <<2, x[2] - n, x[3]>> \in Line(p)

LEMMA FlushedKeepsOrder ==
  ASSUME LinesInOrder, NEW p \in Promises, NEW b, NEW n, Flushed(p, b, n)
  PROVE  InOrder(Line(p)')
<1> DEFINE L == Line(p)
           M == Line(p)'
<1>1. L \in SUBSET Places /\ M \in SUBSET Places /\ InOrder(L)
  BY DEF Line, LinesInOrder
<1>2. /\ b \in {0, 1} /\ n \in Nat
      /\ \A x \in M :
           \/ x \in L /\ (x[1] > 2 \/ (x[1] = 0 /\ (b = 0 => x[2] <= n)))
           \/ x[1] = b /\ x[2] > n /\ <<2, x[2] - n, x[3]>> \in L
  BY DEF Flushed
<1> HIDE DEF L, M
<1>3. InOrder(M)
  BY <1>1, <1>2, FlushKeepsOrder
<1> QED BY <1>3 DEF M

LEMMA PositionsOfConcat ==
  ASSUME NEW S, NEW s \in Seq(S), NEW v \in Seq(S), NEW t, t = s \o v
  PROVE  /\ Len(s) \in Nat
         /\ \A k \in DOMAIN t :
              /\ k \in Int
              /\ \/ k \in DOMAIN s /\ k <= Len(s) /\ t[k] = s[k]
                 \/ k > Len(s) /\ k - Len(s) \in DOMAIN v /\ k - Len(s) >= 1 /\ t[k] = v[k - Len(s)]
<1>1. /\ Len(s) \in Nat /\ Len(v) \in Nat /\ DOMAIN s = 1..Len(s) /\ DOMAIN v = 1..Len(v)
      /\ Len(t) = Len(s) + Len(v) /\ DOMAIN t = 1..(Len(s) + Len(v))
      /\ \A k \in 1..Len(t) : t[k] = IF k <= Len(s) THEN s[k] ELSE v[k - Len(s)]
  BY ConcatProperties, LenProperties
<1> QED BY <1>1

\* A settled promise sends its queued calls on in their order.
LEMMA ContinueLines ==
  ASSUME TypeInv, AnswerInv, HomeInv, NEW h \in Promises, NEW i \in Ids, Continue(h, i),
         NEW p \in Promises
  PROVE  LineKept(p, {}) \/ \E b, n : Flushed(p, b, n)
<1>1. /\ UNCHANGED <<via, reentered, toHost, imports, embargoed>>
      /\ delivered \in [Promises -> Seq(Calls)] /\ queue \in [Promises -> Seq(Calls)]
      /\ toHolder \in Seq(HolderMessage) /\ delivered[p] \in Seq(Calls) /\ queue[p] \in Seq(Calls)
      /\ Len(toHolder) \in Nat /\ Len(delivered[p]) \in Nat
  BY LenProperties DEF Continue, holderVars, TypeInv, OutcomeTypes, QueueTypes, ChannelTypes
<1>2. ASSUME NEW x \in Line(p)'
      PROVE  /\ x \in Places /\ x[1] \in 0..4 /\ x[2] \in Nat
             /\ x[1] = 0 => (delivered'[p] = delivered[p] => x \in Line(p))
             /\ x[1] = 1 => (toHolder' = toHolder => x \in Line(p))
             /\ x[1] = 2 => queue'[p] # <<>> /\ (queue'[p] = queue[p] => x \in Line(p))
             /\ x[1] \in {3, 4} => x \in Line(p)
  <2>1. /\ via'[x[3]] = via[x[3]] /\ (x[3] \in reentered => x[3] \in reentered')
        /\ UNCHANGED <<imports, embargoed, toHost>>
    BY <1>1
  <2>2. x \in Places /\ x[1] \in 0..4 /\ x[2] \in Nat
    BY PlaceFields DEF Line
  <2> QED BY <2>1, <2>2, Columns
<1>3. CASE UNCHANGED <<client, queue, wireRefs, toHolder, delivered, dropped>>
  <2>1. ASSUME NEW x \in Line(p)' PROVE x \in Places /\ x \in Line(p)
    BY <1>2, <1>3
  <2> QED BY <2>1 DEF LineKept, Back
<1>4. CASE entry[i] # 0 /\ client[entry[i]] = "none" /\ Settle(entry[i], i, question[h])
  <2>1. PICK e, r : e = entry[i] /\ r = question[h]
    OBVIOUS
  <2>2. e \in Promises /\ r \in Resolutions /\ Settle(e, i, r) /\ client[e] = "none"
    BY <1>4, <2>1 DEF Continue, TypeInv, TableTypes, HostTypes
  <2>3. /\ queue' = [queue EXCEPT ![e] = <<>>]
        /\ r \in {"known", "fresh"} => delivered' = [delivered EXCEPT ![e] = @ \o queue[e]]
        /\ r \notin {"known", "fresh"} => delivered' = delivered
    BY <2>2 DEF Settle
  <2>4. \A k \in DOMAIN toHolder' :
          \/ toHolder'[k].type = "resolve"
          \/ k \in DOMAIN toHolder /\ toHolder'[k] = toHolder[k]
          \/ /\ k > Len(toHolder) /\ r = "back" /\ k - Len(toHolder) \in DOMAIN queue[e]
             /\ toHolder'[k].num = queue[e][k - Len(toHolder)]
    <3>1. Msg("resolve", i, e, r).type = "resolve"
      BY DEF Msg
    <3>2. \E n \in Int :
            /\ n \in DOMAIN toHolder' /\ toHolder'[n] = Msg("resolve", i, e, r)
            /\ \A k \in DOMAIN toHolder :
                 k \in DOMAIN toHolder' /\ k < n /\ toHolder'[k] = toHolder[k]
            /\ \A k \in DOMAIN toHolder' :
                 /\ k \in Int
                 /\ \/ k = n \/ k \in DOMAIN toHolder
                    \/ /\ k > Len(toHolder) /\ k < n /\ toHolder'[k].type = "call"
                       /\ r = "back" /\ k - Len(toHolder) \in DOMAIN queue[e]
                       /\ toHolder'[k].num = queue[e][k - Len(toHolder)]
      BY <2>2, SettlePositions
    <3> QED BY <3>1, <3>2
  <2>5. ASSUME NEW x \in Line(p)', x[1] = 1
        PROVE  \/ x \in Line(p)
               \/ /\ e = p /\ x[2] > Len(toHolder) /\ r = "back"
                  /\ <<2, x[2] - Len(toHolder), x[3]>> \in Line(p)
    <3>1. CallAt(toHolder', x) /\ via[x[3]] = p /\ x \in Places
      BY <1>1, <2>5 DEF Line, Stands
    <3>2. x[2] \in DOMAIN toHolder' /\ toHolder'[x[2]].type = "call" /\ toHolder'[x[2]].num = x[3]
          /\ x[2] \in Nat /\ x[3] \in Calls
      BY <3>1, PlaceFields DEF CallAt
    <3>3. CASE x[2] \in DOMAIN toHolder /\ toHolder'[x[2]] = toHolder[x[2]]
      BY <2>5, <3>1, <3>2, <3>3 DEF Line, Stands, CallAt
    <3>4. CASE /\ x[2] > Len(toHolder) /\ r = "back" /\ x[2] - Len(toHolder) \in DOMAIN queue[e]
               /\ x[3] = queue[e][x[2] - Len(toHolder)]
      <4>1. x[3] \in Range(queue[e])
        BY <3>4 DEF Range
      <4>2. via[x[3]] = e
        BY <2>2, <4>1 DEF HomeInv, QueuesNamed
      <4>3. PICK y : y = <<2, x[2] - Len(toHolder), x[3]>>
        OBVIOUS
      <4>4. y \in Places /\ y[1] = 2 /\ y[2] = x[2] - Len(toHolder) /\ y[3] = x[3]
        BY <1>1, <3>2, <3>4, <4>3 DEF Places
      <4>5. IsAt(queue[e], y)
        BY <3>4, <4>4 DEF IsAt
      <4> QED BY <3>1, <3>4, <4>2, <4>3, <4>4, <4>5 DEF Line, Stands
    <3> QED BY <2>4, <3>2, <3>3, <3>4
  <2>6. CASE e # p
    <3>1. delivered'[p] = delivered[p] /\ queue'[p] = queue[p]
      BY <1>1, <2>2, <2>3, <2>6
    <3>2. ASSUME NEW x \in Line(p)' PROVE x \in Places /\ x \in Line(p)
      <4>1. x[1] = 1 => x \in Line(p)
        BY <2>5, <2>6
      <4> QED BY <1>2, <3>1, <4>1
    <3> QED BY <3>2 DEF LineKept, Back
  <2>7. CASE e = p
    <3>1. /\ queue'[p] = <<>> /\ client[p] = "none"
          /\ \A x \in Line(p) : x[1] # 1
      BY <1>1, <2>2, <2>3, <2>7, LineFacts
    <3>2. CASE r \in {"known", "fresh"}
      <4>1. delivered'[p] = delivered[p] \o queue[p]
        BY <1>1, <2>3, <2>7, <3>2
      <4>2. ASSUME NEW x \in Line(p)', x[1] = 0
            PROVE  \/ x \in Line(p) /\ x[2] <= Len(delivered[p])
                   \/ x[2] > Len(delivered[p]) /\ <<2, x[2] - Len(delivered[p]), x[3]>> \in Line(p)
        <5>1. IsAt(delivered'[p], x) /\ x[3] \notin reentered /\ x \in Places
          BY <1>1, <4>2 DEF Line, Stands
        <5>2. /\ x[2] \in DOMAIN delivered'[p] /\ delivered'[p][x[2]] = x[3]
              /\ x[2] \in Nat /\ x[3] \in Calls
          BY <5>1, PlaceFields DEF IsAt
        <5>3. \/ /\ x[2] \in DOMAIN delivered[p] /\ x[2] <= Len(delivered[p])
                 /\ delivered'[p][x[2]] = delivered[p][x[2]]
              \/ /\ x[2] > Len(delivered[p]) /\ x[2] - Len(delivered[p]) \in DOMAIN queue[p]
                 /\ x[2] - Len(delivered[p]) >= 1
                 /\ delivered'[p][x[2]] = queue[p][x[2] - Len(delivered[p])]
          BY <1>1, <4>1, <5>2, PositionsOfConcat
        <5>4. CASE x[2] \in DOMAIN delivered[p] /\ delivered'[p][x[2]] = delivered[p][x[2]]
          BY <4>2, <5>1, <5>2, <5>4 DEF Line, Stands, IsAt
        <5>5. CASE /\ x[2] > Len(delivered[p]) /\ x[2] - Len(delivered[p]) \in DOMAIN queue[p]
                   /\ x[2] - Len(delivered[p]) >= 1
                   /\ delivered'[p][x[2]] = queue[p][x[2] - Len(delivered[p])]
          <6>1. PICK y : y = <<2, x[2] - Len(delivered[p]), x[3]>>
            OBVIOUS
          <6>2. y \in Places /\ y[1] = 2 /\ y[2] = x[2] - Len(delivered[p]) /\ y[3] = x[3]
            <7>1. x[2] - Len(delivered[p]) \in Nat \ {0} /\ x[3] \in Calls
              BY <1>1, <5>2, <5>5
            <7> QED BY <6>1, <7>1 DEF Places
          <6>3. IsAt(queue[p], y)
            BY <5>2, <5>5, <6>2 DEF IsAt
          <6> QED BY <5>5, <6>1, <6>2, <6>3 DEF Line, Stands
        <5> QED BY <5>3, <5>4, <5>5
      <4>3. ASSUME NEW x \in Line(p)'
            PROVE  \/ x \in Line(p) /\ (x[1] > 2 \/ (x[1] = 0 /\ x[2] <= Len(delivered[p])))
                   \/ /\ x[1] = 0 /\ x[2] > Len(delivered[p])
                      /\ <<2, x[2] - Len(delivered[p]), x[3]>> \in Line(p)
        <5>1. x[1] # 1 /\ x[1] # 2
          BY <1>2, <2>5, <3>1, <3>2
        <5>2. x[1] \in {3, 4} => x \in Line(p) /\ x[1] > 2
          BY <1>2
        <5>3. x[1] \in {0, 3, 4}
          BY <1>2, <5>1
        <5> QED BY <4>2, <5>2, <5>3
      <4>4. Flushed(p, 0, Len(delivered[p]))
        BY <1>1, <3>1, <4>3 DEF Flushed
      <4> QED BY <4>4
    <3>3. CASE r \notin {"known", "fresh"}
      <4>1. delivered'[p] = delivered[p]
        BY <2>3, <3>3
      <4>2. ASSUME NEW x \in Line(p)'
            PROVE  \/ x \in Line(p) /\ (x[1] > 2 \/ x[1] = 0)
                   \/ /\ x[1] = 1 /\ x[2] > Len(toHolder)
                      /\ <<2, x[2] - Len(toHolder), x[3]>> \in Line(p)
        <5>1. x[1] # 2
          BY <1>2, <3>1
        <5>2. x[1] \in {0, 3, 4} => x \in Line(p) /\ (x[1] > 2 \/ x[1] = 0)
          BY <1>2, <4>1
        <5>3. x[1] \in {0, 1, 3, 4}
          BY <1>2, <5>1
        <5> QED BY <2>5, <3>1, <5>2, <5>3
      <4>3. Flushed(p, 1, Len(toHolder))
        BY <1>1, <3>1, <4>2 DEF Flushed
      <4> QED BY <4>3
    <3> QED BY <3>2, <3>3
  <2> QED BY <2>6, <2>7
<1> QED BY <1>3, <1>4 DEF Continue

\* The call that is made, and the places that were taken before.
LEMMA CallPlaces ==
  ASSUME TypeInv, AnswerInv, HomeInv, OneImport, NEW i \in Ids, Call(i),
         NEW p \in Promises, NEW x \in Line(p)'
  PROVE  \/ x \in Line(p)
         \/ /\ imports[i].of = p /\ x[3] = made + 1
            /\ \/ /\ x[1] = 0 /\ x[2] = Len(delivered[p]) + 1 /\ flushing # i
                  /\ imports[i].resolved = "back" /\ imports[i].embargo = 0
               \/ /\ x[1] = 3 /\ x[2] = Len(toHost) + 1
                  /\ imports[i].resolved \in {"none", "known"}
               \/ /\ x[1] = 4 /\ x[2] = Len(embargoed[i]) + 1
                  /\ imports[i].resolved = "back" /\ imports[i].embargo # 0
<1>0. PICK c : c = made + 1
  OBVIOUS
<1>1. /\ made \in Int /\ imports \in [Ids -> ImportEntry] /\ imports[i].refs >= imports[i].local
      /\ via \in [Calls -> {0} \cup Promises] /\ embargoed \in [Ids -> Seq(Calls)]
      /\ delivered \in [Promises -> Seq(Calls)] /\ delivered[p] \in Seq(Calls)
      /\ toHost \in Seq(HostMessage) /\ embargoed[i] \in Seq(Calls)
  BY DEF TypeInv, HolderTypes, EmbargoTypes, OutcomeTypes, ChannelTypes
<1>2. /\ c \in Calls /\ imports[i].local > 0 /\ UNCHANGED <<imports, queue, toHolder, flushing>>
      /\ via' = [via EXCEPT ![c] = imports[i].of]
      /\ reentered' = IF flushing = i THEN reentered \cup {c} ELSE reentered
      /\ CallOut(c, i)
  <2>1. c \in Calls
    <3>1. made \in 0..NCalls /\ made < NCalls /\ NCalls \in Nat
      BY PromiseCapsAssumption DEF Call, TypeInv, HolderTypes
    <3> QED BY <1>0, <3>1 DEF Calls
  <2> QED BY <1>0, <2>1 DEF Call, hostVars
<1>3. /\ x \in Places /\ x[2] \in Nat /\ x[3] \in Calls /\ x[3] \in Int
      /\ \/ x[1] = 0 /\ IsAt(delivered'[p], x) /\ x[3] \notin reentered'
         \/ x[1] = 1 /\ CallAt(toHolder', x) /\ via'[x[3]] = p
         \/ x[1] = 2 /\ IsAt(queue'[p], x)
         \/ x[1] = 3 /\ CallAt(toHost', x) /\ via'[x[3]] = p
         \/ x[1] = 4 /\ HeldAt(p, x)'
  <2>1. x \in Places /\ Stands(p, x)'
    BY DEF Line
  <2> QED BY <2>1, PlaceFields DEF Stands
<1>4. x[3] <= made => via'[x[3]] = via[x[3]] /\ (x[3] \in reentered => x[3] \in reentered')
  BY <1>0, <1>1, <1>2, <1>3
<1>5. CASE x[1] = 0 /\ IsAt(delivered'[p], x) /\ x[3] \notin reentered'
  <2>1. CASE IsAt(delivered[p], x)
    <3>1. x[3] \in Range(delivered[p])
      BY <2>1 DEF IsAt, Range
    <3>2. x[3] <= made
      BY <3>1 DEF HomeInv, QueuesNamed
    <3>3. x[3] \notin reentered
      BY <1>4, <1>5, <3>2
    <3> QED BY <1>3, <1>5, <2>1, <3>3 DEF Line, Stands
  <2>2. CASE ~ IsAt(delivered[p], x)
    <3>1. /\ imports[i].resolved = "back" /\ imports[i].embargo = 0
          /\ delivered' = [delivered EXCEPT ![imports[i].of] = Append(@, c)]
      BY <1>2, <1>5, <2>2 DEF CallOut
    <3>2. imports[i].of = p /\ delivered'[p] = Append(delivered[p], c)
      BY <1>1, <1>5, <2>2, <3>1
    <3>3. /\ DOMAIN delivered'[p] = DOMAIN delivered[p] \cup {Len(delivered[p]) + 1}
          /\ delivered'[p][Len(delivered[p]) + 1] = c
          /\ \A k \in DOMAIN delivered[p] : delivered'[p][k] = delivered[p][k]
      BY <1>1, <1>2, <3>2, PositionsOfAppend
    <3>4. x[2] = Len(delivered[p]) + 1 /\ x[3] = c
      BY <1>5, <2>2, <3>3 DEF IsAt
    <3>5. flushing # i
      BY <1>2, <1>5, <3>4
    <3> QED BY <1>0, <1>5, <3>1, <3>2, <3>4, <3>5
  <2> QED BY <2>1, <2>2
<1>6. CASE x[1] = 1 /\ CallAt(toHolder', x) /\ via'[x[3]] = p
  <2>1. /\ toHolder[x[2]] \in Range(toHolder) /\ toHolder[x[2]].type = "call"
        /\ toHolder[x[2]].num = x[3] /\ CallAt(toHolder, x)
    BY <1>2, <1>6 DEF CallAt, Range
  <2>2. x[3] <= made
    BY <2>1 DEF HomeInv, ForwardsNamed, ForwardNamed
  <2> QED BY <1>3, <1>4, <1>6, <2>1, <2>2 DEF Line, Stands
<1>7. CASE x[1] = 2 /\ IsAt(queue'[p], x)
  BY <1>2, <1>3, <1>7 DEF Line, Stands
<1>8. CASE x[1] = 3 /\ CallAt(toHost', x) /\ via'[x[3]] = p
  <2>1. CASE CallAt(toHost, x)
    <3>1. CallNamed(x[2]) /\ toHost[x[2]].num = x[3]
      BY <2>1 DEF CallAt, HomeInv, CallsNamed
    <3>2. x[3] <= made
      BY <3>1 DEF CallNamed
    <3> QED BY <1>3, <1>4, <1>8, <2>1, <3>2 DEF Line, Stands
  <2>2. CASE ~ CallAt(toHost, x)
    <3>1. toHost' # toHost
      BY <1>8, <2>2
    <3>2. PICK m : m = Msg("call", IF imports[i].resolved = "none" THEN i ELSE 0, c, "none")
      OBVIOUS
    <3>3. imports[i].resolved \in {"none", "known"} /\ toHost' = Append(toHost, m)
      BY <1>2, <3>1, <3>2 DEF CallOut
    <3>4. m \in HostMessage /\ m.num = c
      BY <1>2, <3>2, MessagesTyped DEF Msg
    <3>5. /\ DOMAIN toHost' = DOMAIN toHost \cup {Len(toHost) + 1}
          /\ toHost'[Len(toHost) + 1] = m
          /\ \A k \in DOMAIN toHost : toHost'[k] = toHost[k]
      BY <1>1, <3>3, <3>4, PositionsOfAppend
    <3>6. x[2] = Len(toHost) + 1 /\ x[3] = c
      BY <1>8, <2>2, <3>4, <3>5 DEF CallAt
    <3>7. imports[i].of = p
      BY <1>1, <1>2, <1>8, <3>6
    <3> QED BY <1>0, <1>8, <3>3, <3>6, <3>7
  <2> QED BY <2>1, <2>2
<1>9. CASE x[1] = 4 /\ HeldAt(p, x)'
  <2>1. PICK j \in Ids : imports[j].refs > 0 /\ imports[j].of = p /\ IsAt(embargoed'[j], x)
    BY <1>2, <1>9 DEF HeldAt
  <2>2. CASE IsAt(embargoed[j], x)
    BY <1>3, <1>9, <2>1, <2>2 DEF Line, Stands, HeldAt
  <2>3. CASE ~ IsAt(embargoed[j], x)
    <3>1. /\ imports[i].resolved = "back" /\ imports[i].embargo # 0
          /\ embargoed' = [embargoed EXCEPT ![i] = Append(@, c)]
      BY <1>2, <2>1, <2>3 DEF CallOut
    <3>2. j = i /\ embargoed'[i] = Append(embargoed[i], c)
      BY <1>1, <2>1, <2>3, <3>1
    <3>3. /\ DOMAIN embargoed'[i] = DOMAIN embargoed[i] \cup {Len(embargoed[i]) + 1}
          /\ embargoed'[i][Len(embargoed[i]) + 1] = c
          /\ \A k \in DOMAIN embargoed[i] : embargoed'[i][k] = embargoed[i][k]
      BY <1>1, <1>2, <3>2, PositionsOfAppend
    <3>4. x[2] = Len(embargoed[i]) + 1 /\ x[3] = c
      BY <2>1, <2>3, <3>2, <3>3 DEF IsAt
    <3> QED BY <1>0, <1>9, <2>1, <3>1, <3>2, <3>4
  <2> QED BY <2>2, <2>3
<1> QED BY <1>3, <1>5, <1>6, <1>7, <1>8, <1>9

\* y joins the line as the last.
Joined(p, y) ==
  /\ y \in Places /\ \A x \in Line(p) : x[3] < y[3]
  /\ \A x \in Line(p)' : x = y \/ (x \in Line(p) /\ Before(x, y))

LEMMA JoinedKeepsOrder ==
  ASSUME LinesInOrder, NEW p \in Promises, NEW y, Joined(p, y)
  PROVE  InOrder(Line(p)')
<1> DEFINE L == Line(p)
           M == Line(p)'
<1>1. L \in SUBSET Places /\ M \in SUBSET Places /\ InOrder(L)
  BY DEF Line, LinesInOrder
<1>2. /\ y \in Places /\ \A x \in L : x[3] < y[3]
      /\ \A x \in M : x = y \/ (x \in L /\ Before(x, y))
  BY DEF Joined
<1> HIDE DEF L, M
<1>3. InOrder(M)
  BY <1>1, <1>2, NewKeepsOrder
<1> QED BY <1>3 DEF M

LEMMA CallLines ==
  ASSUME TypeInv, AnswerInv, HomeInv, EmbargoInv, OneImport, NEW i \in Ids, Call(i),
         NEW p \in Promises
  PROVE  LineKept(p, {}) \/ \E y : Joined(p, y)
<1>1. CASE \A x \in Line(p)' : x \in Line(p)
  BY <1>1 DEF LineKept, Back, Line
<1>2. CASE \E y \in Line(p)' : y \notin Line(p)
  <2>1. PICK y \in Line(p)' : y \notin Line(p)
    BY <1>2
  <2>2. /\ imports[i].of = p /\ y[3] = made + 1 /\ y \in Places
        /\ \/ /\ y[1] = 0 /\ y[2] = Len(delivered[p]) + 1 /\ flushing # i
              /\ imports[i].resolved = "back" /\ imports[i].embargo = 0
           \/ /\ y[1] = 3 /\ y[2] = Len(toHost) + 1
              /\ imports[i].resolved \in {"none", "known"}
           \/ /\ y[1] = 4 /\ y[2] = Len(embargoed[i]) + 1
              /\ imports[i].resolved = "back" /\ imports[i].embargo # 0
    BY <2>1, CallPlaces DEF Line
  <2>3. /\ made \in Int /\ imports \in [Ids -> ImportEntry] /\ imports[i].refs > 0
        /\ delivered[p] \in Seq(Calls) /\ toHost \in Seq(HostMessage)
        /\ embargoed[i] \in Seq(Calls)
    BY DEF TypeInv, HolderTypes, EmbargoTypes, OutcomeTypes, ChannelTypes, Call, ImportEntry
  <2>4. imports[i].resolved = "back" => client[p] = "back"
    BY <2>2 DEF AnswerInv, ImportsSettled, Outcome
  <2>5. ASSUME NEW x \in Line(p)
        PROVE  /\ x \in Places /\ Stands(p, x) /\ x[1] \in 0..4 /\ x[2] \in Nat
               /\ x[3] \in Int /\ x[3] < y[3]
               /\ x[1] = 2 => client[p] # "back"
    <3>1. x \in Places /\ Stands(p, x) /\ x[3] <= made /\ (x[1] = 2 => client[p] # "back")
      BY LineFacts
    <3>2. x[1] \in 0..4 /\ x[2] \in Nat /\ x[3] \in Int
      BY <3>1, PlaceFields
    <3>3. x[3] < made + 1
      BY <2>3, <3>1, <3>2
    <3> QED BY <2>2, <3>1, <3>2, <3>3
  <2>6. ASSUME NEW x \in Line(p), x[1] = 4
        PROVE  /\ imports[i].resolved = "back" /\ x[2] < Len(embargoed[i]) + 1
               /\ embargoed[i] # <<>>
    <3>1. HeldAt(p, x)
      BY <2>5, <2>6 DEF Stands
    <3>2. PICK j \in Ids : imports[j].refs > 0 /\ imports[j].of = p /\ IsAt(embargoed[j], x)
      BY <3>1 DEF HeldAt
    <3>3. j = i
      BY <2>2, <2>3, <3>2 DEF OneImport
    <3>4. embargoed[i] # <<>> /\ x[2] \in DOMAIN embargoed[i]
      BY <3>2, <3>3, NothingAtEmpty DEF IsAt
    <3>5. x[2] < Len(embargoed[i]) + 1
      BY <2>3, <3>4, LenProperties
    <3> QED BY <3>4, <3>5, HeldImport
  <2>7. ASSUME NEW x \in Line(p) PROVE Before(x, y)
    <3>1. CASE y[1] = 0 /\ y[2] = Len(delivered[p]) + 1
      <4>1. /\ flushing # i /\ imports[i].resolved = "back" /\ imports[i].embargo = 0
        BY <2>2, <3>1
      <4>2. x[1] \notin {1, 3} /\ embargoed[i] = <<>>
        BY <2>2, <4>1 DEF EmbargoInv, WayIsClear
      <4>3. x[1] = 0
        BY <2>4, <2>5, <2>6, <4>1, <4>2
      <4>4. x[2] \in DOMAIN delivered[p]
        BY <2>5, <4>3 DEF Stands, IsAt
      <4>5. x[2] < Len(delivered[p]) + 1
        BY <2>3, <4>4, LenProperties
      <4> QED BY <3>1, <4>3, <4>5 DEF Before
    <3>2. CASE y[1] = 3 /\ y[2] = Len(toHost) + 1
      <4>1. x[1] # 4
        BY <2>2, <2>6, <3>2
      <4>2. ASSUME x[1] = 3 PROVE x[2] < y[2]
        <5>1. x[2] \in DOMAIN toHost
          BY <2>5, <4>2 DEF Stands, CallAt
        <5> QED BY <2>3, <3>2, <5>1, LenProperties
      <4> QED BY <2>5, <3>2, <4>1, <4>2 DEF Before
    <3>3. CASE y[1] = 4 /\ y[2] = Len(embargoed[i]) + 1
      <4>1. x[1] = 4 => x[2] < y[2]
        BY <2>6, <3>3
      <4> QED BY <2>5, <3>3, <4>1 DEF Before
    <3> QED BY <2>2, <3>1, <3>2, <3>3
  <2>8. ASSUME NEW x \in Line(p)' PROVE x = y \/ (x \in Line(p) /\ Before(x, y))
    <3>1. CASE x \in Line(p)
      BY <2>7, <3>1
    <3>2. CASE x \notin Line(p)
      <4>1. /\ x[3] = made + 1 /\ x \in Places
            /\ \/ /\ x[1] = 0 /\ x[2] = Len(delivered[p]) + 1 /\ imports[i].embargo = 0
                  /\ imports[i].resolved = "back"
               \/ x[1] = 3 /\ x[2] = Len(toHost) + 1 /\ imports[i].resolved \in {"none", "known"}
               \/ /\ x[1] = 4 /\ x[2] = Len(embargoed[i]) + 1 /\ imports[i].embargo # 0
                  /\ imports[i].resolved = "back"
        BY <3>2, CallPlaces DEF Line
      <4>2. x[1] = y[1] /\ x[2] = y[2] /\ x[3] = y[3]
        BY <2>2, <4>1
      <4>3. x = <<x[1], x[2], x[3]>> /\ y = <<y[1], y[2], y[3]>>
        BY <2>2, <4>1, PlaceFields
      <4> QED BY <4>2, <4>3
    <3> QED BY <3>1, <3>2
  <2>9. Joined(p, y)
    BY <2>2, <2>5, <2>8 DEF Joined
  <2> QED BY <2>9
<1> QED BY <1>1, <1>2

\* Every step keeps the order of the lines, given the embargo invariant.
LEMMA NextKeepsLines ==
  TypeInv /\ TypeInv' /\ RefInv /\ AnswerInv /\ ResolveInv /\ HomeInv /\ EmbargoInv /\ LinesInOrder
    /\ [Next]_vars => LinesInOrder'
<1> SUFFICES ASSUME TypeInv, TypeInv', RefInv, AnswerInv, ResolveInv, HomeInv, EmbargoInv,
                    LinesInOrder, [Next]_vars, NEW p \in Promises
             PROVE  InOrder(Line(p)')
  BY DEF LinesInOrder, InOrder
<1>1. OneImport
  BY ImportsAreUnique
<1>2. CASE \/ \E q \in Promises : PassPromise(q) \/ QuestionSettles(q)
           \/ HandleRelease \/ HandleSenderLoopback
           \/ HandlePromise \/ HandleResolve \/ HandleReceiverLoopback
           \/ LiftReturns \/ LiftEnds \/ UNCHANGED vars
           \/ \E i \in Ids : CloseRef(i)
  <2>1. LineKept(p, Taken)
    BY <1>2, QuietLinesKept
  <2>2. PICK T : T = Taken
    OBVIOUS
  <2>3. LineKept(p, T)
    BY <2>1, <2>2
  <2> QED BY <2>3, KeptKeepsOrder
<1>3. CASE HandleForwarded
  <2>1. CASE LineKept(p, {1})
    BY <2>1, KeptKeepsOrder
  <2>2. CASE \E y : MovedTo(p, {1}, 1, y)
    <3>1. PICK y : MovedTo(p, {1}, 1, y)
      BY <2>2
    <3>2. 1 \in {1} /\ 1 \in 0..4
      OBVIOUS
    <3> QED BY <3>1, <3>2, MovedKeepsOrder
  <2> QED BY <1>3, <2>1, <2>2, HandleForwardedLines
<1>4. CASE LiftNext
  <2>1. CASE LineKept(p, {})
    BY <2>1, KeptKeepsOrder
  <2>2. CASE \E y : MovedTo(p, {4}, 4, y)
    <3>1. PICK y : MovedTo(p, {4}, 4, y)
      BY <2>2
    <3>2. 4 \in {4} /\ 4 \in 0..4
      OBVIOUS
    <3> QED BY <3>1, <3>2, MovedKeepsOrder
  <2> QED BY <1>1, <1>4, <2>1, <2>2, LiftNextLines
<1>5. CASE HandleCall
  <2>1. CASE LineKept(p, {3})
    BY <2>1, KeptKeepsOrder
  <2>2. CASE \E y : MovedTo(p, {3}, 3, y)
    <3>1. PICK y : MovedTo(p, {3}, 3, y)
      BY <2>2
    <3>2. 3 \in {3} /\ 3 \in 0..4
      OBVIOUS
    <3> QED BY <3>1, <3>2, MovedKeepsOrder
  <2> QED BY <1>5, <2>1, <2>2, HandleCallLines
<1>6. CASE \E h \in Promises, i \in Ids : Continue(h, i)
  <2>1. LineKept(p, {}) \/ \E b, n : Flushed(p, b, n)
    BY <1>6, ContinueLines
  <2> QED BY <2>1, KeptKeepsOrder, FlushedKeepsOrder
<1>7. CASE \E i \in Ids : Call(i)
  <2>1. LineKept(p, {}) \/ \E y : Joined(p, y)
    BY <1>1, <1>7, CallLines
  <2> QED BY <2>1, KeptKeepsOrder, JoinedKeepsOrder
<1> QED BY <1>2, <1>3, <1>4, <1>5, <1>6, <1>7 DEF Next, HostStep, HolderStep

-----------------------------------------------------------------------------
(* The embargo.  dh and dl: how far the messages to the host and to the     *)
(* holder move up in a step.                                                *)

LoopbacksKept(dh) ==
  /\ \A k \in DOMAIN toHost' : toHost'[k].type = "loopback" =>
       k \in Int /\ k + dh \in DOMAIN toHost /\ toHost'[k] = toHost[k + dh]
  /\ \A k \in DOMAIN toHost : toHost[k].type = "loopback" =>
       k \in Int /\ k - dh \in DOMAIN toHost' /\ toHost'[k - dh] = toHost[k]

EchoesKept(dl) ==
  /\ \A k \in DOMAIN toHolder' : toHolder'[k].type = "echo" =>
       k \in Int /\ k + dl \in DOMAIN toHolder /\ toHolder'[k] = toHolder[k + dl]
  /\ \A k \in DOMAIN toHolder : toHolder[k].type = "echo" =>
       k \in Int /\ k - dl \in DOMAIN toHolder' /\ toHolder'[k - dl] = toHolder[k]

\* Nothing joins the calls that are on their way to the host, and to the
\* holder only what was.
WayKept(p, dh, dl) ==
  \A x \in Line(p)' :
    /\ x[1] = 3 => <<3, x[2] + dh, x[3]>> \in Line(p)
    /\ x[1] = 1 => <<1, x[2] + dl, x[3]>> \in Line(p) \/ \E z \in Line(p) : z[1] = 3

\* p became a capability of the holder.
SentBack(p) == \E i \in Ids : imports[i].of = p /\ imports[i].resolved = "back"

\* A sequence after one step: as it was, without its head, or one longer.
LEMMA PositionsInStep ==
  ASSUME NEW S, NEW s \in Seq(S), NEW t
  PROVE  /\ t = s =>
              /\ \A k \in DOMAIN t : k \in Int /\ k + 0 \in DOMAIN s /\ t[k] = s[k + 0]
              /\ \A k \in DOMAIN s : k \in Int /\ k - 0 \in DOMAIN t /\ t[k - 0] = s[k]
         /\ s # <<>> /\ t = Tail(s) =>
              /\ \A k \in DOMAIN t : k \in Int /\ k + 1 \in DOMAIN s /\ t[k] = s[k + 1]
              /\ \A k \in DOMAIN s : k \in Int /\ (s[k] = Head(s) \/ (k - 1 \in DOMAIN t /\ t[k - 1] = s[k]))
         /\ \A m \in S : t = Append(s, m) =>
              /\ \A k \in DOMAIN t :
                   k \in Int /\ (t[k] = m \/ (k + 0 \in DOMAIN s /\ t[k] = s[k + 0]))
              /\ \A k \in DOMAIN s : k \in Int /\ k - 0 \in DOMAIN t /\ t[k - 0] = s[k]
<1>1. \A k \in DOMAIN s : k \in Int /\ k + 0 = k /\ k - 0 = k
  <2>1. Len(s) \in Nat /\ DOMAIN s = 1..Len(s)
    BY LenProperties
  <2> QED BY <2>1
<1>2. ASSUME s # <<>>, t = Tail(s)
      PROVE  /\ \A k \in DOMAIN t : k \in Int /\ k + 1 \in DOMAIN s /\ t[k] = s[k + 1]
             /\ \A k \in DOMAIN s : k \in Int /\ (s[k] = Head(s) \/ (k - 1 \in DOMAIN t /\ t[k - 1] = s[k]))
  <2>1. s[1] = Head(s) /\ \A k \in DOMAIN t : k \in Int /\ k + 1 \in DOMAIN s /\ t[k] = s[k + 1]
    BY <1>2, PositionsOfTail
  <2>2. \A k \in DOMAIN s : k = 1 \/ (1 < k /\ k - 1 \in DOMAIN t /\ t[k - 1] = s[k])
    BY <1>2, PositionsBeforeTail
  <2> QED BY <1>1, <2>1, <2>2
<1>3. ASSUME NEW m \in S, t = Append(s, m)
      PROVE  /\ \A k \in DOMAIN t :
                  k \in Int /\ (t[k] = m \/ (k + 0 \in DOMAIN s /\ t[k] = s[k + 0]))
             /\ \A k \in DOMAIN s : k \in Int /\ k - 0 \in DOMAIN t /\ t[k - 0] = s[k]
  <2>1. /\ DOMAIN t = DOMAIN s \cup {Len(s) + 1} /\ Len(s) + 1 \in Int /\ t[Len(s) + 1] = m
        /\ \A k \in DOMAIN s : t[k] = s[k]
    BY <1>3, PositionsOfAppend
  <2> QED BY <1>1, <2>1
<1> QED BY <1>1, <1>2, <1>3

LEMMA MarksMove ==
  ASSUME ChannelTypes
  PROVE  /\ toHost' = toHost => LoopbacksKept(0)
         /\ toHost # <<>> /\ toHost' = Tail(toHost) /\ Head(toHost).type # "loopback"
              => LoopbacksKept(1)
         /\ \A m \in HostMessage : m.type # "loopback" /\ toHost' = Append(toHost, m)
              => LoopbacksKept(0)
         /\ toHolder' = toHolder => EchoesKept(0)
         /\ toHolder # <<>> /\ toHolder' = Tail(toHolder) /\ Head(toHolder).type # "echo"
              => EchoesKept(1)
         /\ \A m \in HolderMessage : m.type # "echo" /\ toHolder' = Append(toHolder, m)
              => EchoesKept(0)
<1>1. toHost \in Seq(HostMessage) /\ toHolder \in Seq(HolderMessage)
  BY DEF ChannelTypes
<1>2. ASSUME toHost' = toHost PROVE LoopbacksKept(0)
  <2>1. /\ \A k \in DOMAIN toHost' : k \in Int /\ k + 0 \in DOMAIN toHost /\ toHost'[k] = toHost[k + 0]
        /\ \A k \in DOMAIN toHost : k \in Int /\ k - 0 \in DOMAIN toHost' /\ toHost'[k - 0] = toHost[k]
    BY <1>1, <1>2, PositionsInStep
  <2> QED BY <2>1 DEF LoopbacksKept
<1>3. ASSUME toHost # <<>>, toHost' = Tail(toHost), Head(toHost).type # "loopback"
      PROVE  LoopbacksKept(1)
  <2>1. /\ \A k \in DOMAIN toHost' : k \in Int /\ k + 1 \in DOMAIN toHost /\ toHost'[k] = toHost[k + 1]
        /\ \A k \in DOMAIN toHost :
             k \in Int /\ (toHost[k] = Head(toHost)
                             \/ (k - 1 \in DOMAIN toHost' /\ toHost'[k - 1] = toHost[k]))
    BY <1>1, <1>3, PositionsInStep
  <2> QED BY <1>3, <2>1 DEF LoopbacksKept
<1>4. ASSUME NEW m \in HostMessage, m.type # "loopback", toHost' = Append(toHost, m)
      PROVE  LoopbacksKept(0)
  <2>1. /\ \A k \in DOMAIN toHost' :
             k \in Int /\ (toHost'[k] = m \/ (k + 0 \in DOMAIN toHost /\ toHost'[k] = toHost[k + 0]))
        /\ \A k \in DOMAIN toHost : k \in Int /\ k - 0 \in DOMAIN toHost' /\ toHost'[k - 0] = toHost[k]
    BY <1>1, <1>4, PositionsInStep
  <2> QED BY <1>4, <2>1 DEF LoopbacksKept
<1>5. ASSUME toHolder' = toHolder PROVE EchoesKept(0)
  <2>1. /\ \A k \in DOMAIN toHolder' :
             k \in Int /\ k + 0 \in DOMAIN toHolder /\ toHolder'[k] = toHolder[k + 0]
        /\ \A k \in DOMAIN toHolder :
             k \in Int /\ k - 0 \in DOMAIN toHolder' /\ toHolder'[k - 0] = toHolder[k]
    BY <1>1, <1>5, PositionsInStep
  <2> QED BY <2>1 DEF EchoesKept
<1>6. ASSUME toHolder # <<>>, toHolder' = Tail(toHolder), Head(toHolder).type # "echo"
      PROVE  EchoesKept(1)
  <2>1. /\ \A k \in DOMAIN toHolder' :
             k \in Int /\ k + 1 \in DOMAIN toHolder /\ toHolder'[k] = toHolder[k + 1]
        /\ \A k \in DOMAIN toHolder :
             k \in Int /\ (toHolder[k] = Head(toHolder)
                             \/ (k - 1 \in DOMAIN toHolder' /\ toHolder'[k - 1] = toHolder[k]))
    BY <1>1, <1>6, PositionsInStep
  <2> QED BY <1>6, <2>1 DEF EchoesKept
<1>7. ASSUME NEW m \in HolderMessage, m.type # "echo", toHolder' = Append(toHolder, m)
      PROVE  EchoesKept(0)
  <2>1. /\ \A k \in DOMAIN toHolder' :
             k \in Int /\ (toHolder'[k] = m
                             \/ (k + 0 \in DOMAIN toHolder /\ toHolder'[k] = toHolder[k + 0]))
        /\ \A k \in DOMAIN toHolder :
             k \in Int /\ k - 0 \in DOMAIN toHolder' /\ toHolder'[k - 0] = toHolder[k]
    BY <1>1, <1>7, PositionsInStep
  <2> QED BY <1>7, <2>1 DEF EchoesKept
<1> QED BY <1>2, <1>3, <1>4, <1>5, <1>6, <1>7

LEMMA TailIsOther ==
  ASSUME NEW S, NEW s \in Seq(S), s # <<>>
  PROVE  Tail(s) # s /\ \A m \in S : Append(s, m) # Tail(s)
<1>1. Len(Tail(s)) = Len(s) - 1 /\ Len(s) \in Nat
  BY HeadTailProperties, LenProperties
<1>2. \A m \in S : Len(Append(s, m)) = Len(s) + 1
  BY AppendProperties
<1>3. PICK n, k : n = Len(s) /\ k = Len(Tail(s))
  OBVIOUS
<1>4. n \in Nat /\ k # n /\ k # n + 1
  <2>1. n \in Nat /\ k = n - 1
    BY <1>1, <1>3
  <2> QED BY ONLY <2>1
<1>5. Tail(s) # s
  BY <1>3, <1>4
<1>6. ASSUME NEW m \in S PROVE Append(s, m) # Tail(s)
  BY <1>2, <1>3, <1>4
<1> QED BY <1>5, <1>6

\* A disembargo that is behind the calls stays behind them.
LEMMA StaysDrivenOut ==
  ASSUME NEW p \in Promises, NEW e, DrivenOut(e, Line(p)), NEW dh \in {0, 1}, NEW dl \in {0, 1},
         \A k \in DOMAIN toHost : IsLoopback(toHost[k], e) =>
           k \in Int /\ k - dh \in DOMAIN toHost' /\ toHost'[k - dh] = toHost[k],
         \A k \in DOMAIN toHolder : IsEcho(toHolder[k], e) =>
           k \in Int /\ k - dl \in DOMAIN toHolder' /\ toHolder'[k - dl] = toHolder[k],
         WayKept(p, dh, dl)
  PROVE  DrivenOut(e, Line(p))'
<1>1. ASSUME NEW x \in Line(p)'
      PROVE  /\ x[2] \in Nat
             /\ x[1] = 3 => <<3, x[2] + dh, x[3]>> \in Line(p)
             /\ x[1] = 1 => <<1, x[2] + dl, x[3]>> \in Line(p) \/ \E z \in Line(p) : z[1] = 3
  <2>1. x \in Places
    BY DEF Line
  <2> QED BY <2>1, PlaceFields DEF WayKept
<1>2. CASE \E k \in DOMAIN toHost : IsLoopback(toHost[k], e) /\ \A x \in Line(p) : x[1] = 3 => x[2] < k
  <2>1. PICK k \in DOMAIN toHost :
          IsLoopback(toHost[k], e) /\ \A x \in Line(p) : x[1] = 3 => x[2] < k
    BY <1>2
  <2>2. k \in Int /\ k - dh \in DOMAIN toHost' /\ toHost'[k - dh] = toHost[k]
    BY <2>1
  <2>3. ASSUME NEW x \in Line(p)', x[1] = 3 PROVE x[2] < k - dh
    <3>1. PICK z \in Line(p) : z = <<3, x[2] + dh, x[3]>>
      BY <1>1, <2>3
    <3>2. x[2] + dh < k
      BY <2>1, <3>1
    <3>3. x[2] \in Nat
      BY <1>1, <2>3
    <3>4. k \in Int
      BY <2>2
    <3> QED BY <3>2, <3>3, <3>4
  <2> QED BY <2>1, <2>2, <2>3 DEF DrivenOut, IsLoopback
<1>3. CASE /\ \E k \in DOMAIN toHolder :
                IsEcho(toHolder[k], e) /\ \A x \in Line(p) : x[1] = 1 => x[2] < k
           /\ \A x \in Line(p) : x[1] # 3
  <2>1. PICK k \in DOMAIN toHolder :
          IsEcho(toHolder[k], e) /\ \A x \in Line(p) : x[1] = 1 => x[2] < k
    BY <1>3
  <2>2. k \in Int /\ k - dl \in DOMAIN toHolder' /\ toHolder'[k - dl] = toHolder[k]
    BY <2>1
  <2>3. ASSUME NEW x \in Line(p)', x[1] = 1 PROVE x[2] < k - dl
    <3>1. PICK z \in Line(p) : z = <<1, x[2] + dl, x[3]>>
      BY <1>1, <1>3, <2>3
    <3>2. x[2] + dl < k
      BY <2>1, <3>1
    <3>3. x[2] \in Nat
      BY <1>1, <2>3
    <3>4. k \in Int
      BY <2>2
    <3> QED BY <3>2, <3>3, <3>4
  <2>4. ASSUME NEW x \in Line(p)' PROVE x[1] # 3
    <3>1. x[1] = 3 => \E z \in Line(p) : z[1] = 3
      <4>1. <<3, x[2] + dh, x[3]>>[1] = 3
        OBVIOUS
      <4> QED BY <1>1, <4>1
    <3> QED BY <1>3, <3>1
  <2> QED BY <2>1, <2>2, <2>3, <2>4 DEF DrivenOut, IsEcho
<1> QED BY <1>2, <1>3 DEF DrivenOut

\* How a message is sent or taken that is no Disembargo.
HostMoves(d) ==
  \/ d = 0 /\ toHost' = toHost
  \/ d = 0 /\ \E m \in HostMessage : m.type # "loopback" /\ toHost' = Append(toHost, m)
  \/ d = 1 /\ toHost # <<>> /\ toHost' = Tail(toHost) /\ Head(toHost).type # "loopback"

HolderMoves(d) ==
  \/ d = 0 /\ toHolder' = toHolder
  \/ d = 0 /\ \E m \in HolderMessage : m.type # "echo" /\ toHolder' = Append(toHolder, m)
  \/ d = 1 /\ toHolder # <<>> /\ toHolder' = Tail(toHolder) /\ Head(toHolder).type # "echo"

\* Disembargoes and their echoes stay behind the moves of a channel.
LEMMA MovesKeepMarks ==
  ASSUME ChannelTypes
  PROVE  /\ HostMoves(0) => LoopbacksKept(0)
         /\ HostMoves(1) => LoopbacksKept(1)
         /\ HolderMoves(0) => EchoesKept(0)
         /\ HolderMoves(1) => EchoesKept(1)
<1>1. HostMoves(0) => LoopbacksKept(0)
  BY MarksMove DEF HostMoves
<1>2. HostMoves(1) => LoopbacksKept(1)
  BY MarksMove DEF HostMoves
<1>3. HolderMoves(0) => EchoesKept(0)
  BY MarksMove DEF HolderMoves
<1>4. HolderMoves(1) => EchoesKept(1)
  BY MarksMove DEF HolderMoves
<1> QED BY <1>1, <1>2, <1>3, <1>4

\* Taken names the channels that a step takes the head of.
LEMMA TakenIs ==
  ASSUME ChannelTypes
  PROVE  /\ toHost' = toHost \/ (\E m \in HostMessage : toHost' = Append(toHost, m)) => 3 \notin Taken
         /\ toHost # <<>> /\ toHost' = Tail(toHost) => 3 \in Taken
         /\ toHolder' = toHolder \/ (\E m \in HolderMessage : toHolder' = Append(toHolder, m))
              => 1 \notin Taken
         /\ toHolder # <<>> /\ toHolder' = Tail(toHolder) => 1 \in Taken
<1>1. toHost \in Seq(HostMessage) /\ toHolder \in Seq(HolderMessage)
  BY DEF ChannelTypes
<1>2. toHost # <<>> => /\ Tail(toHost) # toHost
                       /\ \A m \in HostMessage : Append(toHost, m) # Tail(toHost)
  BY <1>1, TailIsOther
<1>3. toHolder # <<>> => /\ Tail(toHolder) # toHolder
                         /\ \A m \in HolderMessage : Append(toHolder, m) # Tail(toHolder)
  BY <1>1, TailIsOther
<1> QED BY <1>2, <1>3 DEF Taken

\* When a line is kept, so are the calls under way on it.
LEMMA WayOfLine ==
  ASSUME NEW p \in Promises, NEW T, LineKept(p, T), NEW dh, NEW dl,
         dh = IF 3 \in T THEN 1 ELSE 0, dl = IF 1 \in T THEN 1 ELSE 0
  PROVE  WayKept(p, dh, dl)
<1> SUFFICES ASSUME NEW x \in Line(p)'
             PROVE  /\ x[1] = 3 => <<3, x[2] + dh, x[3]>> \in Line(p)
                    /\ x[1] = 1 => <<1, x[2] + dl, x[3]>> \in Line(p)
  BY DEF WayKept
<1>1. x \in Places /\ Back(x, T) \in Line(p)
  BY DEF LineKept
<1>2. x = <<x[1], x[2], x[3]>> /\ x[2] \in Nat
  BY <1>1, PlaceFields
<1>3. x[1] = 3 => Back(x, T) = <<3, x[2] + dh, x[3]>>
  BY <1>2 DEF Back
<1>4. x[1] = 1 => Back(x, T) = <<1, x[2] + dl, x[3]>>
  BY <1>2 DEF Back
<1> QED BY <1>1, <1>3, <1>4

\* When the first call of a part moves on, no other joins the calls under way.
LEMMA WayOfMoved ==
  ASSUME NEW p \in Promises, NEW T, NEW a, NEW y, MovedTo(p, T, a, y), T \in {{1}, {3}, {4}},
         y[1] # 3, y[1] = 1 => a = 3, NEW dh, NEW dl,
         dh = IF 3 \in T THEN 1 ELSE 0, dl = IF 1 \in T THEN 1 ELSE 0
  PROVE  WayKept(p, dh, dl)
<1>1. /\ y \in Places /\ <<a, 1, y[3]>> \in Line(p)
      /\ \A x \in Line(p)' : x = y \/ Back(x, T) \in Line(p)
  BY DEF MovedTo
<1> SUFFICES ASSUME NEW x \in Line(p)'
             PROVE  /\ x[1] = 3 => <<3, x[2] + dh, x[3]>> \in Line(p)
                    /\ x[1] = 1 => <<1, x[2] + dl, x[3]>> \in Line(p) \/ \E z \in Line(p) : z[1] = 3
  BY DEF WayKept
<1>2. CASE x = y
  <2>1. a = 3 => <<a, 1, y[3]>>[1] = 3
    OBVIOUS
  <2> QED BY <1>1, <1>2, <2>1
<1>3. CASE Back(x, T) \in Line(p)
  <2>1. x \in Places
    BY DEF Line
  <2>2. x = <<x[1], x[2], x[3]>> /\ x[2] \in Nat
    BY <2>1, PlaceFields
  <2>3. x[1] = 3 => Back(x, T) = <<3, x[2] + dh, x[3]>>
    BY <2>2 DEF Back
  <2>4. x[1] = 1 => Back(x, T) = <<1, x[2] + dl, x[3]>>
    BY <2>2 DEF Back
  <2> QED BY <1>3, <2>3, <2>4
<1> QED BY <1>1, <1>2, <1>3

\* The import of a promise that was sent back.
LEMMA SentBackIs ==
  ASSUME AnswerInv, NEW i \in Ids, imports[i].resolved = "back"
  PROVE  imports[i].refs > 0 /\ imports[i].of \in Promises /\ client[imports[i].of] = "back"
BY DEF AnswerInv, ImportsSettled, Outcome

\* A step that lays and lifts no embargo.
PlainStep ==
  /\ \A i \in Ids :
       /\ imports'[i].embargo = imports[i].embargo
       /\ imports'[i].resolved = "back" =>
            imports[i].resolved = "back" /\ imports'[i].of = imports[i].of
       /\ embargoed'[i] # <<>> =>
            \/ embargoed[i] # <<>> /\ (flushing = i => flushing' = i)
            \/ imports[i].embargo # 0
  /\ disembargoes' = disembargoes /\ flushing' \in {0, flushing}
  /\ \E dh, dl \in {0, 1} :
       /\ LoopbacksKept(dh) /\ EchoesKept(dl)
       /\ \A p \in Promises : SentBack(p) => WayKept(p, dh, dl)

\* A step that lays and lifts no embargo keeps the embargo invariant.
LEMMA PlainStepsKeepEmbargo ==
  ASSUME TypeInv, AnswerInv, ResolveInv, EmbargoInv, ResolveInv', PlainStep
  PROVE  EmbargoInv'
<1>1. PICK dh \in {0, 1}, dl \in {0, 1} :
        /\ LoopbacksKept(dh) /\ EchoesKept(dl)
        /\ \A p \in Promises : SentBack(p) => WayKept(p, dh, dl)
  BY DEF PlainStep
<1>2. \A i \in Ids :
        /\ imports'[i].embargo = imports[i].embargo
        /\ imports'[i].resolved = "back" =>
             imports[i].resolved = "back" /\ imports'[i].of = imports[i].of
        /\ embargoed'[i] # <<>> =>
             \/ embargoed[i] # <<>> /\ (flushing = i => flushing' = i)
             \/ imports[i].embargo # 0
  BY DEF PlainStep
<1>3. disembargoes' = disembargoes /\ flushing' \in {0, flushing}
  BY DEF PlainStep
<1>4. FlushLifted'
  BY <1>2, <1>3 DEF EmbargoInv, FlushLifted, TypeInv, HolderTypes
<1>5. DisembargoesAgree'
  BY <1>2, <1>3 DEF EmbargoInv, DisembargoesAgree
<1>6. OneDisembargo'
  <2>1. /\ \A k \in DOMAIN toHost' : toHost'[k].type = "loopback" =>
             k \in Int /\ k + dh \in DOMAIN toHost /\ toHost'[k] = toHost[k + dh]
        /\ \A k \in DOMAIN toHolder' : toHolder'[k].type = "echo" =>
             k \in Int /\ k + dl \in DOMAIN toHolder /\ toHolder'[k] = toHolder[k + dl]
    BY <1>1 DEF LoopbacksKept, EchoesKept
  <2> SUFFICES ASSUME NEW e \in EmbargoIds
               PROVE  /\ \A k \in DOMAIN toHost' : IsLoopback(toHost'[k], e) =>
                           /\ disembargoes[e] # 0
                           /\ \A l \in DOMAIN toHost' : IsLoopback(toHost'[l], e) => k = l
                           /\ \A l \in DOMAIN toHolder' : ~ IsEcho(toHolder'[l], e)
                      /\ \A k \in DOMAIN toHolder' : IsEcho(toHolder'[k], e) =>
                           /\ disembargoes[e] # 0
                           /\ \A l \in DOMAIN toHolder' : IsEcho(toHolder'[l], e) => k = l
    BY <1>3 DEF OneDisembargo, IsLoopback, IsEcho
  <2>2. \A k \in DOMAIN toHost' : IsLoopback(toHost'[k], e) =>
          k \in Int /\ k + dh \in DOMAIN toHost /\ IsLoopback(toHost[k + dh], e)
    BY <2>1 DEF IsLoopback
  <2>3. \A k \in DOMAIN toHolder' : IsEcho(toHolder'[k], e) =>
          k \in Int /\ k + dl \in DOMAIN toHolder /\ IsEcho(toHolder[k + dl], e)
    BY <2>1 DEF IsEcho
  <2>4. /\ \A k \in DOMAIN toHost : IsLoopback(toHost[k], e) =>
             /\ disembargoes[e] # 0
             /\ \A l \in DOMAIN toHost : IsLoopback(toHost[l], e) => k = l
             /\ \A l \in DOMAIN toHolder : ~ IsEcho(toHolder[l], e)
        /\ \A k \in DOMAIN toHolder : IsEcho(toHolder[k], e) =>
             /\ disembargoes[e] # 0
             /\ \A l \in DOMAIN toHolder : IsEcho(toHolder[l], e) => k = l
    BY DEF EmbargoInv, OneDisembargo
  <2>5. ASSUME NEW k \in DOMAIN toHost', IsLoopback(toHost'[k], e)
        PROVE  /\ disembargoes[e] # 0
               /\ \A l \in DOMAIN toHost' : IsLoopback(toHost'[l], e) => k = l
               /\ \A l \in DOMAIN toHolder' : ~ IsEcho(toHolder'[l], e)
    <3>1. k \in Int /\ k + dh \in DOMAIN toHost /\ IsLoopback(toHost[k + dh], e)
      BY <2>2, <2>5
    <3>2. ASSUME NEW l \in DOMAIN toHost', IsLoopback(toHost'[l], e) PROVE k = l
      <4>1. l \in Int /\ l + dh \in DOMAIN toHost /\ IsLoopback(toHost[l + dh], e)
        BY <2>2, <3>2
      <4>2. k + dh = l + dh
        BY <2>4, <3>1, <4>1
      <4> QED BY <1>1, <3>1, <4>1, <4>2
    <3> QED BY <2>3, <2>4, <3>1, <3>2
  <2>6. ASSUME NEW k \in DOMAIN toHolder', IsEcho(toHolder'[k], e)
        PROVE  /\ disembargoes[e] # 0
               /\ \A l \in DOMAIN toHolder' : IsEcho(toHolder'[l], e) => k = l
    <3>1. k \in Int /\ k + dl \in DOMAIN toHolder /\ IsEcho(toHolder[k + dl], e)
      BY <2>3, <2>6
    <3>2. ASSUME NEW l \in DOMAIN toHolder', IsEcho(toHolder'[l], e) PROVE k = l
      <4>1. l \in Int /\ l + dl \in DOMAIN toHolder /\ IsEcho(toHolder[l + dl], e)
        BY <2>3, <3>2
      <4>2. k + dl = l + dl /\ k \in Int /\ l \in Int
        BY <2>4, <3>1, <4>1
      <4>3. dl \in Int
        BY <1>1
      <4>4. dl = 0 \/ dl = 1
        BY <1>1
      <4>5. CASE dl = 0
        BY ONLY <4>2, <4>5
      <4>6. CASE dl = 1
        BY ONLY <4>2, <4>6
      <4> QED BY <4>4, <4>5, <4>6
    <3> QED BY <2>4, <3>1, <3>2
  <2> QED BY <2>5, <2>6
<1>7. EmbargoHolds'
  <2> SUFFICES ASSUME NEW i \in Ids, imports'[i].embargo # 0
               PROVE  DrivenOut(imports[i].embargo, Line(imports[i].of))'
    BY DEF EmbargoHolds
  <2>1. imports'[i].resolved = "back"
    BY DEF ResolveInv, ImportsMarked
  <2>2. PICK e, p : e = imports[i].embargo /\ p = imports[i].of
    OBVIOUS
  <2>3. imports[i].resolved = "back" /\ imports'[i].of = p /\ imports'[i].embargo = e /\ e # 0
    BY <1>2, <2>1, <2>2
  <2>4. p \in Promises /\ SentBack(p)
    BY <2>2, <2>3, SentBackIs DEF SentBack
  <2>5. DrivenOut(e, Line(p)) /\ WayKept(p, dh, dl)
    BY <1>1, <2>2, <2>3, <2>4 DEF EmbargoInv, EmbargoHolds
  <2>6. /\ \A k \in DOMAIN toHost : IsLoopback(toHost[k], e) =>
             k \in Int /\ k - dh \in DOMAIN toHost' /\ toHost'[k - dh] = toHost[k]
        /\ \A k \in DOMAIN toHolder : IsEcho(toHolder[k], e) =>
             k \in Int /\ k - dl \in DOMAIN toHolder' /\ toHolder'[k - dl] = toHolder[k]
    BY <1>1 DEF LoopbacksKept, EchoesKept, IsLoopback, IsEcho
  <2>7. DrivenOut(e, Line(p))'
    BY <2>4, <2>5, <2>6, StaysDrivenOut
  <2> QED BY <2>3, <2>7
<1>8. WayIsClear'
  <2> SUFFICES ASSUME NEW i \in Ids, imports'[i].resolved = "back", imports'[i].embargo = 0
               PROVE  /\ \A x \in Line(imports[i].of)' : x[1] \notin {1, 3}
                      /\ flushing' # i => embargoed'[i] = <<>>
    BY DEF WayIsClear
  <2>1. PICK p : p = imports[i].of
    OBVIOUS
  <2>2. imports[i].resolved = "back" /\ imports'[i].of = p /\ imports[i].embargo = 0
    BY <1>2, <2>1
  <2>3. p \in Promises /\ SentBack(p)
    BY <2>1, <2>2, SentBackIs DEF SentBack
  <2>4. /\ \A x \in Line(p) : x[1] \notin {1, 3}
        /\ flushing # i => embargoed[i] = <<>>
    BY <2>1, <2>2 DEF EmbargoInv, WayIsClear
  <2>5. ASSUME NEW x \in Line(p)' PROVE x[1] \notin {1, 3}
    <3>1. /\ x[1] = 3 => <<3, x[2] + dh, x[3]>> \in Line(p)
          /\ x[1] = 1 => <<1, x[2] + dl, x[3]>> \in Line(p) \/ \E z \in Line(p) : z[1] = 3
      BY <1>1, <2>3 DEF WayKept
    <3>2. /\ <<3, x[2] + dh, x[3]>>[1] = 3
          /\ <<1, x[2] + dl, x[3]>>[1] = 1
      OBVIOUS
    <3> QED BY <2>4, <3>1, <3>2
  <2>6. flushing' # i => embargoed'[i] = <<>>
    BY <1>2, <2>2, <2>4
  <2> QED BY <2>2, <2>5, <2>6
<1> QED BY <1>4, <1>5, <1>6, <1>7, <1>8 DEF EmbargoInv

\* Where nothing was on its way nothing is.
LEMMA ClearStaysClear ==
  ASSUME NEW p, NEW dh, NEW dl, WayKept(p, dh, dl), \A x \in Line(p) : x[1] \notin {1, 3}
  PROVE  \A x \in Line(p)' : x[1] \notin {1, 3}
<1> SUFFICES ASSUME NEW x \in Line(p)' PROVE x[1] \notin {1, 3}
  OBVIOUS
<1>1. /\ x[1] = 3 => <<3, x[2] + dh, x[3]>> \in Line(p)
      /\ x[1] = 1 => <<1, x[2] + dl, x[3]>> \in Line(p) \/ \E z \in Line(p) : z[1] = 3
  BY DEF WayKept
<1>2. <<3, x[2] + dh, x[3]>>[1] = 3 /\ <<1, x[2] + dl, x[3]>>[1] = 1
  OBVIOUS
<1> QED BY <1>1, <1>2

\* The Disembargo reaches the host and is echoed.
LEMMA SenderLoopbackKeepsEmbargo ==
  ASSUME TypeInv, TypeInv', AnswerInv, ResolveInv, HomeInv, EmbargoInv, HandleSenderLoopback
  PROVE  EmbargoInv'
<1>1. UNCHANGED <<imports, embargoed, disembargoes, flushing>>
  BY DEF HandleSenderLoopback, holderVars
<1>2. /\ toHost \in Seq(HostMessage) /\ toHolder \in Seq(HolderMessage)
      /\ toHost # <<>> /\ toHost' = Tail(toHost)
  BY DEF HandleSenderLoopback, HostTakes, TypeInv, ChannelTypes
<1>3. PICK e : e = Head(toHost).num
  OBVIOUS
<1>4. Head(toHost).type = "loopback" /\ e \in EmbargoIds
  <2>1. Head(toHost) \in HostMessage /\ Head(toHost).type = "loopback"
    BY HostTakesTyped DEF HandleSenderLoopback, TypeInv
  <2> QED BY <1>3, <2>1, HostMessageFields
<1>5. PICK m : m = Msg("echo", 0, e, "none")
  OBVIOUS
<1>6. m \in HolderMessage /\ toHolder' = Append(toHolder, m) /\ m.type = "echo" /\ m.num = e
  BY <1>3, <1>4, <1>5, MessagesTyped DEF HandleSenderLoopback, Msg
<1>7. PICK n : n = Len(toHolder) + 1
  OBVIOUS
<1>8. /\ DOMAIN toHolder' = DOMAIN toHolder \cup {n} /\ n \notin DOMAIN toHolder /\ n \in Int
      /\ toHolder'[n] = m
      /\ \A k \in DOMAIN toHolder : k \in Int /\ k < n /\ toHolder'[k] = toHolder[k]
  BY <1>2, <1>6, <1>7, PositionsOfAppend
<1>9. /\ 1 \in DOMAIN toHost /\ IsLoopback(toHost[1], e)
      /\ \A k \in DOMAIN toHost' :
           k \in Int /\ k + 1 \in DOMAIN toHost /\ 1 < k + 1 /\ toHost'[k] = toHost[k + 1]
  BY <1>2, <1>3, <1>4, PositionsOfTail DEF IsLoopback
<1>10. \A k \in DOMAIN toHost :
         k \in Int /\ (k = 1 \/ (1 < k /\ k - 1 \in DOMAIN toHost' /\ toHost'[k - 1] = toHost[k]))
  BY <1>2, PositionsBeforeTail, PositionsOfTail
<1>11. /\ \A k \in DOMAIN toHost : IsLoopback(toHost[k], e) => k = 1
       /\ \A k \in DOMAIN toHolder : ~ IsEcho(toHolder[k], e)
       /\ disembargoes[e] # 0
  BY <1>4, <1>9 DEF EmbargoInv, OneDisembargo
<1>12. \A p \in Promises : WayKept(p, 1, 0)
  <2> SUFFICES ASSUME NEW p \in Promises PROVE WayKept(p, 1, 0)
    OBVIOUS
  <2>1. LineKept(p, Taken)
    BY QuietLinesKept
  <2>2. 3 \in Taken /\ 1 \notin Taken
    BY <1>2, <1>6, TakenIs DEF TypeInv
  <2> QED BY <2>1, <2>2, WayOfLine
<1>13. FlushLifted' /\ DisembargoesAgree'
  BY <1>1 DEF EmbargoInv, FlushLifted, DisembargoesAgree
<1>14. OneDisembargo'
  <2> SUFFICES ASSUME NEW f \in EmbargoIds
               PROVE  /\ \A k \in DOMAIN toHost' : IsLoopback(toHost'[k], f) =>
                           /\ disembargoes[f] # 0
                           /\ \A l \in DOMAIN toHost' : IsLoopback(toHost'[l], f) => k = l
                           /\ \A l \in DOMAIN toHolder' : ~ IsEcho(toHolder'[l], f)
                      /\ \A k \in DOMAIN toHolder' : IsEcho(toHolder'[k], f) =>
                           /\ disembargoes[f] # 0
                           /\ \A l \in DOMAIN toHolder' : IsEcho(toHolder'[l], f) => k = l
    BY <1>1 DEF OneDisembargo, IsLoopback, IsEcho
  <2>1. /\ \A k \in DOMAIN toHost : IsLoopback(toHost[k], f) =>
             /\ disembargoes[f] # 0
             /\ \A l \in DOMAIN toHost : IsLoopback(toHost[l], f) => k = l
             /\ \A l \in DOMAIN toHolder : ~ IsEcho(toHolder[l], f)
        /\ \A k \in DOMAIN toHolder : IsEcho(toHolder[k], f) =>
             /\ disembargoes[f] # 0
             /\ \A l \in DOMAIN toHolder : IsEcho(toHolder[l], f) => k = l
    BY DEF EmbargoInv, OneDisembargo
  <2>2. \A k \in DOMAIN toHolder' : IsEcho(toHolder'[k], f) =>
          \/ f = e /\ k = n
          \/ f # e /\ k \in DOMAIN toHolder /\ IsEcho(toHolder[k], f)
    BY <1>6, <1>8, <1>11 DEF IsEcho
  <2>3. \A k \in DOMAIN toHost' : IsLoopback(toHost'[k], f) =>
          f # e /\ k \in Int /\ k + 1 \in DOMAIN toHost /\ IsLoopback(toHost[k + 1], f)
    <3> SUFFICES ASSUME NEW k \in DOMAIN toHost', IsLoopback(toHost'[k], f)
                 PROVE  f # e /\ k \in Int /\ k + 1 \in DOMAIN toHost /\ IsLoopback(toHost[k + 1], f)
      OBVIOUS
    <3>1. k \in Int /\ k + 1 \in DOMAIN toHost /\ 1 < k + 1 /\ IsLoopback(toHost[k + 1], f)
      BY <1>9
    <3> QED BY <1>11, <3>1
  <2>4. ASSUME NEW k \in DOMAIN toHost', IsLoopback(toHost'[k], f)
        PROVE  /\ disembargoes[f] # 0
               /\ \A l \in DOMAIN toHost' : IsLoopback(toHost'[l], f) => k = l
               /\ \A l \in DOMAIN toHolder' : ~ IsEcho(toHolder'[l], f)
    <3>1. f # e /\ k \in Int /\ k + 1 \in DOMAIN toHost /\ IsLoopback(toHost[k + 1], f)
      BY <2>3, <2>4
    <3>2. ASSUME NEW l \in DOMAIN toHost', IsLoopback(toHost'[l], f) PROVE k = l
      <4>1. l \in Int /\ l + 1 \in DOMAIN toHost /\ IsLoopback(toHost[l + 1], f)
        BY <2>3, <3>2
      <4>2. k + 1 = l + 1
        BY <2>1, <3>1, <4>1
      <4> QED BY <3>1, <4>1, <4>2
    <3> QED BY <2>1, <2>2, <3>1, <3>2
  <2>5. ASSUME NEW k \in DOMAIN toHolder', IsEcho(toHolder'[k], f)
        PROVE  /\ disembargoes[f] # 0
               /\ \A l \in DOMAIN toHolder' : IsEcho(toHolder'[l], f) => k = l
    BY <1>11, <2>1, <2>2, <2>5
  <2> QED BY <2>4, <2>5
<1>15. EmbargoHolds'
  <2> SUFFICES ASSUME NEW i \in Ids, imports'[i].embargo # 0
               PROVE  DrivenOut(imports[i].embargo, Line(imports[i].of))'
    BY DEF EmbargoHolds
  <2>1. PICK f, p : f = imports[i].embargo /\ p = imports[i].of
    OBVIOUS
  <2>2. p \in Promises
    BY <1>1, <2>1, SentBackIs DEF ResolveInv, ImportsMarked
  <2>3. DrivenOut(f, Line(p)) /\ WayKept(p, 1, 0)
    BY <1>1, <1>12, <2>1, <2>2 DEF EmbargoInv, EmbargoHolds
  <2>4. CASE f = e
    <3>1. \A x \in Line(p) : x[1] # 3
      <4>1. \A x \in Line(p) : x[2] >= 1
        BY PlaceFields DEF Line
      <4>2. CASE \E k \in DOMAIN toHost :
                   IsLoopback(toHost[k], f) /\ \A x \in Line(p) : x[1] = 3 => x[2] < k
        <5>1. \A x \in Line(p) : x[1] = 3 => x[2] < 1
          BY <1>11, <2>4, <4>2
        <5>2. \A x \in Line(p) : x[2] \in Nat
          BY PlaceFields DEF Line
        <5> SUFFICES ASSUME NEW x \in Line(p), x[1] = 3 PROVE FALSE
          OBVIOUS
        <5>3. x[2] < 1 /\ x[2] >= 1 /\ x[2] \in Nat
          BY <4>1, <5>1, <5>2
        <5> QED BY <5>3
      <4> QED BY <2>3, <4>2 DEF DrivenOut
    <3>2. ASSUME NEW x \in Line(p)'
          PROVE  x[1] # 3 /\ (x[1] = 1 => x[2] < n)
      <4>1. x \in Places
        BY DEF Line
      <4>2. x = <<x[1], x[2], x[3]>> /\ x[2] \in Nat
        BY <4>1, PlaceFields
      <4>3. /\ x[1] = 3 => <<3, x[2] + 1, x[3]>> \in Line(p)
            /\ x[1] = 1 => <<1, x[2] + 0, x[3]>> \in Line(p)
        BY <2>3, <3>1 DEF WayKept
      <4>4. x[1] # 3
        <5>1. <<3, x[2] + 1, x[3]>>[1] = 3
          OBVIOUS
        <5> QED BY <3>1, <4>3, <5>1
      <4>5. ASSUME x[1] = 1 PROVE x[2] < n
        <5>1. x \in Line(p)
          BY <4>2, <4>3, <4>5
        <5>2. x[2] \in DOMAIN toHolder
          BY <4>5, <5>1 DEF Line, Stands, CallAt
        <5> QED BY <1>8, <5>2
      <4> QED BY <4>4, <4>5
    <3>3. n \in DOMAIN toHolder' /\ IsEcho(toHolder'[n], f)
      BY <1>6, <1>8, <2>4 DEF IsEcho
    <3>4. DrivenOut(f, Line(p))'
      BY <3>2, <3>3 DEF DrivenOut, IsEcho
    <3> QED BY <1>1, <2>1, <3>4
  <2>5. CASE f # e
    <3>1. \A k \in DOMAIN toHost : IsLoopback(toHost[k], f) =>
            k \in Int /\ k - 1 \in DOMAIN toHost' /\ toHost'[k - 1] = toHost[k]
      BY <1>9, <1>10, <2>5 DEF IsLoopback
    <3>2. \A k \in DOMAIN toHolder : IsEcho(toHolder[k], f) =>
            k \in Int /\ k - 0 \in DOMAIN toHolder' /\ toHolder'[k - 0] = toHolder[k]
      BY <1>8
    <3>3. DrivenOut(f, Line(p))'
      BY <2>2, <2>3, <3>1, <3>2, StaysDrivenOut
    <3> QED BY <1>1, <2>1, <3>3
  <2> QED BY <2>4, <2>5
<1>16. WayIsClear'
  <2> SUFFICES ASSUME NEW i \in Ids, imports'[i].resolved = "back", imports'[i].embargo = 0
               PROVE  /\ \A x \in Line(imports[i].of)' : x[1] \notin {1, 3}
                      /\ flushing' # i => embargoed'[i] = <<>>
    BY DEF WayIsClear
  <2>1. PICK p : p = imports[i].of
    OBVIOUS
  <2>2. p \in Promises
    BY <1>1, <2>1, SentBackIs
  <2>3. (\A x \in Line(p) : x[1] \notin {1, 3}) /\ WayKept(p, 1, 0)
          /\ (flushing # i => embargoed[i] = <<>>)
    BY <1>1, <1>12, <2>1, <2>2 DEF EmbargoInv, WayIsClear
  <2>4. \A x \in Line(p)' : x[1] \notin {1, 3}
    BY <2>3, ClearStaysClear
  <2> QED BY <1>1, <2>1, <2>3, <2>4
<1> QED BY <1>13, <1>14, <1>15, <1>16 DEF EmbargoInv

\* The echo comes back: the embargo is lifted and what it held is flushed.
LEMMA ReceiverLoopbackKeepsEmbargo ==
  ASSUME TypeInv, TypeInv', AnswerInv, ResolveInv, HomeInv, EmbargoInv, HandleReceiverLoopback
  PROVE  EmbargoInv'
<1>1. /\ toHost \in Seq(HostMessage) /\ toHolder \in Seq(HolderMessage)
      /\ toHolder # <<>> /\ toHolder' = Tail(toHolder) /\ flushing = 0
      /\ UNCHANGED <<toHost, embargoed>>
  BY DEF HandleReceiverLoopback, HolderTakes, TypeInv, ChannelTypes
<1>2. PICK e : e = Head(toHolder).num
  OBVIOUS
<1>3. Head(toHolder).type = "echo" /\ e \in EmbargoIds
  <2>1. Head(toHolder) \in HolderMessage /\ Head(toHolder).type = "echo"
    BY HolderTakesTyped DEF HandleReceiverLoopback, TypeInv
  <2> QED BY <1>2, <2>1, HolderMessageFields
<1>4. PICK j : j = disembargoes[e]
  OBVIOUS
<1>5. /\ 1 \in DOMAIN toHolder /\ IsEcho(toHolder[1], e)
      /\ \A k \in DOMAIN toHolder' :
           k \in Int /\ k + 1 \in DOMAIN toHolder /\ 1 < k + 1 /\ toHolder'[k] = toHolder[k + 1]
  BY <1>1, <1>2, <1>3, PositionsOfTail DEF IsEcho
<1>6. \A k \in DOMAIN toHolder :
        /\ k \in Int
        /\ k = 1 \/ (1 < k /\ k - 1 \in DOMAIN toHolder' /\ toHolder'[k - 1] = toHolder[k])
  BY <1>1, PositionsBeforeTail, PositionsOfTail
<1>7. /\ \A k \in DOMAIN toHolder : IsEcho(toHolder[k], e) => k = 1
      /\ \A k \in DOMAIN toHost : ~ IsLoopback(toHost[k], e)
      /\ j # 0
  BY <1>3, <1>4, <1>5 DEF EmbargoInv, OneDisembargo
<1>8. /\ imports \in [Ids -> ImportEntry] /\ disembargoes \in [EmbargoIds -> {0} \cup Ids]
      /\ j \in Ids
  BY <1>3, <1>4, <1>7 DEF TypeInv, HolderTypes
<1>9. /\ disembargoes' = [disembargoes EXCEPT ![e] = 0]
      /\ imports' = [imports EXCEPT ![j].embargo = 0] /\ flushing' = j
  BY <1>2, <1>4, <1>7 DEF HandleReceiverLoopback
<1>10. /\ imports'[j].embargo = 0 /\ imports'[j].of = imports[j].of
       /\ imports'[j].resolved = imports[j].resolved
       /\ \A i \in Ids : i # j => imports'[i] = imports[i]
       /\ disembargoes'[e] = 0 /\ \A f \in EmbargoIds : f # e => disembargoes'[f] = disembargoes[f]
  BY <1>3, <1>8, <1>9 DEF ImportEntry
<1>11. imports[j].embargo = e /\ \A i \in Ids : imports[i].embargo = e => i = j
  BY <1>3, <1>4, <1>8 DEF EmbargoInv, DisembargoesAgree
<1>12. \A p \in Promises : WayKept(p, 0, 1)
  <2> SUFFICES ASSUME NEW p \in Promises PROVE WayKept(p, 0, 1)
    OBVIOUS
  <2>1. LineKept(p, Taken)
    BY QuietLinesKept
  <2>2. 3 \notin Taken /\ 1 \in Taken
    BY <1>1, TakenIs DEF TypeInv
  <2> QED BY <2>1, <2>2, WayOfLine
<1>13. FlushLifted'
  BY <1>9, <1>10 DEF FlushLifted
<1>14. DisembargoesAgree'
  <2> SUFFICES ASSUME NEW f \in EmbargoIds, NEW i \in Ids
               PROVE  disembargoes'[f] = i <=> imports'[i].embargo = f
    BY DEF DisembargoesAgree
  <2>1. f # 0 /\ i # 0
    BY IdsArePositive DEF EmbargoIds
  <2>2. disembargoes[f] = i <=> imports[i].embargo = f
    BY DEF EmbargoInv, DisembargoesAgree
  <2>3. CASE f = e
    BY <1>10, <1>11, <2>1, <2>3
  <2>4. CASE f # e
    BY <1>10, <1>11, <2>1, <2>2, <2>4
  <2> QED BY <2>3, <2>4
<1>15. OneDisembargo'
  <2> SUFFICES ASSUME NEW f \in EmbargoIds
               PROVE  /\ \A k \in DOMAIN toHost : IsLoopback(toHost[k], f) =>
                           /\ disembargoes'[f] # 0
                           /\ \A l \in DOMAIN toHost : IsLoopback(toHost[l], f) => k = l
                           /\ \A l \in DOMAIN toHolder' : ~ IsEcho(toHolder'[l], f)
                      /\ \A k \in DOMAIN toHolder' : IsEcho(toHolder'[k], f) =>
                           /\ disembargoes'[f] # 0
                           /\ \A l \in DOMAIN toHolder' : IsEcho(toHolder'[l], f) => k = l
    BY <1>1 DEF OneDisembargo, IsLoopback, IsEcho
  <2>1. /\ \A k \in DOMAIN toHost : IsLoopback(toHost[k], f) =>
             /\ disembargoes[f] # 0
             /\ \A l \in DOMAIN toHost : IsLoopback(toHost[l], f) => k = l
             /\ \A l \in DOMAIN toHolder : ~ IsEcho(toHolder[l], f)
        /\ \A k \in DOMAIN toHolder : IsEcho(toHolder[k], f) =>
             /\ disembargoes[f] # 0
             /\ \A l \in DOMAIN toHolder : IsEcho(toHolder[l], f) => k = l
    BY DEF EmbargoInv, OneDisembargo
  <2>2. \A k \in DOMAIN toHolder' : IsEcho(toHolder'[k], f) =>
          f # e /\ k \in Int /\ k + 1 \in DOMAIN toHolder /\ IsEcho(toHolder[k + 1], f)
    <3> SUFFICES ASSUME NEW k \in DOMAIN toHolder', IsEcho(toHolder'[k], f)
                 PROVE  f # e /\ k \in Int /\ k + 1 \in DOMAIN toHolder /\ IsEcho(toHolder[k + 1], f)
      OBVIOUS
    <3>1. k \in Int /\ k + 1 \in DOMAIN toHolder /\ 1 < k + 1 /\ IsEcho(toHolder[k + 1], f)
      BY <1>5
    <3> QED BY <1>7, <3>1
  <2>3. ASSUME NEW k \in DOMAIN toHost, IsLoopback(toHost[k], f)
        PROVE  /\ disembargoes'[f] # 0
               /\ \A l \in DOMAIN toHost : IsLoopback(toHost[l], f) => k = l
               /\ \A l \in DOMAIN toHolder' : ~ IsEcho(toHolder'[l], f)
    <3>1. f # e
      BY <1>7, <2>3
    <3> QED BY <1>10, <2>1, <2>2, <2>3, <3>1
  <2>4. ASSUME NEW k \in DOMAIN toHolder', IsEcho(toHolder'[k], f)
        PROVE  /\ disembargoes'[f] # 0
               /\ \A l \in DOMAIN toHolder' : IsEcho(toHolder'[l], f) => k = l
    <3>1. f # e /\ k \in Int /\ k + 1 \in DOMAIN toHolder /\ IsEcho(toHolder[k + 1], f)
      BY <2>2, <2>4
    <3>2. ASSUME NEW l \in DOMAIN toHolder', IsEcho(toHolder'[l], f) PROVE k = l
      <4>1. l \in Int /\ l + 1 \in DOMAIN toHolder /\ IsEcho(toHolder[l + 1], f)
        BY <2>2, <3>2
      <4>2. k + 1 = l + 1
        BY <2>1, <3>1, <4>1
      <4> QED BY <3>1, <4>1, <4>2
    <3> QED BY <1>10, <2>1, <3>1, <3>2
  <2> QED BY <2>3, <2>4
<1>16. EmbargoHolds'
  <2> SUFFICES ASSUME NEW i \in Ids, imports'[i].embargo # 0
               PROVE  DrivenOut(imports[i].embargo, Line(imports[i].of))'
    BY DEF EmbargoHolds
  <2>1. PICK f, p : f = imports[i].embargo /\ p = imports[i].of
    OBVIOUS
  <2>2. i # j /\ imports'[i] = imports[i] /\ f # e /\ f # 0
    BY <1>10, <1>11, <2>1
  <2>3. p \in Promises
    BY <2>1, <2>2, SentBackIs DEF ResolveInv, ImportsMarked
  <2>4. DrivenOut(f, Line(p)) /\ WayKept(p, 0, 1)
    BY <1>12, <2>1, <2>2, <2>3 DEF EmbargoInv, EmbargoHolds
  <2>5. \A k \in DOMAIN toHost : IsLoopback(toHost[k], f) =>
          k \in Int /\ k - 0 \in DOMAIN toHost' /\ toHost'[k - 0] = toHost[k]
    <3>1. \A k \in DOMAIN toHost : k \in Int /\ k - 0 = k
      BY HostElements DEF TypeInv
    <3> QED BY <1>1, <3>1
  <2>6. \A k \in DOMAIN toHolder : IsEcho(toHolder[k], f) =>
          k \in Int /\ k - 1 \in DOMAIN toHolder' /\ toHolder'[k - 1] = toHolder[k]
    BY <1>5, <1>6, <2>2 DEF IsEcho
  <2>7. DrivenOut(f, Line(p))'
    BY <2>3, <2>4, <2>5, <2>6, StaysDrivenOut
  <2> QED BY <2>1, <2>2, <2>7
<1>17. WayIsClear'
  <2> SUFFICES ASSUME NEW i \in Ids, imports'[i].resolved = "back", imports'[i].embargo = 0
               PROVE  /\ \A x \in Line(imports[i].of)' : x[1] \notin {1, 3}
                      /\ flushing' # i => embargoed'[i] = <<>>
    BY DEF WayIsClear
  <2>1. PICK p : p = imports[i].of
    OBVIOUS
  <2>2. imports[i].resolved = "back" /\ imports'[i].of = p
    BY <1>10, <2>1
  <2>3. p \in Promises
    BY <2>1, <2>2, SentBackIs
  <2>4. \A x \in Line(p) : x[1] \notin {1, 3}
    <3>1. CASE i = j
      <4>1. DrivenOut(e, Line(p)) /\ e # 0
        BY <1>3, <1>11, <2>1, <3>1, IdsArePositive DEF EmbargoInv, EmbargoHolds, EmbargoIds
      <4>2. /\ \A x \in Line(p) : x[1] = 1 => x[2] < 1
            /\ \A x \in Line(p) : x[1] # 3
        BY <1>7, <4>1 DEF DrivenOut
      <4>3. \A x \in Line(p) : x[2] \in Nat /\ x[2] >= 1
        BY PlaceFields DEF Line
      <4> SUFFICES ASSUME NEW x \in Line(p), x[1] = 1 PROVE FALSE
        BY <4>2
      <4>4. x[2] < 1 /\ x[2] >= 1 /\ x[2] \in Nat
        BY <4>2, <4>3
      <4> QED BY <4>4
    <3>2. CASE i # j
      BY <1>10, <2>1, <2>2, <3>2 DEF EmbargoInv, WayIsClear
    <3> QED BY <3>1, <3>2
  <2>5. \A x \in Line(p)' : x[1] \notin {1, 3}
    BY <1>12, <2>3, <2>4, ClearStaysClear
  <2>6. flushing' # i => embargoed'[i] = <<>>
    <3>1. flushing' # i => i # j /\ flushing # i
      BY <1>1, <1>9, IdsArePositive
    <3> QED BY <1>1, <1>10, <2>2, <3>1 DEF EmbargoInv, WayIsClear
  <2> QED BY <2>2, <2>5, <2>6
<1> QED BY <1>13, <1>14, <1>15, <1>16, <1>17 DEF EmbargoInv

\* An import becomes a capability of the holder: an embargo is laid.
SentBackBy(i, e) ==
  /\ disembargoes[e] = 0 /\ imports[i].embargo = 0 /\ imports[i].refs > 0
  /\ imports'[i].resolved = "back" /\ imports'[i].embargo = e /\ imports'[i].of = imports[i].of
  /\ imports[i].of \in Promises
  /\ \A j \in Ids : j # i => imports'[j] = imports[j]
  /\ disembargoes' = [disembargoes EXCEPT ![e] = i]
  /\ toHost' = Append(toHost, Msg("loopback", i, e, "none"))
  /\ UNCHANGED <<flushing, embargoed>> /\ flushing = 0
  /\ toHolder # <<>> /\ toHolder' = Tail(toHolder) /\ Head(toHolder).type = "resolve"

LEMMA SentBackKeepsEmbargo ==
  ASSUME TypeInv, TypeInv', AnswerInv, ResolveInv, HomeInv, EmbargoInv, HandleResolve,
         NEW j \in Ids, NEW e \in EmbargoIds, SentBackBy(j, e)
  PROVE  EmbargoInv'
<1>1. /\ toHost \in Seq(HostMessage) /\ toHolder \in Seq(HolderMessage)
      /\ toHolder # <<>> /\ toHolder' = Tail(toHolder) /\ flushing = 0
      /\ Head(toHolder).type = "resolve" /\ UNCHANGED <<flushing, embargoed>>
  BY DEF SentBackBy, TypeInv, ChannelTypes
<1>2. PICK m : m = Msg("loopback", j, e, "none")
  OBVIOUS
<1>3. /\ m \in HostMessage /\ m.type = "loopback" /\ m.num = e /\ toHost' = Append(toHost, m)
  BY <1>2, MessagesTyped DEF SentBackBy, Msg
<1>4. PICK n : n = Len(toHost) + 1
  OBVIOUS
<1>5. /\ DOMAIN toHost' = DOMAIN toHost \cup {n} /\ n \notin DOMAIN toHost /\ n \in Int
      /\ toHost'[n] = m
      /\ \A k \in DOMAIN toHost : k \in Int /\ k < n /\ toHost'[k] = toHost[k]
  BY <1>1, <1>3, <1>4, PositionsOfAppend
<1>6. /\ disembargoes[e] = 0 /\ imports[j].embargo = 0 /\ imports[j].refs > 0
      /\ imports'[j].resolved = "back" /\ imports'[j].embargo = e
      /\ imports'[j].of = imports[j].of /\ imports[j].of \in Promises
      /\ \A i \in Ids : i # j => imports'[i] = imports[i]
      /\ disembargoes'[e] = j /\ \A f \in EmbargoIds : f # e => disembargoes'[f] = disembargoes[f]
  BY DEF SentBackBy, TypeInv, HolderTypes
<1>7. EchoesKept(1)
  <2>1. ChannelTypes /\ Head(toHolder).type # "echo"
    BY <1>1 DEF TypeInv
  <2> QED BY <1>1, <2>1, MarksMove
<1>8. /\ \A k \in DOMAIN toHost : ~ IsLoopback(toHost[k], e)
      /\ \A k \in DOMAIN toHolder : ~ IsEcho(toHolder[k], e)
  BY <1>6 DEF EmbargoInv, OneDisembargo
<1>9. \A p \in Promises : WayKept(p, 0, 1)
  <2> SUFFICES ASSUME NEW p \in Promises PROVE WayKept(p, 0, 1)
    OBVIOUS
  <2>1. LineKept(p, Taken)
    BY QuietLinesKept
  <2>2. 3 \notin Taken /\ 1 \in Taken
    BY <1>1, <1>3, TakenIs DEF TypeInv
  <2> QED BY <2>1, <2>2, WayOfLine
<1>10. FlushLifted'
  BY <1>1 DEF FlushLifted
<1>11. DisembargoesAgree'
  <2> SUFFICES ASSUME NEW f \in EmbargoIds, NEW i \in Ids
               PROVE  disembargoes'[f] = i <=> imports'[i].embargo = f
    BY DEF DisembargoesAgree
  <2>1. f # 0 /\ i # 0
    BY IdsArePositive DEF EmbargoIds
  <2>2. (disembargoes[f] = i <=> imports[i].embargo = f)
          /\ (disembargoes[f] = j <=> imports[j].embargo = f)
          /\ (disembargoes[e] = i <=> imports[i].embargo = e)
    BY DEF EmbargoInv, DisembargoesAgree
  <2>3. CASE f = e
    BY <1>6, <2>1, <2>2, <2>3
  <2>4. CASE f # e
    BY <1>6, <2>1, <2>2, <2>4
  <2> QED BY <2>3, <2>4
<1>12. OneDisembargo'
  <2> SUFFICES ASSUME NEW f \in EmbargoIds
               PROVE  /\ \A k \in DOMAIN toHost' : IsLoopback(toHost'[k], f) =>
                           /\ disembargoes'[f] # 0
                           /\ \A l \in DOMAIN toHost' : IsLoopback(toHost'[l], f) => k = l
                           /\ \A l \in DOMAIN toHolder' : ~ IsEcho(toHolder'[l], f)
                      /\ \A k \in DOMAIN toHolder' : IsEcho(toHolder'[k], f) =>
                           /\ disembargoes'[f] # 0
                           /\ \A l \in DOMAIN toHolder' : IsEcho(toHolder'[l], f) => k = l
    BY DEF OneDisembargo, IsLoopback, IsEcho
  <2>1. /\ \A k \in DOMAIN toHost : IsLoopback(toHost[k], f) =>
             /\ disembargoes[f] # 0
             /\ \A l \in DOMAIN toHost : IsLoopback(toHost[l], f) => k = l
             /\ \A l \in DOMAIN toHolder : ~ IsEcho(toHolder[l], f)
        /\ \A k \in DOMAIN toHolder : IsEcho(toHolder[k], f) =>
             /\ disembargoes[f] # 0
             /\ \A l \in DOMAIN toHolder : IsEcho(toHolder[l], f) => k = l
    BY DEF EmbargoInv, OneDisembargo
  <2>2. \A k \in DOMAIN toHolder' : IsEcho(toHolder'[k], f) =>
          k \in Int /\ k + 1 \in DOMAIN toHolder /\ IsEcho(toHolder[k + 1], f) /\ f # e
    BY <1>7, <1>8 DEF EchoesKept, IsEcho
  <2>3. \A k \in DOMAIN toHost' : IsLoopback(toHost'[k], f) =>
          \/ f = e /\ k = n
          \/ f # e /\ k \in DOMAIN toHost /\ IsLoopback(toHost[k], f)
    BY <1>3, <1>5, <1>8 DEF IsLoopback
  <2>4. f # e => disembargoes'[f] = disembargoes[f]
    BY <1>6
  <2>5. disembargoes'[e] # 0
    BY <1>6, IdsArePositive
  <2>6. ASSUME NEW k \in DOMAIN toHost', IsLoopback(toHost'[k], f)
        PROVE  /\ disembargoes'[f] # 0
               /\ \A l \in DOMAIN toHost' : IsLoopback(toHost'[l], f) => k = l
               /\ \A l \in DOMAIN toHolder' : ~ IsEcho(toHolder'[l], f)
    BY <2>1, <2>2, <2>3, <2>4, <2>5, <2>6
  <2>7. ASSUME NEW k \in DOMAIN toHolder', IsEcho(toHolder'[k], f)
        PROVE  /\ disembargoes'[f] # 0
               /\ \A l \in DOMAIN toHolder' : IsEcho(toHolder'[l], f) => k = l
    <3>1. f # e /\ k \in Int /\ k + 1 \in DOMAIN toHolder /\ IsEcho(toHolder[k + 1], f)
      BY <2>2, <2>7
    <3>2. ASSUME NEW l \in DOMAIN toHolder', IsEcho(toHolder'[l], f) PROVE k = l
      <4>1. l \in Int /\ l + 1 \in DOMAIN toHolder /\ IsEcho(toHolder[l + 1], f)
        BY <2>2, <3>2
      <4>2. k + 1 = l + 1
        BY <2>1, <3>1, <4>1
      <4> QED BY <3>1, <4>1, <4>2
    <3> QED BY <2>1, <2>4, <3>1, <3>2
  <2> QED BY <2>6, <2>7
<1>13. EmbargoHolds'
  <2> SUFFICES ASSUME NEW i \in Ids, imports'[i].embargo # 0
               PROVE  DrivenOut(imports[i].embargo, Line(imports[i].of))'
    BY DEF EmbargoHolds
  <2>1. PICK f, p : f = imports'[i].embargo /\ p = imports'[i].of
    OBVIOUS
  <2>2. CASE i = j
    <3>1. p \in Promises /\ f = e
      BY <1>6, <2>1, <2>2
    <3>2. ASSUME NEW x \in Line(p)', x[1] = 3 PROVE x[2] < n
      <4>1. x \in Places
        BY <3>2 DEF Line
      <4>2. x = <<x[1], x[2], x[3]>> /\ x[2] \in Nat
        BY <4>1, PlaceFields
      <4>3. <<3, x[2] + 0, x[3]>> \in Line(p)
        BY <1>9, <3>1, <3>2 DEF WayKept
      <4>4. x \in Line(p)
        BY <3>2, <4>2, <4>3
      <4>5. x[2] \in DOMAIN toHost
        BY <3>2, <4>4 DEF Line, Stands, CallAt
      <4> QED BY <1>5, <4>5
    <3>3. n \in DOMAIN toHost' /\ IsLoopback(toHost'[n], f)
      BY <1>3, <1>5, <3>1 DEF IsLoopback
    <3>4. DrivenOut(f, Line(p))'
      BY <3>2, <3>3 DEF DrivenOut, IsLoopback
    <3> QED BY <2>1, <3>4
  <2>3. CASE i # j
    <3>1. imports'[i] = imports[i]
      BY <1>6, <2>3
    <3>2. p \in Promises
      BY <2>1, <3>1, SentBackIs DEF ResolveInv, ImportsMarked
    <3>3. DrivenOut(f, Line(p)) /\ WayKept(p, 0, 1)
      BY <1>9, <2>1, <3>1, <3>2 DEF EmbargoInv, EmbargoHolds
    <3>4. \A k \in DOMAIN toHost : IsLoopback(toHost[k], f) =>
            k \in Int /\ k - 0 \in DOMAIN toHost' /\ toHost'[k - 0] = toHost[k]
      BY <1>5
    <3>5. \A k \in DOMAIN toHolder : IsEcho(toHolder[k], f) =>
            k \in Int /\ k - 1 \in DOMAIN toHolder' /\ toHolder'[k - 1] = toHolder[k]
      BY <1>7 DEF EchoesKept, IsEcho
    <3>6. DrivenOut(f, Line(p))'
      BY <3>2, <3>3, <3>4, <3>5, StaysDrivenOut
    <3> QED BY <2>1, <3>6
  <2> QED BY <2>2, <2>3
<1>14. WayIsClear'
  <2> SUFFICES ASSUME NEW i \in Ids, imports'[i].resolved = "back", imports'[i].embargo = 0
               PROVE  /\ \A x \in Line(imports[i].of)' : x[1] \notin {1, 3}
                      /\ flushing' # i => embargoed'[i] = <<>>
    BY DEF WayIsClear
  <2>1. PICK p : p = imports[i].of
    OBVIOUS
  <2>2. i # j
    BY <1>6, IdsArePositive DEF EmbargoIds
  <2>3. imports'[i] = imports[i]
    BY <1>6, <2>2
  <2>4. p \in Promises
    BY <2>1, <2>3, SentBackIs
  <2>5. /\ \A x \in Line(p) : x[1] \notin {1, 3}
        /\ flushing # i => embargoed[i] = <<>>
    BY <2>1, <2>3 DEF EmbargoInv, WayIsClear
  <2>6. \A x \in Line(p)' : x[1] \notin {1, 3}
    BY <1>9, <2>4, <2>5, ClearStaysClear
  <2> QED BY <1>1, <2>1, <2>3, <2>5, <2>6
<1> QED BY <1>10, <1>11, <1>12, <1>13, <1>14 DEF EmbargoInv

\* No import is closed under embargo.
EmbargoedStayOpen == "close embargoed" \notin Uses

\* What a step that keeps the lines does to the calls and marks under way.
LEMMA MovesGiveWay ==
  ASSUME ChannelTypes, NEW dh \in {0, 1}, NEW dl \in {0, 1}, HostMoves(dh), HolderMoves(dl),
         \A p \in Promises : LineKept(p, Taken)
  PROVE  LoopbacksKept(dh) /\ EchoesKept(dl) /\ \A p \in Promises : WayKept(p, dh, dl)
<1>1. LoopbacksKept(dh)
  <2>1. CASE dh = 0
    BY <2>1, MovesKeepMarks
  <2>2. CASE dh = 1
    BY <2>2, MovesKeepMarks
  <2> QED BY <2>1, <2>2
<1>2. EchoesKept(dl)
  <2>1. CASE dl = 0
    BY <2>1, MovesKeepMarks
  <2>2. CASE dl = 1
    BY <2>2, MovesKeepMarks
  <2> QED BY <2>1, <2>2
<1>3. /\ dh = 0 => 3 \notin Taken
      /\ dh = 1 => 3 \in Taken
  BY TakenIs DEF HostMoves
<1>4. /\ dl = 0 => 1 \notin Taken
      /\ dl = 1 => 1 \in Taken
  BY TakenIs DEF HolderMoves
<1>5. dh = (IF 3 \in Taken THEN 1 ELSE 0) /\ dl = (IF 1 \in Taken THEN 1 ELSE 0)
  BY <1>3, <1>4
<1>6. ASSUME NEW p \in Promises PROVE WayKept(p, dh, dl)
  BY <1>5, WayOfLine
<1> QED BY <1>1, <1>2, <1>6

\* Steps of the host, and the holder's that leave the way as it is.
LEMMA HostMessagesMove ==
  ASSUME TypeInv, AnswerInv, ResolveInv,
         \/ \E p \in Promises : PassPromise(p) \/ QuestionSettles(p)
         \/ HandleRelease \/ HandlePromise \/ LiftReturns \/ LiftEnds \/ UNCHANGED vars
         \/ \E i \in Ids : CloseRef(i)
  PROVE  \E dh, dl \in {0, 1} : HostMoves(dh) /\ HolderMoves(dl)
<1>1. ChannelTypes /\ imports \in [Ids -> ImportEntry]
  BY DEF TypeInv, HolderTypes
<1>2. ASSUME NEW p \in Promises, PassPromise(p)
      PROVE  HostMoves(0) /\ HolderMoves(0)
  <2>1. \E i \in Ids : toHolder' = Append(toHolder, Msg("promise", i, p, "none"))
    BY <1>2 DEF PassPromise, PassAgain, PassNew, Listed
  <2>2. \A i \in Ids : /\ Msg("promise", i, p, "none") \in HolderMessage
                       /\ Msg("promise", i, p, "none").type = "promise"
    BY MessagesTyped DEF Msg
  <2>3. \E m \in HolderMessage : m.type # "echo" /\ toHolder' = Append(toHolder, m)
    BY <2>1, <2>2
  <2> QED BY <1>2, <2>3 DEF PassPromise, HostMoves, HolderMoves
<1>3. CASE HandleRelease
  <2>1. toHost # <<>> /\ toHost' = Tail(toHost) /\ Head(toHost).type = "release" /\ toHolder' = toHolder
    BY <1>3 DEF HandleRelease, HostTakes
  <2> QED BY <2>1 DEF HostMoves, HolderMoves
<1>4. CASE HandlePromise
  <2>1. /\ toHolder # <<>> /\ toHolder' = Tail(toHolder) /\ Head(toHolder).type = "promise"
        /\ toHost' = toHost
    BY <1>4 DEF HandlePromise, HolderTakes
  <2> QED BY <2>1 DEF HostMoves, HolderMoves
<1>5. ASSUME NEW i \in Ids, CloseRef(i) PROVE HostMoves(0) /\ HolderMoves(0)
  <2>1. \/ toHost' = toHost
        \/ toHost' = Append(toHost, Msg("release", i, imports[i].refs, "none"))
    BY <1>5 DEF CloseRef, CloseImport
  <2>2. imports[i].refs \in Nat
    BY <1>1 DEF ImportEntry
  <2>3. /\ Msg("release", i, imports[i].refs, "none") \in HostMessage
        /\ Msg("release", i, imports[i].refs, "none").type = "release"
    BY <2>2, MessagesTyped DEF Msg
  <2> QED BY <1>5, <2>1, <2>3 DEF CloseRef, HostMoves, HolderMoves
<1>6. CASE \/ \E p \in Promises : QuestionSettles(p)
           \/ LiftReturns \/ LiftEnds \/ UNCHANGED vars
  <2>1. toHost' = toHost /\ toHolder' = toHolder
    BY <1>6 DEF QuestionSettles, LiftReturns, LiftEnds, vars
  <2> QED BY <2>1 DEF HostMoves, HolderMoves
<1> QED BY <1>2, <1>3, <1>4, <1>5, <1>6

\* Their imports.
LEMMA ImportsStayPlain ==
  ASSUME TypeInv, AnswerInv, ResolveInv, EmbargoInv, EmbargoedStayOpen,
         \/ \E p \in Promises : PassPromise(p) \/ QuestionSettles(p)
         \/ HandleRelease \/ HandlePromise \/ LiftReturns \/ LiftEnds \/ UNCHANGED vars
         \/ \E i \in Ids : CloseRef(i)
         \/ HandleCall \/ HandleForwarded \/ LiftNext
         \/ \E p \in Promises, i \in Ids : Continue(p, i)
         \/ \E i \in Ids : Call(i)
  PROVE  /\ \A i \in Ids :
              /\ imports'[i].embargo = imports[i].embargo
              /\ imports'[i].resolved = "back" =>
                   imports[i].resolved = "back" /\ imports'[i].of = imports[i].of
              /\ embargoed'[i] # <<>> =>
                   \/ embargoed[i] # <<>> /\ (flushing = i => flushing' = i)
                   \/ imports[i].embargo # 0
         /\ disembargoes' = disembargoes /\ flushing' \in {0, flushing}
<1>1. imports \in [Ids -> ImportEntry] /\ embargoed \in [Ids -> Seq(Calls)]
  BY DEF TypeInv, HolderTypes, EmbargoTypes
<1>2. CASE UNCHANGED <<imports, embargoed, disembargoes, flushing>>
  BY <1>2
<1>3. CASE LiftEnds
  BY <1>3 DEF LiftEnds
<1>4. CASE LiftNext
  <2>1. UNCHANGED <<imports, disembargoes, flushing>>
    BY <1>4 DEF LiftNext
  <2>2. \A i \in Ids : embargoed'[i] # <<>> => embargoed[i] # <<>>
    BY <1>1, <1>4 DEF LiftNext
  <2> QED BY <2>1, <2>2
<1>5. ASSUME NEW j \in Ids, Call(j)
      PROVE  /\ UNCHANGED <<imports, disembargoes, flushing>>
             /\ \A i \in Ids : embargoed'[i] = embargoed[i] \/ imports[i].embargo # 0
  <2>1. UNCHANGED <<imports, disembargoes, flushing>>
    BY <1>5 DEF Call
  <2>2. \/ embargoed' = embargoed
        \/ imports[j].embargo # 0 /\ \E c : embargoed' = [embargoed EXCEPT ![j] = Append(@, c)]
    BY <1>5 DEF Call, CallOut
  <2> QED BY <1>1, <2>1, <2>2
<1>6. ASSUME NEW j \in Ids, CloseRef(j)
      PROVE  /\ \A i \in Ids :
                  /\ imports'[i].embargo = imports[i].embargo
                  /\ imports'[i].resolved = "back" =>
                       imports[i].resolved = "back" /\ imports'[i].of = imports[i].of
                  /\ embargoed'[i] \in {<<>>, embargoed[i]}
             /\ disembargoes' = disembargoes /\ flushing' = flushing
  <2>1. imports[j].embargo = 0 /\ flushing' = flushing
    BY <1>6 DEF CloseRef, EmbargoedStayOpen
  <2>2. CASE /\ imports' = [imports EXCEPT ![j].local = @ - 1]
             /\ UNCHANGED <<embargoed, disembargoes>>
    <3>1. ASSUME NEW i \in Ids
          PROVE  /\ imports'[i].embargo = imports[i].embargo
                 /\ imports'[i].resolved = imports[i].resolved
                 /\ imports'[i].of = imports[i].of
      BY <1>1, <2>2 DEF ImportEntry
    <3> QED BY <2>1, <2>2, <3>1
  <2>3. CASE CloseImport(j)
    <3>1. disembargoes' = disembargoes
      <4>1. \A e \in EmbargoIds : disembargoes[e] # j
        BY <2>1, IdsArePositive DEF EmbargoInv, DisembargoesAgree, EmbargoIds
      <4> QED BY <2>3, <4>1 DEF CloseImport, TypeInv, HolderTypes
    <3>2. /\ imports' = [imports EXCEPT ![j] = NoImport]
          /\ embargoed' = [embargoed EXCEPT ![j] = <<>>]
      BY <2>3 DEF CloseImport
    <3>3. NoImport.embargo = 0 /\ NoImport.resolved = "none"
      BY DEF NoImport
    <3>4. ASSUME NEW i \in Ids
          PROVE  /\ imports'[i].embargo = imports[i].embargo
                 /\ imports'[i].resolved = "back" =>
                      imports[i].resolved = "back" /\ imports'[i].of = imports[i].of
                 /\ embargoed'[i] \in {<<>>, embargoed[i]}
      <4>1. CASE i = j
        <5>1. imports'[i] = NoImport /\ embargoed'[i] = <<>>
          BY <1>1, <3>2, <4>1
        <5> QED BY <2>1, <3>3, <4>1, <5>1
      <4>2. CASE i # j
        <5>1. imports'[i] = imports[i] /\ embargoed'[i] = embargoed[i]
          BY <1>1, <3>2, <4>2
        <5> QED BY <5>1
      <4> QED BY <4>1, <4>2
    <3> QED BY <2>1, <3>1, <3>4
  <2> QED BY <1>6, <2>2, <2>3 DEF CloseRef
<1>7. CASE HandlePromise
  <2>1. UNCHANGED <<embargoed, disembargoes, flushing>>
    BY <1>7 DEF HandlePromise
  <2>2. \A i \in Ids :
          /\ imports'[i].embargo = imports[i].embargo
          /\ imports'[i].resolved = "back" =>
               imports[i].resolved = "back" /\ imports'[i].of = imports[i].of
    <3>1. PICK m : m = Head(toHolder)
      OBVIOUS
    <3>2. /\ m.id \in Ids
          /\ \A i \in Ids : i # m.id => imports'[i] = imports[i]
          /\ imports[m.id].refs = 0 => imports'[m.id] = PromiseImport(m.num)
          /\ imports[m.id].refs > 0 =>
               /\ imports'[m.id].of = imports[m.id].of
               /\ imports'[m.id].resolved = imports[m.id].resolved
               /\ imports'[m.id].embargo = imports[m.id].embargo
      BY <1>7, <3>1, HandlePromiseImports
    <3>3. PICK r : r = imports[m.id].refs
      OBVIOUS
    <3>4. r \in Nat
      <4>1. imports[m.id] \in ImportEntry
        BY <1>1, <3>2
      <4> QED BY <3>3, <4>1 DEF ImportEntry
    <3>5. (r = 0 => ~ (r > 0)) /\ (r = 0 \/ r > 0)
      BY ONLY <3>4
    <3>6. imports[m.id].refs = 0 => imports[m.id].embargo = 0
      <4>1. imports[m.id].embargo # 0 => imports[m.id].resolved = "back"
        BY <3>2 DEF ResolveInv, ImportsMarked
      <4>2. imports[m.id].resolved = "back" => imports[m.id].refs > 0
        BY <3>2, SentBackIs
      <4> QED BY <3>3, <3>5, <4>1, <4>2
    <3>7. PromiseImport(m.num).embargo = 0 /\ PromiseImport(m.num).resolved = "none"
      BY DEF PromiseImport
    <3> QED BY <3>2, <3>3, <3>5, <3>6, <3>7
  <2> QED BY <2>1, <2>2
<1>8. \/ UNCHANGED <<imports, embargoed, disembargoes, flushing>>
      \/ LiftEnds \/ LiftNext \/ HandlePromise \/ \E i \in Ids : Call(i) \/ CloseRef(i)
  BY DEF PassPromise, QuestionSettles, HandleRelease, LiftReturns, vars, HandleCall,
         HandleForwarded, Continue, holderVars
<1>9. CASE \E j \in Ids : Call(j)
  BY <1>5, <1>9
<1>10. CASE \E j \in Ids : CloseRef(j)
  <2>1. /\ \A i \in Ids :
             /\ imports'[i].embargo = imports[i].embargo
             /\ imports'[i].resolved = "back" =>
                  imports[i].resolved = "back" /\ imports'[i].of = imports[i].of
             /\ embargoed'[i] \in {<<>>, embargoed[i]}
        /\ disembargoes' = disembargoes /\ flushing' = flushing
    BY <1>6, <1>10
  <2> QED BY <2>1
<1> QED BY <1>2, <1>3, <1>4, <1>7, <1>8, <1>9, <1>10

\* The steps that move no call lay and lift no embargo.
LEMMA QuietStepsArePlain ==
  ASSUME TypeInv, TypeInv', AnswerInv, ResolveInv, HomeInv, EmbargoInv, EmbargoedStayOpen,
         \/ \E p \in Promises : PassPromise(p) \/ QuestionSettles(p)
         \/ HandleRelease \/ HandlePromise \/ LiftReturns \/ LiftEnds \/ UNCHANGED vars
         \/ \E i \in Ids : CloseRef(i)
  PROVE  PlainStep
<1>1. \E dh, dl \in {0, 1} :
        LoopbacksKept(dh) /\ EchoesKept(dl) /\ \A p \in Promises : WayKept(p, dh, dl)
  <2>1. PICK dh \in {0, 1}, dl \in {0, 1} : HostMoves(dh) /\ HolderMoves(dl)
    BY HostMessagesMove
  <2>2. \A p \in Promises : LineKept(p, Taken)
    BY QuietLinesKept
  <2>3. ChannelTypes
    BY DEF TypeInv
  <2>4. LoopbacksKept(dh) /\ EchoesKept(dl) /\ \A p \in Promises : WayKept(p, dh, dl)
    BY <2>1, <2>2, <2>3, MovesGiveWay
  <2> QED BY <2>4
<1> QED BY <1>1, ImportsStayPlain DEF PlainStep

\* Neither does a step that takes one call further.
LEMMA DeliveriesArePlain ==
  ASSUME TypeInv, TypeInv', AnswerInv, ResolveInv, HomeInv, EmbargoInv, OneImport,
         EmbargoedStayOpen, HandleForwarded \/ HandleCall \/ LiftNext
  PROVE  PlainStep
<1>1. /\ ChannelTypes
      /\ 0 = (IF 3 \in {1} THEN 1 ELSE 0) /\ 1 = (IF 1 \in {1} THEN 1 ELSE 0)
      /\ 1 = (IF 3 \in {3} THEN 1 ELSE 0) /\ 0 = (IF 1 \in {3} THEN 1 ELSE 0)
      /\ 0 = (IF 3 \in {4} THEN 1 ELSE 0) /\ 0 = (IF 1 \in {4} THEN 1 ELSE 0)
      /\ 0 = (IF 3 \in {} THEN 1 ELSE 0) /\ 0 = (IF 1 \in {} THEN 1 ELSE 0)
  BY DEF TypeInv
<1>2. ASSUME HandleForwarded
      PROVE  \E dh, dl \in {0, 1} :
               LoopbacksKept(dh) /\ EchoesKept(dl) /\ \A p \in Promises : WayKept(p, dh, dl)
  <2>1. HostMoves(0) /\ HolderMoves(1)
    BY <1>2 DEF HandleForwarded, HolderTakes, HostMoves, HolderMoves
  <2>2. LoopbacksKept(0) /\ EchoesKept(1)
    BY <1>1, <2>1, MovesKeepMarks
  <2>3. ASSUME NEW p \in Promises PROVE WayKept(p, 0, 1)
    <3>1. CASE LineKept(p, {1})
      BY <1>1, <3>1, WayOfLine
    <3>2. ASSUME NEW y, y[1] = 0, MovedTo(p, {1}, 1, y) PROVE WayKept(p, 0, 1)
      BY <1>1, <3>2, WayOfMoved
    <3> QED BY <1>2, <3>1, <3>2, HandleForwardedLines
  <2> QED BY <2>2, <2>3
<1>3. ASSUME HandleCall
      PROVE  \E dh, dl \in {0, 1} :
               LoopbacksKept(dh) /\ EchoesKept(dl) /\ \A p \in Promises : WayKept(p, dh, dl)
  <2>1. HostMoves(1)
    BY <1>3 DEF HandleCall, HostTakes, HostMoves
  <2>2. HolderMoves(0)
    <3>1. PICK c : c = Head(toHost).num
      OBVIOUS
    <3>2. c \in Calls /\ (toHolder' = toHolder
                            \/ toHolder' = Append(toHolder, Msg("call", 0, c, "none")))
      BY <1>3, <3>1, HandleCallPlaces DEF HomeInv
    <3>3. Msg("call", 0, c, "none") \in HolderMessage /\ Msg("call", 0, c, "none").type # "echo"
      BY <3>2, MessagesTyped DEF Msg
    <3> QED BY <3>2, <3>3 DEF HolderMoves
  <2>3. LoopbacksKept(1) /\ EchoesKept(0)
    BY <1>1, <2>1, <2>2, MovesKeepMarks
  <2>4. ASSUME NEW p \in Promises PROVE WayKept(p, 1, 0)
    <3>1. CASE LineKept(p, {3})
      BY <1>1, <3>1, WayOfLine
    <3>2. ASSUME NEW y, y[1] \in {0, 1, 2}, MovedTo(p, {3}, 3, y) PROVE WayKept(p, 1, 0)
      BY <1>1, <3>2, WayOfMoved
    <3> QED BY <1>3, <3>1, <3>2, HandleCallLines
  <2> QED BY <2>3, <2>4
<1>4. ASSUME LiftNext
      PROVE  \E dh, dl \in {0, 1} :
               LoopbacksKept(dh) /\ EchoesKept(dl) /\ \A p \in Promises : WayKept(p, dh, dl)
  <2>1. HostMoves(0) /\ HolderMoves(0)
    BY <1>4 DEF LiftNext, HostMoves, HolderMoves
  <2>2. LoopbacksKept(0) /\ EchoesKept(0)
    BY <1>1, <2>1, MovesKeepMarks
  <2>3. ASSUME NEW p \in Promises PROVE WayKept(p, 0, 0)
    <3>1. CASE LineKept(p, {})
      BY <1>1, <3>1, WayOfLine
    <3>2. ASSUME NEW y, y[1] = 0, MovedTo(p, {4}, 4, y) PROVE WayKept(p, 0, 0)
      BY <1>1, <3>2, WayOfMoved
    <3> QED BY <1>4, <3>1, <3>2, LiftNextLines
  <2> QED BY <2>2, <2>3
<1>5. \E dh, dl \in {0, 1} :
        LoopbacksKept(dh) /\ EchoesKept(dl) /\ \A p \in Promises : WayKept(p, dh, dl)
  BY <1>2, <1>3, <1>4
<1> QED BY <1>5, ImportsStayPlain DEF PlainStep

\* A promise that was sent back has been settled and gets no new calls on the way.
LEMMA SettlementsArePlain ==
  ASSUME TypeInv, TypeInv', AnswerInv, ResolveInv, HomeInv, EmbargoInv,
         EmbargoedStayOpen, NEW h \in Promises, NEW i \in Ids, Continue(h, i)
  PROVE  PlainStep
<1>1. /\ ChannelTypes /\ toHost' = toHost
      /\ 0 = (IF 3 \in {} THEN 1 ELSE 0) /\ 0 = (IF 1 \in {} THEN 1 ELSE 0)
  BY DEF TypeInv, Continue
<1>2. LoopbacksKept(0)
  BY <1>1, MarksMove
<1>3. EchoesKept(0)
  <2>1. CASE toHolder' = toHolder
    BY <1>1, <2>1, MarksMove
  <2>2. CASE entry[i] # 0 /\ Settle(entry[i], i, question[h])
    <3>1. PICK e, r : e = entry[i] /\ r = question[h]
      OBVIOUS
    <3>2. e \in Promises /\ r \in Resolutions /\ Settle(e, i, r)
      BY <2>2, <3>1 DEF Continue, TypeInv, TableTypes, HostTypes
    <3>3. PICK n \in Int :
            /\ n \in DOMAIN toHolder' /\ toHolder'[n] = Msg("resolve", i, e, r)
            /\ \A k \in DOMAIN toHolder :
                 k \in DOMAIN toHolder' /\ k < n /\ toHolder'[k] = toHolder[k]
            /\ \A k \in DOMAIN toHolder' :
                 /\ k \in Int
                 /\ \/ k = n \/ k \in DOMAIN toHolder
                    \/ /\ k > Len(toHolder) /\ k < n /\ toHolder'[k].type = "call"
                       /\ r = "back" /\ k - Len(toHolder) \in DOMAIN queue[e]
                       /\ toHolder'[k].num = queue[e][k - Len(toHolder)]
      BY <3>2, SettlePositions
    <3>4. toHolder'[n].type = "resolve"
      BY <3>3 DEF Msg
    <3>5. \A k \in DOMAIN toHolder' : toHolder'[k].type = "echo" =>
            k \in Int /\ k \in DOMAIN toHolder /\ toHolder'[k] = toHolder[k]
      BY <3>3, <3>4
    <3>6. \A k \in DOMAIN toHolder : k \in Int /\ k + 0 = k /\ k - 0 = k
      BY <3>3
    <3>7. \A k \in Int : k + 0 = k
      OBVIOUS
    <3> QED BY <3>3, <3>5, <3>6, <3>7 DEF EchoesKept
  <2> QED BY <2>1, <2>2 DEF Continue
<1>4. ASSUME NEW p \in Promises, SentBack(p) PROVE WayKept(p, 0, 0)
  <2>1. client[p] = "back"
    BY <1>4, SentBackIs DEF SentBack
  <2>2. ~ \E b, n : Flushed(p, b, n)
    BY <2>1 DEF Flushed
  <2>3. LineKept(p, {})
    BY <2>2, ContinueLines
  <2> QED BY <1>1, <2>3, WayOfLine
<1> QED BY <1>2, <1>3, <1>4, ImportsStayPlain DEF PlainStep

\* Nor does a new call.
LEMMA CallsArePlain ==
  ASSUME TypeInv, TypeInv', AnswerInv, ResolveInv, HomeInv, EmbargoInv, OneImport,
         EmbargoedStayOpen, NEW i \in Ids, Call(i)
  PROVE  PlainStep
<1>1. ChannelTypes /\ toHolder' = toHolder
  BY DEF TypeInv, Call
<1>2. HostMoves(0) /\ HolderMoves(0)
  <2>1. made + 1 \in Calls
    BY DEF Call, Calls, TypeInv, HolderTypes
  <2>2. \/ toHost' = toHost
        \/ \E j \in {0, i} : toHost' = Append(toHost, Msg("call", j, made + 1, "none"))
    BY DEF Call, CallOut
  <2>3. \A j \in {0, i} : /\ Msg("call", j, made + 1, "none") \in HostMessage
                          /\ Msg("call", j, made + 1, "none").type # "loopback"
    BY <2>1, MessagesTyped DEF Msg
  <2> QED BY <1>1, <2>2, <2>3 DEF HostMoves, HolderMoves
<1>3. LoopbacksKept(0) /\ EchoesKept(0)
  BY <1>1, <1>2, MovesKeepMarks
<1>4. ASSUME NEW p \in Promises, SentBack(p), NEW x \in Line(p)'
      PROVE  /\ x[1] = 3 => <<3, x[2] + 0, x[3]>> \in Line(p)
             /\ x[1] = 1 => <<1, x[2] + 0, x[3]>> \in Line(p)
  <2>1. x \in Places
    BY <1>4 DEF Line
  <2>2. x = <<x[1], x[2], x[3]>> /\ x[2] \in Nat
    BY <2>1, PlaceFields
  <2>3. x[2] + 0 = x[2]
    BY <2>2
  <2>4. PICK j \in Ids : imports[j].of = p /\ imports[j].resolved = "back" /\ imports[j].refs > 0
    BY <1>4, SentBackIs DEF SentBack
  <2>5. imports[i].refs > 0
    <3>1. imports[i].local > 0 /\ imports[i].refs >= imports[i].local /\ imports[i] \in ImportEntry
      BY DEF Call, TypeInv, HolderTypes
    <3>2. PICK r, l : r = imports[i].refs /\ l = imports[i].local
      OBVIOUS
    <3>3. r \in Nat /\ l \in Nat /\ r >= l /\ l > 0
      BY <3>1, <3>2 DEF ImportEntry
    <3>4. r > 0
      BY ONLY <3>3
    <3> QED BY <3>2, <3>4
  <2>6. x[1] \in {1, 3} => x \in Line(p)
    <3>1. imports[i].of = p => i = j
      BY <2>4, <2>5 DEF OneImport
    <3>2. \/ x \in Line(p)
          \/ /\ imports[i].of = p
             /\ x[1] \in {0, 4} \/ imports[i].resolved \in {"none", "known"}
      BY <1>4, CallPlaces
    <3> QED BY <2>4, <3>1, <3>2
  <2> QED BY <2>2, <2>3, <2>6
<1>5. \A p \in Promises : SentBack(p) => WayKept(p, 0, 0)
  BY <1>4 DEF WayKept
<1> QED BY <1>3, <1>5, ImportsStayPlain DEF PlainStep

\* A Resolve lays an embargo when calls may still be under way, or needs none.
LEMMA ResolvesKeepEmbargo ==
  ASSUME TypeInv, TypeInv', AnswerInv, ResolveInv, ResolveInv', HomeInv, EmbargoInv, HandleResolve
  PROVE  EmbargoInv'
<1>1. PICK m : m = Head(toHolder)
  OBVIOUS
<1>2. /\ m \in HolderMessage /\ m.type = "resolve" /\ m.id \in Ids /\ m.num \in Promises
      /\ toHolder # <<>> /\ toHolder' = Tail(toHolder) /\ toHolder \in Seq(HolderMessage)
  BY <1>1, HandleResolveImports DEF ResolveInv
<1>3. \/ /\ UNCHANGED <<imports, disembargoes>>
         /\ \/ toHost' = toHost
            \/ toHost' = Append(toHost, Msg("release", m.id, 1, "none"))
      \/ /\ imports[m.id].isPromise /\ imports[m.id].resolved = "none"
         /\ imports[m.id].refs > 0 /\ imports[m.id].of = m.num
         /\ imports[m.id].embargo = 0
         /\ \A i \in Ids : i # m.id => imports'[i] = imports[i]
         /\ imports'[m.id].of = m.num /\ imports'[m.id].refs >= imports[m.id].refs
         /\ imports'[m.id].refs > 0 /\ ~ imports'[m.id].isPromise
         /\ \/ /\ imports'[m.id].resolved # "back" /\ imports'[m.id].embargo = 0
               /\ UNCHANGED <<toHost, disembargoes>>
            \/ /\ imports'[m.id].resolved = "back"
               /\ \E e \in EmbargoIds :
                    /\ disembargoes[e] = 0 /\ imports'[m.id].embargo = e
                    /\ disembargoes' = [disembargoes EXCEPT ![e] = m.id]
                    /\ toHost' = Append(toHost, Msg("loopback", m.id, e, "none"))
  BY <1>1, HandleResolveImports DEF ResolveInv
<1>4. UNCHANGED <<embargoed, flushing>> /\ flushing = 0
  BY DEF HandleResolve, HolderTakes
<1>5. CASE \E e \in EmbargoIds : SentBackBy(m.id, e)
  BY <1>2, <1>5, SentBackKeepsEmbargo
<1>6. CASE /\ \/ /\ UNCHANGED <<imports, disembargoes>>
                 /\ \/ toHost' = toHost
                    \/ toHost' = Append(toHost, Msg("release", m.id, 1, "none"))
              \/ /\ imports[m.id].embargo = 0
                 /\ \A i \in Ids : i # m.id => imports'[i] = imports[i]
                 /\ imports'[m.id].resolved # "back" /\ imports'[m.id].embargo = 0
                 /\ UNCHANGED <<toHost, disembargoes>>
  <2>1. HolderMoves(1) /\ HostMoves(0)
    <3>1. Msg("release", m.id, 1, "none") \in HostMessage /\ Msg("release", m.id, 1, "none").type = "release"
      BY <1>2, MessagesTyped DEF Msg
    <3> QED BY <1>1, <1>2, <1>6, <3>1 DEF HolderMoves, HostMoves
  <2>2. /\ ChannelTypes /\ \A p \in Promises : LineKept(p, Taken)
    BY QuietLinesKept DEF TypeInv
  <2>3. LoopbacksKept(0) /\ EchoesKept(1) /\ \A p \in Promises : WayKept(p, 0, 1)
    BY <2>1, <2>2, MovesGiveWay
  <2>4. \A i \in Ids :
          /\ imports'[i].embargo = imports[i].embargo
          /\ imports'[i].resolved = "back" =>
               imports[i].resolved = "back" /\ imports'[i].of = imports[i].of
          /\ embargoed'[i] = embargoed[i]
    BY <1>4, <1>6
  <2>5. PlainStep
    BY <1>4, <1>6, <2>3, <2>4 DEF PlainStep
  <2> QED BY <2>5, PlainStepsKeepEmbargo
<1> QED BY <1>1, <1>2, <1>3, <1>4, <1>5, <1>6 DEF SentBackBy

\* Every step keeps the embargo invariant.
LEMMA NextKeepsEmbargo ==
  ASSUME EmbargoedStayOpen
  PROVE  TypeInv /\ TypeInv' /\ RefInv /\ AnswerInv /\ ResolveInv /\ ResolveInv' /\ HomeInv
           /\ EmbargoInv /\ [Next]_vars => EmbargoInv'
<1> SUFFICES ASSUME TypeInv, TypeInv', RefInv, AnswerInv, ResolveInv, ResolveInv', HomeInv, EmbargoInv,
                    [Next]_vars
             PROVE  EmbargoInv'
  OBVIOUS
<1>1. OneImport
  BY ImportsAreUnique
<1>2. CASE \/ \E p \in Promises : PassPromise(p) \/ QuestionSettles(p)
           \/ HandleRelease \/ HandlePromise \/ LiftReturns \/ LiftEnds \/ UNCHANGED vars
           \/ \E i \in Ids : CloseRef(i)
  BY <1>2, QuietStepsArePlain, PlainStepsKeepEmbargo
<1>3. CASE HandleForwarded \/ HandleCall \/ LiftNext
  BY <1>1, <1>3, DeliveriesArePlain, PlainStepsKeepEmbargo
<1>4. CASE \E p \in Promises, i \in Ids : Continue(p, i)
  BY <1>4, SettlementsArePlain, PlainStepsKeepEmbargo
<1>5. CASE \E i \in Ids : Call(i)
  BY <1>1, <1>5, CallsArePlain, PlainStepsKeepEmbargo
<1>6. CASE HandleSenderLoopback
  BY <1>6, SenderLoopbackKeepsEmbargo
<1>7. CASE HandleReceiverLoopback
  BY <1>7, ReceiverLoopbackKeepsEmbargo
<1>8. CASE HandleResolve
  BY <1>8, ResolvesKeepEmbargo
<1> QED BY <1>2, <1>3, <1>4, <1>5, <1>6, <1>7, <1>8 DEF Next, HostStep, HolderStep

LEMMA InitOrder == Init => EmbargoInv /\ LinesInOrder
<1> SUFFICES ASSUME Init PROVE EmbargoInv /\ LinesInOrder
  OBVIOUS
<1>1. /\ toHost = <<>> /\ toHolder = <<>> /\ flushing = 0
      /\ \A i \in Ids : imports[i] = NoImport
      /\ \A e \in EmbargoIds : disembargoes[e] = 0
      /\ \A p \in Promises : delivered[p] = <<>> /\ queue[p] = <<>>
  BY DEF Init
<1>2. NoImport.refs = 0 /\ NoImport.resolved = "none" /\ NoImport.embargo = 0
  BY DEF NoImport
<1>3. FlushLifted /\ WayIsClear /\ EmbargoHolds
  BY <1>1, <1>2 DEF FlushLifted, WayIsClear, EmbargoHolds
<1>4. DisembargoesAgree
  BY <1>1, <1>2, IdsArePositive DEF DisembargoesAgree, EmbargoIds
<1>5. OneDisembargo
  BY <1>1 DEF OneDisembargo
<1>6. ASSUME NEW p \in Promises, NEW x \in Line(p) PROVE FALSE
  <2>1. ~ HeldAt(p, x)
    BY <1>1, <1>2 DEF HeldAt
  <2>2. x \in Places /\ Stands(p, x)
    BY <1>6 DEF Line
  <2> QED BY <1>1, <2>1, <2>2 DEF Stands, IsAt, CallAt
<1>7. LinesInOrder
  BY <1>6 DEF LinesInOrder, InOrder
<1> QED BY <1>3, <1>4, <1>5, <1>7 DEF EmbargoInv

LEMMA OrderHolds ==
  ASSUME "reuse pending" \notin Uses, "close embargoed" \notin Uses
  PROVE  Spec => [](TypeInv /\ EmbargoInv /\ LinesInOrder)
<1>1. TypeInv /\ TypeInv' /\ RefInv /\ AnswerInv /\ ResolveInv /\ ResolveInv' /\ HomeInv
        /\ (EmbargoInv /\ LinesInOrder) /\ [Next]_vars => (EmbargoInv /\ LinesInOrder)'
  BY NextKeepsEmbargo, NextKeepsLines DEF EmbargoedStayOpen
<1>2. Init => EmbargoInv /\ LinesInOrder
  BY InitOrder
<1>3. /\ Spec => []TypeInv
      /\ Spec => []RefInv
      /\ Spec => []AnswerInv
      /\ Spec => []ResolveInv
      /\ Spec => []HomeInv
  BY TypeInvHolds, RefInvHolds, AnswerInvHolds, ResolveInvHolds, HomeInvHolds
<1> QED BY <1>1, <1>2, <1>3, PTL DEF Spec

\* The delivered calls are the front of the line, so they are in its order.
LEMMA LinesDeliverInOrder == TypeInv /\ LinesInOrder => OrderedDelivery
<1> SUFFICES ASSUME TypeInv, LinesInOrder, NEW p \in Promises,
                    NEW j \in {l \in DOMAIN delivered[p] : delivered[p][l] \notin reentered},
                    NEW k \in {l \in DOMAIN delivered[p] : delivered[p][l] \notin reentered},
                    j < k
             PROVE  delivered[p][j] < delivered[p][k]
  BY DEF OrderedDelivery
<1>1. delivered[p] \in Seq(Calls)
  BY DEF TypeInv, OutcomeTypes
<1>2. \A l \in DOMAIN delivered[p] : l \in Nat \ {0} /\ delivered[p][l] \in Calls
  <2>1. DOMAIN delivered[p] = 1..Len(delivered[p]) /\ Len(delivered[p]) \in Nat
    BY <1>1, LenProperties
  <2> QED BY <1>1, <2>1, ElementOfSeq
<1>3. PICK x, y : x = <<0, j, delivered[p][j]>> /\ y = <<0, k, delivered[p][k]>>
  OBVIOUS
<1>4. x \in Places /\ y \in Places
  BY <1>2, <1>3 DEF Places
<1>5. /\ x[1] = 0 /\ x[2] = j /\ x[3] = delivered[p][j]
      /\ y[1] = 0 /\ y[2] = k /\ y[3] = delivered[p][k]
  BY <1>3
<1>6. x \in Line(p) /\ y \in Line(p)
  BY <1>4, <1>5 DEF Line, Stands, IsAt
<1>7. Before(x, y)
  BY <1>5 DEF Before
<1> QED BY <1>5, <1>6, <1>7 DEF LinesInOrder, InOrder

\* Calls made through a promise reach its capability in the order they were
\* made and once each, whichever way they go (Client.call, resolveExport-
\* PromiseCap, handleResolveMessage, handleDisembargoMessage, liftEmbargo).
THEOREM PromiseCallsInOrder ==
  ASSUME "reuse pending" \notin Uses, "close embargoed" \notin Uses
  PROVE  Spec => []OrderedDelivery
BY LinesDeliverInOrder, OrderHolds, PTL

===============================================================================
