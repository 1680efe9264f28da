----------------------------- MODULE PromiseCaps ------------------------------
(***************************************************************************)
(* A vat (the host) passes on a capability it is still waiting for: a      *)
(* pipelined capability of a question it has asked on another connection.  *)
(* It goes out as senderPromise and is announced by Resolve when the       *)
(* question is answered; the other vat (the holder) calls it at once, and  *)
(* embargoes its calls while a capability that turned out to be its own    *)
(* still has calls on the way (src/rpc/conn.ts, import-client.ts,          *)
(* promise-export-client.ts).                                              *)
(*                                                                         *)
(* Both directions of the connection are reliable FIFO channels.  Export 0 *)
(* is a capability the holder has had from the start.  Answers to calls    *)
(* are the subject of RpcCalls; here a call is delivered or dropped.       *)
(***************************************************************************)
EXTENDS Integers, Sequences, SequencesExt, Sums

CONSTANTS NPromises, \* questions of the host, one pipelined capability each
          NCalls,    \* calls of the holder, numbered as they are made
          MaxId,     \* promises are exported under the ids 1..MaxId
          MaxPass,   \* how often the host passes a promise on
          QueueCap,  \* callQueueSize (64 in the code)
          Answers,   \* how the questions may be answered: see below
          Uses       \* what the vats do that breaks a property: see below

Promises == 1..NPromises
Calls == 1..NCalls
Ids == 1..MaxId

\* A question is answered with a capability the host has exported under a
\* lower id (known), one it has not (fresh), one of the holder (back), or with
\* an exception (broken).
Resolutions == {"known", "fresh", "back", "broken"}

\* reuse pending: a promise is exported under an id whose former promise was
\*   released before its question was answered;
\* close embargoed: the holder closes a capability that is under embargo;
\* reenter: a method called from liftEmbargo calls the same capability.
AllUses == {"reuse pending", "close embargoed", "reenter"}

ASSUME PromiseCapsAssumption ==
  /\ NPromises \in Nat /\ NCalls \in Nat /\ MaxId \in Nat /\ MaxPass \in Nat
  /\ QueueCap \in Nat
  /\ Answers \subseteq Resolutions /\ Uses \subseteq AllUses

VARIABLES
  \* the host
  question,   \* of each promise: pending, or how it was answered
  entry,      \* Conn.exportPromises: the promise exported under an id, 0 if none
  wireRefs,   \* Export.wireRefs of these entries
  free, next, \* Conn.exportID: ids given back, last one first; next new id
  index,      \* exportPromiseIndex: the id a promise was last exported under
  awaiting,   \* continuations <<promise, id>> of addExportPromise
  client,     \* PromiseExportClient of each promise: what it resolved to
  queue,      \* and the calls it queues
  passed,     \* how often a promise was passed on
  \* the holder
  imports,    \* import entries and their ImportClients
  embargoed,  \* ImportClient.embargoQueue
  disembargoes, \* Conn.disembargoes: the import an embargo id belongs to
  flushing,   \* the import whose embargo queue is being flushed, 0 if none
  inHand,     \* the call whose method the flush runs, 0 if none
  made,       \* calls made so far
  via,        \* history: the promise a call was made through, 0 if none
  reentered,  \* history: calls made from inside a flush
  \* the connection, and what came of the calls
  toHost, toHolder, delivered, dropped

hostVars == <<question, entry, wireRefs, free, next, index, awaiting, client,
              queue, passed>>
holderVars == <<imports, embargoed, disembargoes, flushing, inHand, made, via,
                reentered>>
vars == <<hostVars, holderVars, toHost, toHolder, delivered, dropped>>

\* isPromise, resolved (self: a Ref to the import itself), refs and local as in
\* ImportEntry; of: history, the promise the descriptor was made for.
NoImport == [refs |-> 0, local |-> 0, isPromise |-> FALSE, resolved |-> "none",
             embargo |-> 0, of |-> 0]

PromiseImport(p) == [refs |-> 1, local |-> 1, isPromise |-> TRUE, resolved |-> "none",
                     embargo |-> 0, of |-> p]

\* Embargo ids, an unused one for each embargo.
EmbargoIds == Ids

\* num: a call, an embargo, or the references a Release gives back; for promise
\* and resolve history, the promise it is about.
Msg(type, i, n, to) == [type |-> type, id |-> i, num |-> n, to |-> to]

Init ==
  /\ question = [p \in Promises |-> "pending"]
  /\ entry = [i \in Ids |-> 0] /\ wireRefs = [i \in Ids |-> 0]
  /\ free = <<>> /\ next = 1
  /\ index = [p \in Promises |-> 0] /\ awaiting = {}
  /\ client = [p \in Promises |-> "none"]
  /\ queue = [p \in Promises |-> <<>>]
  /\ passed = 0
  /\ imports = [i \in Ids |-> NoImport]
  /\ embargoed = [i \in Ids |-> <<>>]
  /\ disembargoes = [e \in EmbargoIds |-> 0]
  /\ flushing = 0 /\ inHand = 0
  /\ made = 0 /\ via = [c \in Calls |-> 0] /\ reentered = {}
  /\ toHost = <<>> /\ toHolder = <<>>
  /\ delivered = [p \in Promises |-> <<>>] /\ dropped = {}

Deliver(c) == delivered' = [delivered EXCEPT ![via[c]] = Append(@, c)]
Drop(C) == dropped' = dropped \cup C

-----------------------------------------------------------------------------
(* The host.                                                               *)

IdToUse == IF free = <<>> THEN next ELSE Head(free)

TakeId ==
  IF free = <<>> THEN next' = next + 1 /\ UNCHANGED free
                 ELSE free' = Tail(free) /\ UNCHANGED next

\* exportPromiseIndex leads to an export promise.
Listed(p) == \E i \in Ids : index[p] = i /\ entry[i] # 0

\* Mutant: the index of exported promises does not tell questions apart.
PassAgainOfAny(p) ==
  \E i \in Ids :
    /\ entry[i] # 0
    /\ wireRefs' = [wireRefs EXCEPT ![i] = @ + 1]
    /\ toHolder' = Append(toHolder, Msg("promise", i, p, "none"))
    /\ UNCHANGED <<entry, free, next, index, awaiting, client, queue>>

\* addExportPromise for a promise in the table: counted once more, under the
\* id the index has for it.
PassAgain(p) ==
  /\ Listed(p)
  /\ wireRefs' = [wireRefs EXCEPT ![index[p]] = @ + 1]
  /\ toHolder' = Append(toHolder, Msg("promise", index[p], p, "none"))
  /\ UNCHANGED <<entry, free, next, index, awaiting, client, queue>>

\* addExportPromise: a new export and PromiseExportClient, and a continuation
\* that waits for the question.
PassNew(p) ==
  /\ ~Listed(p)
  /\ IdToUse \in Ids
  /\ "reuse pending" \in Uses \/ \A q \in Promises : <<q, IdToUse>> \notin awaiting
  /\ TakeId
  /\ entry' = [entry EXCEPT ![IdToUse] = p]
  /\ wireRefs' = [wireRefs EXCEPT ![IdToUse] = 1]
  /\ index' = [index EXCEPT ![p] = IdToUse]
  /\ awaiting' = awaiting \cup {<<p, IdToUse>>}
  /\ client' = [client EXCEPT ![p] = "none"]
  /\ queue' = [queue EXCEPT ![p] = <<>>]
  /\ toHolder' = Append(toHolder, Msg("promise", IdToUse, p, "none"))

\* descriptorForClient of a pipelined capability whose question is in progress.
PassPromise(p) ==
  /\ passed < MaxPass
  /\ question[p] = "pending"
  /\ PassAgain(p) \/ PassNew(p)
  /\ passed' = passed + 1
  /\ UNCHANGED <<question, holderVars, toHost, delivered, dropped>>

\* The Return on the other connection.
QuestionSettles(p) ==
  /\ question[p] = "pending"
  /\ \E r \in Answers : question' = [question EXCEPT ![p] = r]
  /\ UNCHANGED <<entry, wireRefs, free, next, index, awaiting, client, queue, passed,
                 holderVars, toHost, toHolder, delivered, dropped>>

\* The calls in s sent on to the holder's own capability.
Forwards(s) == [k \in 1..Len(s) |-> Msg("call", 0, s[k], "none")]

\* resolveExportPromiseCap and resolveExportPromiseException: the queue is
\* flushed to the capability, or rejected, and then Resolve is sent.  For its
\* descriptor addExport looks for an export of the same capability: the first
\* it finds is an earlier one, or else that of the promise itself, which is
\* the same client once it is resolved (isSameClient).
Settle(e, i, r) ==
  /\ client' = [client EXCEPT ![e] = r]
  /\ queue' = [queue EXCEPT ![e] = <<>>]
  /\ wireRefs' = IF r = "fresh" THEN [wireRefs EXCEPT ![i] = @ + 1] ELSE wireRefs
  /\ delivered' = IF r \in {"known", "fresh"}
                  THEN [delivered EXCEPT ![e] = @ \o queue[e]] ELSE delivered
  /\ Drop(IF r = "broken" THEN Range(queue[e]) ELSE {})
  /\ toHolder' = toHolder \o (IF r = "back" THEN Forwards(queue[e]) ELSE <<>>)
                          \o <<Msg("resolve", i, e, r)>>

\* The continuation of addExportPromise: it finds whatever promise has its id
\* now, unless that is settled or gone.
Continue(p, i) ==
  /\ <<p, i>> \in awaiting
  /\ question[p] # "pending"
  /\ awaiting' = awaiting \ {<<p, i>>}
  /\ IF entry[i] = 0 \/ (entry[i] # 0 /\ client[entry[i]] # "none")
     THEN UNCHANGED <<client, queue, wireRefs, toHolder, delivered, dropped>>
     ELSE Settle(entry[i], i, question[p])
  /\ UNCHANGED <<question, entry, free, next, index, passed, holderVars, toHost>>

-----------------------------------------------------------------------------
(* Messages the host receives.                                             *)

HostTakes(type) == toHost # <<>> /\ Head(toHost).type = type /\ toHost' = Tail(toHost)

\* Mutant: no bound.
ExportCallUnbounded(e, c) ==
  /\ queue' = [queue EXCEPT ![e] = Append(@, c)]
  /\ UNCHANGED <<delivered, toHolder, dropped>>

\* PromiseExportClient.call.  A rejected promise is not resolved: it queues.
ExportCall(e, c) ==
  \/ /\ client[e] \in {"none", "broken"}
     /\ IF Len(queue[e]) = QueueCap
        THEN Drop({c}) /\ UNCHANGED queue
        ELSE queue' = [queue EXCEPT ![e] = Append(@, c)] /\ UNCHANGED dropped
     /\ UNCHANGED <<delivered, toHolder>>
  \/ /\ client[e] \in {"known", "fresh"}
     /\ Deliver(c)
     /\ UNCHANGED <<queue, toHolder, dropped>>
  \/ /\ client[e] = "back"
     /\ toHolder' = toHolder \o Forwards(<<c>>)
     /\ UNCHANGED <<queue, delivered, dropped>>

\* routeCallMessage: a Call for an export.
HandleCall ==
  /\ HostTakes("call")
  /\ LET m == Head(toHost)
     IN  \/ m.id = 0 /\ Deliver(m.num) /\ UNCHANGED <<queue, toHolder, dropped>>
         \/ m.id # 0 /\ entry[m.id] # 0 /\ ExportCall(entry[m.id], m.num)
  /\ UNCHANGED <<question, entry, wireRefs, free, next, index, awaiting, client,
                 passed, holderVars>>

\* Mutant: any Release drops the export.
HandleReleaseAll ==
  /\ HostTakes("release")
  /\ LET i == Head(toHost).id
     IN  /\ wireRefs' = [wireRefs EXCEPT ![i] = 0]
         /\ entry' = [entry EXCEPT ![i] = 0]
         /\ free' = <<i>> \o free
         /\ Drop(Range(queue[entry[i]]))
         /\ queue' = [queue EXCEPT ![entry[i]] = <<>>]
  /\ UNCHANGED <<question, next, index, awaiting, client, passed, holderVars, toHolder,
                 delivered>>

\* releaseExport: with the last reference the entry goes, and the client is
\* closed, which rejects what it queues.
HandleRelease ==
  /\ HostTakes("release")
  /\ LET m == Head(toHost)
         e == entry[m.id]
     IN  /\ wireRefs' = [wireRefs EXCEPT ![m.id] = IF @ > m.num THEN @ - m.num ELSE 0]
         /\ IF e = 0 \/ wireRefs[m.id] > m.num
            THEN UNCHANGED <<entry, free, queue, dropped>>
            ELSE /\ entry' = [entry EXCEPT ![m.id] = 0]
                 /\ free' = <<m.id>> \o free
                 /\ Drop(Range(queue[e]))
                 /\ queue' = [queue EXCEPT ![e] = <<>>]
  /\ UNCHANGED <<question, next, index, awaiting, client, passed, holderVars, toHolder,
                 delivered>>

\* handleDisembargoMessage, senderLoopback: echoed at once.
HandleSenderLoopback ==
  /\ HostTakes("loopback")
  /\ toHolder' = Append(toHolder, Msg("echo", 0, Head(toHost).num, "none"))
  /\ UNCHANGED <<hostVars, holderVars, delivered, dropped>>

-----------------------------------------------------------------------------
(* Messages the holder receives.                                           *)

HolderTakes(type) ==
  /\ flushing = 0
  /\ toHolder # <<>> /\ Head(toHolder).type = type /\ toHolder' = Tail(toHolder)

\* populateMessageCapTable, addImport.
HandlePromise ==
  /\ HolderTakes("promise")
  /\ LET m == Head(toHolder)
     IN  imports' = IF imports[m.id].refs = 0
                    THEN [imports EXCEPT ![m.id] = PromiseImport(m.num)]
                    ELSE [imports EXCEPT ![m.id].refs = @ + 1, ![m.id].local = @ + 1,
                                         ![m.id].isPromise = TRUE]
  /\ UNCHANGED <<hostVars, embargoed, disembargoes, flushing, inHand, made, via,
                 reentered, toHost, delivered, dropped>>

\* handleResolveMessage without a promise to settle: the reference the Resolve
\* introduced is given back (discardResolvedCap).
DiscardResolved(m) ==
  /\ toHost' = IF m.to = "fresh" THEN Append(toHost, Msg("release", m.id, 1, "none"))
               ELSE toHost
  /\ UNCHANGED <<imports, disembargoes>>

\* Mutant: the embargo is forgotten.
ResolveImportAtOnce(m) ==
  /\ imports' = [imports EXCEPT ![m.id].resolved = m.to, ![m.id].isPromise = FALSE]
  /\ UNCHANGED <<toHost, disembargoes>>

\* handleResolveMessage: a capability of the holder is put under embargo and a
\* Disembargo follows the calls that are on their way to it.
ResolveImport(m) ==
  LET i == m.id IN
  \/ /\ m.to = "back"
     /\ \E e \in EmbargoIds :
          /\ disembargoes[e] = 0
          /\ imports' = [imports EXCEPT ![i].resolved = "back", ![i].isPromise = FALSE,
                                        ![i].embargo = e]
          /\ disembargoes' = [disembargoes EXCEPT ![e] = i]
          /\ toHost' = Append(toHost, Msg("loopback", i, e, "none"))
  \/ /\ m.to \in {"known", "broken"}
     /\ imports' = [imports EXCEPT ![i].resolved = m.to, ![i].isPromise = FALSE]
     /\ UNCHANGED <<disembargoes, toHost>>
  \/ /\ m.to = "fresh"
     /\ imports' = [imports EXCEPT ![i].resolved = "self", ![i].isPromise = FALSE,
                                   ![i].refs = @ + 1]
     /\ UNCHANGED <<disembargoes, toHost>>

HandleResolve ==
  /\ HolderTakes("resolve")
  /\ LET m == Head(toHolder)
     IN  IF imports[m.id].isPromise THEN ResolveImport(m) ELSE DiscardResolved(m)
  /\ UNCHANGED <<hostVars, embargoed, flushing, inHand, made, via, reentered, delivered,
                 dropped>>

\* A call the host passed on to the holder's own capability.
HandleForwarded ==
  /\ HolderTakes("call")
  /\ Deliver(Head(toHolder).num)
  /\ UNCHANGED <<hostVars, holderVars, toHost, dropped>>

\* Mutant: the embargo is lifted and its queue left as it is.
ReceiverLoopbackWithoutFlush ==
  /\ HolderTakes("echo")
  /\ LET e == Head(toHolder).num
         i == disembargoes[e]
     IN  IF i = 0 THEN UNCHANGED <<disembargoes, imports>>
         ELSE /\ disembargoes' = [disembargoes EXCEPT ![e] = 0]
              /\ imports' = [imports EXCEPT ![i].embargo = 0]
  /\ UNCHANGED <<hostVars, embargoed, flushing, inHand, made, via, reentered, toHost,
                 delivered, dropped>>

\* handleDisembargoMessage, receiverLoopback, and liftEmbargo up to the flush.
HandleReceiverLoopback ==
  /\ HolderTakes("echo")
  /\ LET e == Head(toHolder).num
         i == disembargoes[e]
     IN  IF i = 0 THEN UNCHANGED <<disembargoes, imports, flushing>>
         ELSE /\ disembargoes' = [disembargoes EXCEPT ![e] = 0]
              /\ imports' = [imports EXCEPT ![i].embargo = 0]
              /\ flushing' = i
  /\ UNCHANGED <<hostVars, embargoed, inHand, made, via, reentered, toHost, delivered,
                 dropped>>

\* The flush of liftEmbargo: a call is handed over, its method runs to its
\* first await, and so on until the queue is empty.
LiftNext ==
  /\ flushing # 0 /\ inHand = 0 /\ embargoed[flushing] # <<>>
  /\ inHand' = Head(embargoed[flushing])
  /\ Deliver(Head(embargoed[flushing]))
  /\ embargoed' = [embargoed EXCEPT ![flushing] = Tail(@)]
  /\ UNCHANGED <<hostVars, imports, disembargoes, flushing, made, via, reentered, toHost,
                 toHolder, dropped>>

LiftReturns ==
  /\ inHand # 0 /\ inHand' = 0
  /\ UNCHANGED <<hostVars, imports, embargoed, disembargoes, flushing, made, via,
                 reentered, toHost, toHolder, delivered, dropped>>

LiftEnds ==
  /\ flushing # 0 /\ inHand = 0 /\ embargoed[flushing] = <<>>
  /\ flushing' = 0
  /\ UNCHANGED <<hostVars, imports, embargoed, disembargoes, inHand, made, via,
                 reentered, toHost, toHolder, delivered, dropped>>

-----------------------------------------------------------------------------
(* The holder's application.                                               *)

Runnable == flushing = 0 \/ (inHand # 0 /\ "reenter" \in Uses)

\* ImportClient.call on a promise, or on what it resolved to.
CallOut(c, i) ==
  \/ /\ imports[i].resolved \in {"none", "known"}
     /\ toHost' = Append(toHost,
          Msg("call", IF imports[i].resolved = "none" THEN i ELSE 0, c, "none"))
     /\ UNCHANGED <<embargoed, delivered, dropped>>
  \/ /\ imports[i].resolved = "back" /\ imports[i].embargo # 0
     /\ IF Len(embargoed[i]) = QueueCap
        THEN Drop({c}) /\ UNCHANGED embargoed
        ELSE embargoed' = [embargoed EXCEPT ![i] = Append(@, c)] /\ UNCHANGED dropped
     /\ UNCHANGED <<toHost, delivered>>
  \/ /\ imports[i].resolved = "back" /\ imports[i].embargo = 0
     /\ delivered' = [delivered EXCEPT ![imports[i].of] = Append(@, c)]
     /\ UNCHANGED <<toHost, embargoed, dropped>>
     \* an ErrorClient refuses; a client that resolves to itself calls itself
     \* until the stack is exhausted
  \/ /\ imports[i].resolved \in {"broken", "self"}
     /\ Drop({c})
     /\ UNCHANGED <<toHost, embargoed, delivered>>

Call(i) ==
  /\ Runnable
  /\ made < NCalls
  /\ imports[i].local > 0
  /\ made' = made + 1
  /\ via' = [via EXCEPT ![made + 1] = imports[i].of]
  /\ reentered' = IF flushing = i THEN reentered \cup {made + 1} ELSE reentered
  /\ CallOut(made + 1, i)
  /\ UNCHANGED <<hostVars, imports, disembargoes, flushing, inHand, toHolder>>

\* ImportClient.close with releaseImportAll.
CloseImport(i) ==
  /\ imports' = [imports EXCEPT ![i] = NoImport]
  /\ Drop(Range(embargoed[i]))
  /\ embargoed' = [embargoed EXCEPT ![i] = <<>>]
  /\ disembargoes' = [e \in EmbargoIds |-> IF disembargoes[e] = i THEN 0 ELSE disembargoes[e]]
  /\ toHost' = Append(toHost, Msg("release", i, imports[i].refs, "none"))

\* Ref.close: the last Ref closes the import, unless the import holds one to
\* itself.
CloseRef(i) ==
  /\ Runnable
  /\ imports[i].local > 0
  /\ imports[i].embargo # 0 => "close embargoed" \in Uses
  /\ IF imports[i].local > 1 \/ imports[i].resolved = "self"
     THEN /\ imports' = [imports EXCEPT ![i].local = @ - 1]
          /\ UNCHANGED <<embargoed, disembargoes, toHost, dropped>>
     ELSE CloseImport(i)
  /\ UNCHANGED <<hostVars, flushing, inHand, made, via, reentered, toHolder, delivered>>

-----------------------------------------------------------------------------

HostStep ==
  \/ \E p \in Promises, i \in Ids : Continue(p, i)
  \/ HandleCall
  \/ HandleRelease
  \/ HandleSenderLoopback

HolderStep ==
  \/ HandlePromise
  \/ HandleResolve
  \/ HandleForwarded
  \/ HandleReceiverLoopback
  \/ LiftNext
  \/ LiftReturns
  \/ LiftEnds

Next ==
  \/ \E p \in Promises : PassPromise(p) \/ QuestionSettles(p)
  \/ \E i \in Ids : Call(i) \/ CloseRef(i)
  \/ HostStep
  \/ HolderStep

\* Each vat handles what it receives; the applications owe nothing.
Spec == Init /\ [][Next]_vars /\ WF_vars(HostStep) /\ WF_vars(HolderStep)

-----------------------------------------------------------------------------

TypeOK ==
  /\ question \in [Promises -> {"pending"} \cup Resolutions]
  /\ entry \in [Ids -> {0} \cup Promises] /\ wireRefs \in [Ids -> Nat]
  /\ free \in Seq(Ids) /\ next \in 1..(MaxId + 1)
  /\ index \in [Promises -> {0} \cup Ids] /\ awaiting \subseteq Promises \X Ids
  /\ client \in [Promises -> {"none"} \cup Resolutions]
  /\ \A p \in Promises : queue[p] \in Seq(Calls) /\ Len(queue[p]) <= QueueCap
  /\ \A i \in Ids : embargoed[i] \in Seq(Calls) /\ Len(embargoed[i]) <= QueueCap
  /\ \A i \in Ids : imports[i].refs >= imports[i].local
  /\ disembargoes \in [EmbargoIds -> {0} \cup Ids]
  /\ flushing \in {0} \cup Ids /\ inHand \in {0} \cup Calls
  /\ dropped \subseteq Calls
  /\ \A p \in Promises : delivered[p] \in Seq(Calls)

\* Calls made through a promise reach its capability in the order they were
\* made and once each, whichever way they go: queued at the host, sent back to
\* the holder, held under embargo, or straight to what the promise resolved to
\* (Client.call in src/rpc/client.ts).  Only a call made from inside
\* liftEmbargo's flush may overtake.
OrderedDelivery ==
  \A p \in Promises :
    \A j, k \in {l \in DOMAIN delivered[p] : delivered[p][l] \notin reentered} :
      j < k => delivered[p][j] < delivered[p][k]

\* References to an export that are on their way, to the holder and back.
IntroducedBy(m, i) ==
  IF m.id = i /\ (m.type = "promise" \/ m.to = "fresh") THEN 1 ELSE 0

Introduced(i) == SumOf([k \in DOMAIN toHolder |-> IntroducedBy(toHolder[k], i)])

ReleasedBy(m, i) == IF m.id = i /\ m.type = "release" THEN m.num ELSE 0

Released(i) == SumOf([k \in DOMAIN toHost |-> ReleasedBy(toHost[k], i)])

\* Both vats agree on the references to an exported promise: what the host
\* counts is what the holder counts, plus descriptors and Releases on the way
\* (addImport, releaseImport, discardResolvedCap, releaseExport); and an import
\* stands for the promise it was made for.
PromiseRefsAgree ==
  \A i \in Ids :
    /\ wireRefs[i] = imports[i].refs + Introduced(i) + Released(i)
    /\ imports[i].refs > 0 => entry[i] = imports[i].of

\* A promise becomes what its own question was answered with, at both ends
\* (addExportPromise, handleResolveMessage): ids are used again, but none under
\* a question that is still asked ("reuse pending").
ResolvesToOwnAnswer ==
  /\ \A p \in Promises : client[p] \in {"none", question[p]}
  /\ \A i \in Ids : imports[i].resolved \in {"known", "back", "broken"} =>
       imports[i].resolved = question[imports[i].of]

Ended(c) == c \in dropped \/ c \in Range(delivered[via[c]])

\* In the end a call is delivered or dropped, unless its promise still waits
\* for its question or was rejected: none is left in an embargo queue, on the
\* way, or on a promise that has a capability behind it.
NoCallStranded ==
  <>[](\A c \in 1..made :
         Ended(c) \/ /\ c \in Range(queue[via[c]])
                     /\ question[via[c]] \in {"pending", "broken"})

\* "Resolve-to-cap retargets queued/future calls" (docs/rpc-level1-plan.md:109):
\* a call on an import that was resolved to a capability is not lost.
ResolvedCallsRetargeted ==
  [][\A i \in Ids :
       /\ made' # made
       /\ imports[i].resolved \in {"known", "self"}
       /\ imports[i].of = via'[made']
       => made' \notin dropped']_vars
=============================================================================
