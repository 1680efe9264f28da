-------------------------- MODULE LocalPromiseProofs --------------------------
(***************************************************************************)
(* Promises of calls inside one vat: what their calls and results are,     *)
(* that each capability of a promise is an OrderedClient whatever the      *)
(* results hold, and that a close does not overtake a call.                *)
(***************************************************************************)
EXTENDS LocalPromise, SequenceLemmas

-----------------------------------------------------------------------------
(* Types.                                                                  *)

LEMMA Numbers ==
  /\ NCalls \in Nat /\ Calls \subseteq Nat /\ 0 \notin Calls
  /\ NoCall \notin Promises /\ Root \in Promises /\ Calls \subseteq Promises
  /\ Promises \subseteq Nat
  /\ \A t \in Clients : t[1] \in Promises /\ t[2] \in Slots /\ t = <<t[1], t[2]>>
  /\ \A p \in Promises, s \in Slots : <<p, s>> \in Clients
  /\ <<NoCall, 0>> \notin Clients
BY LocalPromiseAssumption DEF Calls, Promises, Root, NoCall, Clients

\* What is queued for a capability is part of the queue of its promise.
LEMMA QueuedForIs ==
  ASSUME TypeOK, NEW p \in Promises, NEW s \in Slots
  PROVE  /\ QueuedFor(p, s) \in Seq(Calls)
         /\ Range(QueuedFor(p, s)) = {c \in Range(queue[p]) : target[c] = <<p, s>>}
         /\ IsInjective(queue[p]) => IsInjective(QueuedFor(p, s))
<1>1. queue[p] \in Seq(Calls) /\ Range(queue[p]) \subseteq Calls
  BY RangeIsElements DEF TypeOK
<1> QED BY <1>1, RangeOfOnly DEF QueuedFor

LEMMA PipelineCallKeepsTypes ==
  ASSUME TypeOK, NEW c \in Calls, NEW t \in Clients, PipelineCall(c, t)
  PROVE  TypeOK'
<1>1. /\ t[1] \in Promises /\ c \in Promises
      /\ queue[t[1]] \in Seq(Calls) /\ Len(queue[t[1]]) \in Nat /\ Len(queue[t[1]]) <= QueueSize
      /\ delivered[t] \in Seq(Calls) /\ QueueSize \in Nat
  BY Numbers, LenProperties, LocalPromiseAssumption DEF TypeOK
<1>2. /\ Append(queue[t[1]], c) \in Seq(Calls) /\ Append(delivered[t], c) \in Seq(Calls)
      /\ Len(Append(queue[t[1]], c)) = Len(queue[t[1]]) + 1
  BY <1>1, AppendProperties
<1>3. /\ UNCHANGED <<result, settling, flush, inHand, close>>
      /\ target' = [target EXCEPT ![c] = t]
      /\ reentered' \subseteq Calls
      /\ \E how \in {"pending", "refused"} : Answered(c, how)
      /\ late' \subseteq Calls
      /\ \/ delivered' = delivered
         \/ delivered' = [delivered EXCEPT ![t] = Append(@, c)]
      /\ \/ queue' = queue
         \/ /\ Len(queue[t[1]]) # QueueSize
            /\ queue' = [queue EXCEPT ![t[1]] = Append(@, c)]
  BY DEF PipelineCall, QueueCall, PassCall, RefuseCall, TypeOK
<1>4. state' \in [Promises -> States]
  BY <1>1, <1>3 DEF Answered, TypeOK, States
<1>5. target' \in [Calls -> Clients \cup {<<NoCall, 0>>}]
  BY <1>3 DEF TypeOK
<1>6. /\ DOMAIN queue' = Promises
      /\ \A p \in Promises : queue'[p] \in Seq(Calls) /\ Len(queue'[p]) <= QueueSize
  <2>1. Len(queue[t[1]]) # QueueSize => Len(queue[t[1]]) + 1 <= QueueSize
    BY <1>1
  <2> QED BY <1>1, <1>2, <1>3, <2>1 DEF TypeOK
<1>7. DOMAIN delivered' = Clients /\ \A u \in Clients : delivered'[u] \in Seq(Calls)
  BY <1>1, <1>2, <1>3 DEF TypeOK
<1> QED BY <1>3, <1>4, <1>5, <1>6, <1>7 DEF TypeOK

\* A rejection empties queues.
LEMMA EmptiedQueues ==
  ASSUME TypeOK, NEW A,
         queue' = [q \in Promises |-> IF q \in A THEN <<>> ELSE queue[q]]
  PROVE  /\ DOMAIN queue' = Promises
         /\ \A p \in Promises : queue'[p] \in Seq(Calls) /\ Len(queue'[p]) <= QueueSize
<1>1. <<>> \in Seq(Calls) /\ Len(<<>>) = 0 /\ 0 <= QueueSize
  BY EmptySeq, LocalPromiseAssumption
<1> QED BY <1>1 DEF TypeOK

LEMMA MethodFailsKeepsTypes ==
  ASSUME TypeOK, NEW p \in Promises, MethodFails(p)
  PROVE  TypeOK'
<1>1. /\ state' = [q \in Promises |-> IF q \in Below({p}) THEN "rejected" ELSE state[q]]
      /\ queue' = [q \in Promises |-> IF q \in Below({p}) THEN <<>> ELSE queue[q]]
      /\ UNCHANGED <<target, result, settling, flush, inHand, delivered, close, reentered, late>>
  BY DEF MethodFails, Reject
<1>2. state' \in [Promises -> States]
  BY <1>1 DEF TypeOK, States
<1>3. /\ DOMAIN queue' = Promises
      /\ \A q \in Promises : queue'[q] \in Seq(Calls) /\ Len(queue'[q]) <= QueueSize
  BY <1>1, EmptiedQueues
<1> QED BY <1>1, <1>2, <1>3 DEF TypeOK

LEMMA MethodReturnsKeepsTypes ==
  ASSUME TypeOK, NEW p \in Promises, NEW r \in [Slots -> Results], MethodReturns(p, r)
  PROVE  TypeOK'
<1> DEFINE all == Below({c \in Range(queue[p]) : r[target[c][2]] = "null"})
           settled == IF Empty(p, r) = {} THEN "settling" ELSE "broken"
<1>1. /\ state' = [q \in Promises |-> IF q = p THEN settled
                                      ELSE IF q \in all THEN "rejected" ELSE state[q]]
      /\ queue' = [q \in Promises |-> IF q = p \/ q \in all THEN <<>> ELSE queue[q]]
      /\ result' = [result EXCEPT ![p] = r]
      /\ settling' = p
      /\ flush' = Embargoed(p, r)
      /\ UNCHANGED <<target, inHand, delivered, close, reentered, late>>
  BY DEF MethodReturns
<1>2. settled \in States
  BY DEF States
<1> HIDE DEF all, settled
<1>3. state' \in [Promises -> States]
  BY <1>1, <1>2 DEF TypeOK, States
<1>4. /\ DOMAIN queue' = Promises
      /\ \A q \in Promises : queue'[q] \in Seq(Calls) /\ Len(queue'[q]) <= QueueSize
  <2>1. queue' = [q \in Promises |-> IF q \in all \cup {p} THEN <<>> ELSE queue[q]]
    BY <1>1
  <2> QED BY <2>1, EmptiedQueues
<1>5. result' \in [Promises -> [Slots -> SlotValues]]
  <2>1. r \in [Slots -> SlotValues]
    BY LocalPromiseAssumption
  <2> QED BY <1>1, <2>1 DEF TypeOK
<1>6. DOMAIN flush' = Slots /\ \A s \in Slots : flush'[s] \in Seq(Calls)
  <2>1. \A s \in Slots : QueuedFor(p, s) \in Seq(Calls)
    BY QueuedForIs
  <2>2. <<>> \in Seq(Calls)
    BY EmptySeq
  <2> QED BY <1>1, <2>1, <2>2 DEF Embargoed
<1> QED BY <1>1, <1>3, <1>4, <1>5, <1>6 DEF TypeOK

\* The EmbargoClient of a slot hands over the call at its front.
LEMMA HandOverIs ==
  ASSUME TypeOK, HandOver
  PROVE  \E s \in Slots :
           /\ flush[s] # <<>> /\ flush[s] \in Seq(Calls) /\ Head(flush[s]) \in Calls
           /\ Tail(flush[s]) \in Seq(Calls)
           /\ settling \in Promises /\ <<settling, s>> \in Clients
           /\ inHand' = Head(flush[s])
           /\ flush' = [flush EXCEPT ![s] = Tail(flush[s])]
           /\ delivered' = [delivered EXCEPT ![<<settling, s>>] =
                              Append(delivered[<<settling, s>>], Head(flush[s]))]
           /\ UNCHANGED <<state, target, queue, result, settling, close, reentered, late>>
<1>1. PICK s \in Slots :
        /\ flush[s] # <<>>
        /\ inHand' = Head(flush[s])
        /\ flush' = [flush EXCEPT ![s] = Tail(@)]
        /\ delivered' = [delivered EXCEPT ![<<settling, s>>] = Append(@, Head(flush[s]))]
  BY DEF HandOver
<1>2. flush[s] \in Seq(Calls) /\ Head(flush[s]) \in Calls /\ Tail(flush[s]) \in Seq(Calls)
  BY <1>1, RangeOfTail DEF TypeOK
<1>3. settling \in Promises /\ <<settling, s>> \in Clients
  BY Numbers DEF HandOver, TypeOK
<1> QED BY <1>1, <1>2, <1>3 DEF HandOver

LEMMA HandOverKeepsTypes ==
  ASSUME TypeOK, HandOver
  PROVE  TypeOK'
<1>1. PICK s \in Slots :
        /\ flush[s] \in Seq(Calls) /\ Head(flush[s]) \in Calls /\ Tail(flush[s]) \in Seq(Calls)
        /\ <<settling, s>> \in Clients
        /\ inHand' = Head(flush[s])
        /\ flush' = [flush EXCEPT ![s] = Tail(flush[s])]
        /\ delivered' = [delivered EXCEPT ![<<settling, s>>] =
                           Append(delivered[<<settling, s>>], Head(flush[s]))]
        /\ UNCHANGED <<state, target, queue, result, settling, close, reentered, late>>
  BY HandOverIs
<1>2. Append(delivered[<<settling, s>>], Head(flush[s])) \in Seq(Calls)
  BY <1>1, AppendProperties DEF TypeOK
<1>3. DOMAIN delivered' = Clients /\ \A t \in Clients : delivered'[t] \in Seq(Calls)
  BY <1>1, <1>2 DEF TypeOK
<1>4. DOMAIN flush' = Slots /\ \A u \in Slots : flush'[u] \in Seq(Calls)
  BY <1>1 DEF TypeOK
<1> QED BY <1>1, <1>3, <1>4 DEF TypeOK

LEMMA InitTypes == Init => TypeOK
<1>1. <<>> \in Seq(Calls) /\ Len(<<>>) = 0 /\ 0 <= QueueSize
  BY EmptySeq, LocalPromiseAssumption
<1>2. "null" \in SlotValues /\ "pending" \in States /\ "unmade" \in States
  BY DEF SlotValues, States
<1> QED BY <1>1, <1>2 DEF Init, TypeOK

LEMMA NextKeepsTypes == TypeOK /\ [Next]_vars => TypeOK'
<1> SUFFICES ASSUME TypeOK, [Next]_vars PROVE TypeOK'
  OBVIOUS
<1>1. ASSUME NEW c \in Calls, NEW t \in Clients, PipelineCall(c, t) PROVE TypeOK'
  BY <1>1, PipelineCallKeepsTypes
<1>2. ASSUME NEW p \in Promises, MethodEnds(p) PROVE TypeOK'
  BY <1>2, MethodFailsKeepsTypes, MethodReturnsKeepsTypes DEF MethodEnds
<1>3. CASE HandOver
  BY <1>3, HandOverKeepsTypes
<1>4. CASE CallReturns
  BY <1>4 DEF CallReturns, TypeOK
<1>5. CASE FlushEnds
  <2>1. settling \in Promises
    BY <1>5 DEF FlushEnds, TypeOK
  <2>2. state' \in [Promises -> States]
    BY <1>5, <2>1 DEF FlushEnds, TypeOK, States
  <2> QED BY <1>5, <2>2 DEF FlushEnds, TypeOK
<1>6. ASSUME NEW t \in Clients, Close(t) \/ CloseRuns(t) PROVE TypeOK'
  <2>1. close' \in [Clients -> {"open", "asked", "closed", "void"}]
    BY <1>6 DEF Close, CloseRuns, TypeOK
  <2> QED BY <1>6, <2>1 DEF Close, CloseRuns, TypeOK
<1>7. CASE UNCHANGED vars
  BY <1>7 DEF vars, TypeOK
<1> QED BY <1>1, <1>2, <1>3, <1>4, <1>5, <1>6, <1>7 DEF Next, Flush

\* Promises, queues, results and closes are what LocalPromise says they are; no
\* queue grows beyond callQueueSize (Fulfiller.pipelineCall).
THEOREM LocalPromiseTypeCorrect == Spec => []TypeOK
<1> QED BY InitTypes, NextKeepsTypes, PTL DEF Spec

-----------------------------------------------------------------------------
(* Where the calls are.                                                    *)

\* A queued call waits for a promise that is not fulfilled, and is nowhere else.
QueuesOK ==
  \A p \in Promises :
    /\ IsInjective(queue[p])
    /\ queue[p] # <<>> => state[p] \in {"pending", "rejected"}
    /\ \A c \in Range(queue[p]) :
         /\ state[c] = "pending" /\ c \notin reentered /\ target[c][1] = p
         /\ \A t \in Clients : c \notin Range(delivered[t])

\* A call still to be flushed was queued on the promise that is being settled.
FlushOK ==
  \A s \in Slots :
    /\ IsInjective(flush[s])
    /\ \A c \in Range(flush[s]) :
         /\ state[c] = "pending" /\ c \notin reentered
         /\ settling \in Promises /\ target[c] = <<settling, s>>
         /\ \A t \in Clients : c \notin Range(delivered[t])

DeliveriesOK ==
  \A t \in Clients : \A c \in Range(delivered[t]) : state[c] # "unmade" /\ target[c] = t

MadeOK ==
  \A c \in Calls : /\ state[c] = "unmade" <=> target[c] \notin Clients
                   /\ c \in reentered => state[c] # "unmade"

SettlingOK ==
  /\ settling # NoCall => state[settling] \in {"settling", "broken"}
  /\ \A p \in Promises : state[p] = "settling" => p = settling

\* Only an exception in tryFulfill leaves a call behind.
NoneIsLost ==
  \A c \in Calls :
    state[c] \notin {"unmade", "rejected", "refused"} =>
      \/ c \in Range(delivered[target[c]])
      \/ c \in Range(queue[target[c][1]])
      \/ target[c][1] = settling /\ c \in Range(flush[target[c][2]])
      \/ state[target[c][1]] = "broken"

ClosedOK == \A t \in Clients : close[t] = "closed" => state[t[1]] = "fulfilled"

CallsInv ==
  QueuesOK /\ FlushOK /\ DeliveriesOK /\ MadeOK /\ SettlingOK /\ NoneIsLost /\ ClosedOK

InOrder(t) == UNCHANGED Ordered(t)!vars \/ Ordered(t)!Next
AllInOrder == \A t \in Clients : InOrder(t)

\* What holds of a step whose view of t does not change.
LEMMA SameView ==
  ASSUME NEW t \in Clients, HeldFor(t)' = HeldFor(t),
         Usual(delivered[t])' = Usual(delivered[t]),
         (DroppedFor(t) \ reentered)' = DroppedFor(t) \ reentered
  PROVE  InOrder(t)
BY DEF InOrder, Ordered!vars

\* Usual calls are delivered calls.
LEMMA UsualIs ==
  ASSUME TypeOK, NEW t \in Clients
  PROVE  /\ Usual(delivered[t]) \in Seq(Calls)
         /\ Range(Usual(delivered[t])) = Range(delivered[t]) \ reentered
<1>1. delivered[t] \in Seq(Calls) /\ Range(delivered[t]) \subseteq Calls
  BY RangeIsElements DEF TypeOK
<1> QED BY <1>1, RangeOfOnly DEF Usual

\* What is held is distinct calls of t that are pending and not delivered.
LEMMA HeldIs ==
  ASSUME TypeOK, CallsInv, NEW t \in Clients
  PROVE  /\ t[1] = settling => QueuedFor(t[1], t[2]) = <<>> /\ HeldFor(t) = flush[t[2]]
         /\ t[1] # settling => HeldFor(t) = QueuedFor(t[1], t[2])
         /\ HeldFor(t) \in Seq(Calls) /\ IsInjective(HeldFor(t))
         /\ \A c \in Range(HeldFor(t)) :
              /\ c \in Calls /\ target[c] = t /\ state[c] = "pending" /\ c \notin reentered
              /\ c \notin Range(delivered[t])
<1>1. t[1] \in Promises /\ t[2] \in Slots /\ t = <<t[1], t[2]>> /\ NoCall \notin Promises
  BY Numbers
<1>2. /\ QueuedFor(t[1], t[2]) \in Seq(Calls) /\ IsInjective(QueuedFor(t[1], t[2]))
      /\ Range(QueuedFor(t[1], t[2])) = {c \in Range(queue[t[1]]) : target[c] = <<t[1], t[2]>>}
      /\ Range(queue[t[1]]) \subseteq Calls /\ queue[t[1]] \in Seq(Calls)
      /\ flush[t[2]] \in Seq(Calls) /\ Range(flush[t[2]]) \subseteq Calls
      /\ IsInjective(flush[t[2]])
  BY <1>1, QueuedForIs, RangeIsElements DEF TypeOK, CallsInv, QueuesOK, FlushOK
<1>3. CASE t[1] = settling
  <2>1. queue[t[1]] = <<>>
    BY <1>1, <1>3 DEF CallsInv, QueuesOK, SettlingOK
  <2>2. QueuedFor(t[1], t[2]) = <<>>
    BY <2>1, OnlyOfEmpty DEF QueuedFor
  <2>3. HeldFor(t) = flush[t[2]]
    <3>1. HeldFor(t) = <<>> \o flush[t[2]]
      BY <1>3, <2>2 DEF HeldFor, ToFlush
    <3> QED BY <1>2, <3>1, ConcatEmptySeq
  <2> QED BY <1>1, <1>2, <1>3, <2>2, <2>3 DEF CallsInv, FlushOK
<1>4. CASE t[1] # settling
  <2>1. HeldFor(t) = QueuedFor(t[1], t[2])
    <3>1. HeldFor(t) = QueuedFor(t[1], t[2]) \o <<>>
      BY <1>4 DEF HeldFor, ToFlush
    <3> QED BY <1>2, <3>1, ConcatEmptySeq
  <2> QED BY <1>1, <1>2, <1>4, <2>1 DEF CallsInv, QueuesOK
<1> QED BY <1>3, <1>4

\* A call that was not made is nowhere.
LEMMA UnmadeIsNowhere ==
  ASSUME TypeOK, CallsInv, NEW c \in Calls, state[c] = "unmade"
  PROVE  /\ target[c] \notin Clients /\ c \notin reentered
         /\ \A p \in Promises : c \notin Range(queue[p])
         /\ \A s \in Slots : c \notin Range(flush[s])
         /\ \A t \in Clients : /\ c \notin Range(delivered[t]) /\ c \notin Range(HeldFor(t))
                               /\ c \notin Range(Usual(delivered[t])) /\ c \notin DroppedFor(t)
<1>1. target[c] \notin Clients /\ c \notin reentered
  BY DEF CallsInv, MadeOK
<1>2. \A p \in Promises : c \notin Range(queue[p])
  BY DEF CallsInv, QueuesOK
<1>3. \A s \in Slots : c \notin Range(flush[s])
  BY DEF CallsInv, FlushOK
<1>4. ASSUME NEW t \in Clients
      PROVE  /\ c \notin Range(delivered[t]) /\ c \notin Range(HeldFor(t))
             /\ c \notin Range(Usual(delivered[t])) /\ c \notin DroppedFor(t)
  <2>1. c \notin Range(delivered[t])
    BY DEF CallsInv, DeliveriesOK
  <2>2. c \notin Range(HeldFor(t))
    BY HeldIs
  <2>3. c \notin Range(Usual(delivered[t]))
    BY <2>1, UsualIs
  <2>4. c \notin DroppedFor(t)
    BY <1>1 DEF DroppedFor
  <2> QED BY <2>1, <2>2, <2>3, <2>4
<1> QED BY <1>1, <1>2, <1>3, <1>4

-----------------------------------------------------------------------------
(* A call.                                                                 *)

\* A call joins the queue, is refused, or goes straight through.
LEMMA CallCases ==
  ASSUME TypeOK, CallsInv, NEW c \in Calls, NEW t \in Clients, PipelineCall(c, t)
  PROVE  /\ state[c] = "unmade" /\ state[t[1]] # "unmade" /\ t[1] # c /\ close[t] = "open"
         /\ target' = [target EXCEPT ![c] = t]
         /\ UNCHANGED <<result, settling, flush, close>>
         /\ reentered' = IF t[1] = settling THEN reentered \cup {c} ELSE reentered
         /\ \E how \in {"pending", "refused"} :
              /\ \A d \in Promises : state'[d] = IF d = c THEN how ELSE state[d]
              /\ \/ /\ how = "pending" /\ t[1] # settling /\ state[t[1]] \in {"pending", "rejected"}
                    /\ queue' = [queue EXCEPT ![t[1]] = Append(queue[t[1]], c)]
                    /\ delivered' = delivered
                 \/ how = "refused" /\ UNCHANGED <<queue, delivered>>
                 \/ /\ how = "pending" /\ state[t[1]] \in {"settling", "broken", "fulfilled"}
                    /\ delivered' = [delivered EXCEPT ![t] = Append(delivered[t], c)]
                    /\ queue' = queue
<1>1. state[c] = "unmade"
  BY Numbers DEF PipelineCall, Unmade
<1>2. \A how : Answered(c, how) =>
        \A d \in Promises : state'[d] = IF d = c THEN how ELSE state[d]
  BY Numbers DEF Answered, TypeOK
<1>3. state[t[1]] \in {"pending", "rejected"} => t[1] # settling
  BY Numbers DEF CallsInv, SettlingOK
<1>4. CASE state[t[1]] \in {"pending", "rejected"} /\ QueueCall(c, t[1])
  <2>1. CASE Answered(c, "pending")
    BY <1>1, <1>2, <1>3, <1>4, <2>1 DEF PipelineCall, QueueCall
  <2>2. CASE Answered(c, "refused") /\ queue' = queue
    BY <1>1, <1>2, <1>3, <1>4, <2>2 DEF PipelineCall, QueueCall
  <2> QED BY <1>4, <2>1, <2>2 DEF QueueCall
<1>5. CASE state[t[1]] \in {"settling", "broken", "fulfilled"} /\ PassCall(c, t)
  BY <1>1, <1>2, <1>5 DEF PipelineCall, PassCall
<1>6. CASE RefuseCall(c)
  BY <1>1, <1>2, <1>6 DEF PipelineCall, RefuseCall
<1> QED BY <1>4, <1>5, <1>6 DEF PipelineCall

\* A call changes nothing for other capabilities.
LEMMA CallElsewhere ==
  ASSUME TypeOK, CallsInv, NEW c \in Calls, NEW t \in Clients, PipelineCall(c, t),
         NEW u \in Clients, u # t
  PROVE  InOrder(u)
<1>1. /\ state[c] = "unmade" /\ target' = [target EXCEPT ![c] = t]
      /\ settling' = settling /\ flush' = flush
      /\ reentered' \in {reentered, reentered \cup {c}}
      /\ \A d \in Promises : d # c => state'[d] = state[d]
      /\ state'[c] \in {"pending", "refused"}
      /\ queue' = queue \/ queue' = [queue EXCEPT ![t[1]] = Append(queue[t[1]], c)]
      /\ delivered'[u] = delivered[u]
  BY CallCases, Numbers DEF TypeOK
<1>2. /\ u[1] \in Promises /\ u[2] \in Slots /\ u = <<u[1], u[2]>> /\ Calls \subseteq Promises
      /\ c \notin Range(queue[u[1]]) /\ c \notin Range(delivered[u]) /\ target[c] \notin Clients
      /\ queue[u[1]] \in Seq(Calls) /\ delivered[u] \in Seq(Calls)
      /\ Range(delivered[u]) \subseteq Calls
  BY <1>1, Numbers, UnmadeIsNowhere, RangeIsElements DEF TypeOK
<1> DEFINE T == {d \in Calls : target[d] = <<u[1], u[2]>>}
           U == {d \in Calls : target'[d] = <<u[1], u[2]>>}
<1>3. c \notin U /\ \A d \in Calls : d # c => (d \in U <=> d \in T)
  BY <1>1, <1>2 DEF TypeOK
<1> HIDE DEF T, U
<1>4. HeldFor(u)' = HeldFor(u)
  <2>1. Only(queue[u[1]], U) = Only(queue[u[1]], T)
    <3>1. \A x \in Range(queue[u[1]]) : x \in U <=> x \in T
      BY <1>2, <1>3, RangeIsElements
    <3> QED BY <1>2, <3>1, OnlySame
  <2>2. queue'[u[1]] = queue[u[1]] \/ queue'[u[1]] = Append(queue[u[1]], c)
    BY <1>1, <1>2 DEF TypeOK
  <2>3. Only(Append(queue[u[1]], c), U) = Only(queue[u[1]], U)
    BY <1>2, <1>3, OnlyOfAppend
  <2>4. QueuedFor(u[1], u[2])' = QueuedFor(u[1], u[2])
    BY <2>1, <2>2, <2>3 DEF QueuedFor, T, U
  <2> QED BY <1>1, <2>4 DEF HeldFor, ToFlush
<1>5. Usual(delivered[u])' = Usual(delivered[u])
  <2>1. \A x \in Range(delivered[u]) : x \in Calls \ reentered <=> x \in Calls \ reentered'
    BY <1>1, <1>2
  <2>2. Only(delivered[u], Calls \ reentered) = Only(delivered[u], Calls \ reentered')
    BY <1>2, <2>1, OnlySame
  <2> QED BY <1>1, <2>2 DEF Usual
<1>6. (DroppedFor(u) \ reentered)' = DroppedFor(u) \ reentered
  <2>1. state'[u[1]] = "broken" <=> state[u[1]] = "broken"
    BY <1>1, <1>2
  <2>2. ToFlush(u)' = ToFlush(u)
    BY <1>1 DEF ToFlush
  <2>3. \A d \in Calls : target'[d] = u <=> d # c /\ target[d] = u
    BY <1>1, <1>2 DEF TypeOK
  <2>4. target[c] # u
    BY <1>2
  <2> QED BY <1>1, <1>2, <2>1, <2>2, <2>3, <2>4 DEF DroppedFor
<1> QED BY <1>4, <1>5, <1>6, SameView

\* The capability it is for holds it, refuses it or receives it at once.
LEMMA CallHere ==
  ASSUME TypeOK, CallsInv, NEW c \in Calls, NEW t \in Clients, PipelineCall(c, t)
  PROVE  InOrder(t)
<1>1. /\ t[1] \in Promises /\ t[2] \in Slots /\ t = <<t[1], t[2]>> /\ Calls \subseteq Promises
      /\ state[c] = "unmade" /\ t[1] # c
      /\ target' = [target EXCEPT ![c] = t]
      /\ settling' = settling /\ flush' = flush
      /\ reentered' = IF t[1] = settling THEN reentered \cup {c} ELSE reentered
  BY CallCases, Numbers
<1>2. PICK how \in {"pending", "refused"} :
        /\ \A d \in Promises : state'[d] = IF d = c THEN how ELSE state[d]
        /\ \/ /\ how = "pending" /\ t[1] # settling /\ state[t[1]] \in {"pending", "rejected"}
              /\ queue' = [queue EXCEPT ![t[1]] = Append(queue[t[1]], c)]
              /\ delivered' = delivered
           \/ how = "refused" /\ UNCHANGED <<queue, delivered>>
           \/ /\ how = "pending" /\ state[t[1]] \in {"settling", "broken", "fulfilled"}
              /\ delivered' = [delivered EXCEPT ![t] = Append(delivered[t], c)]
              /\ queue' = queue
  BY CallCases
<1>3. /\ c \notin Range(queue[t[1]]) /\ c \notin Range(delivered[t]) /\ c \notin reentered
      /\ c \notin Range(HeldFor(t)) /\ c \notin Range(Usual(delivered[t]))
      /\ c \notin DroppedFor(t) /\ target[c] # t
      /\ \A s \in Slots : c \notin Range(flush[s])
  BY <1>1, UnmadeIsNowhere
<1>4. Ordered(t)!Fresh(c)
  BY <1>3 DEF Ordered!Fresh, Ordered!Range, Range
<1>5. /\ queue[t[1]] \in Seq(Calls) /\ delivered[t] \in Seq(Calls)
      /\ Range(queue[t[1]]) \subseteq Calls /\ Range(delivered[t]) \subseteq Calls
  BY <1>1, RangeIsElements DEF TypeOK
<1> DEFINE T == {d \in Calls : target[d] = <<t[1], t[2]>>}
           U == {d \in Calls : target'[d] = <<t[1], t[2]>>}
<1>6. c \in U /\ \A d \in Calls : d # c => (d \in U <=> d \in T)
  BY <1>1 DEF TypeOK
<1> HIDE DEF T, U
<1>7. /\ Only(queue[t[1]], U) = QueuedFor(t[1], t[2])
      /\ QueuedFor(t[1], t[2])' = Only(queue'[t[1]], U)
  <2>1. \A x \in Range(queue[t[1]]) : x \in U <=> x \in T
    BY <1>3, <1>5, <1>6
  <2>2. Only(queue[t[1]], U) = Only(queue[t[1]], T)
    BY <1>5, <2>1, OnlySame
  <2> QED BY <2>2 DEF QueuedFor, T, U
<1>8. queue' = queue => HeldFor(t)' = HeldFor(t)
  BY <1>1, <1>7 DEF HeldFor, ToFlush
<1>9. Only(delivered[t], Calls \ reentered') = Usual(delivered[t])
  <2>1. \A x \in Range(delivered[t]) : x \in Calls \ reentered' <=> x \in Calls \ reentered
    BY <1>1, <1>3
  <2> QED BY <1>5, <2>1, OnlySame DEF Usual
<1>10. Usual(delivered[t])' = Only(delivered'[t], Calls \ reentered')
  BY DEF Usual
<1>11. /\ ToFlush(t)' = ToFlush(t) /\ c \notin Range(ToFlush(t))
       /\ state'[t[1]] = state[t[1]]
       /\ \A d \in Calls : /\ target'[d] = t <=> d = c \/ target[d] = t
                           /\ d # c => state'[d] = state[d]
  <2>1. Range(<<>>) = {}
    BY RangeOfEmpty
  <2> QED BY <1>1, <1>2, <1>3, <2>1 DEF ToFlush, TypeOK
<1>12. CASE /\ how = "pending" /\ t[1] # settling /\ state[t[1]] \in {"pending", "rejected"}
            /\ queue' = [queue EXCEPT ![t[1]] = Append(queue[t[1]], c)]
            /\ delivered' = delivered
  <2>1. HeldFor(t) = QueuedFor(t[1], t[2]) /\ QueuedFor(t[1], t[2]) \in Seq(Calls)
    BY <1>1, <1>12, HeldIs, QueuedForIs
  <2>2. QueuedFor(t[1], t[2])' = Append(QueuedFor(t[1], t[2]), c)
    <3>1. queue'[t[1]] = Append(queue[t[1]], c)
      BY <1>1, <1>12 DEF TypeOK
    <3> QED BY <1>5, <1>6, <1>7, <3>1, OnlyOfAppend
  <2>3. HeldFor(t)' = Append(HeldFor(t), c)
    <3>1. HeldFor(t)' = Append(QueuedFor(t[1], t[2]), c) \o <<>>
      BY <1>1, <1>12, <2>2 DEF HeldFor, ToFlush
    <3>2. Append(QueuedFor(t[1], t[2]), c) \in Seq(Calls)
      BY <2>1, AppendProperties
    <3> QED BY <2>1, <3>1, <3>2, ConcatEmptySeq
  <2>4. Usual(delivered[t])' = Usual(delivered[t])
    BY <1>9, <1>10, <1>12
  <2>5. (DroppedFor(t) \ reentered)' = DroppedFor(t) \ reentered
    <3>1. state'[c] = "pending" /\ state'[t[1]] # "broken" /\ reentered' = reentered
      BY <1>1, <1>2, <1>12
    <3> QED BY <1>3, <1>11, <1>12, <3>1 DEF DroppedFor
  <2> QED BY <1>4, <2>3, <2>4, <2>5 DEF InOrder, Ordered!Next, Ordered!Hold
<1>13. CASE how = "refused" /\ UNCHANGED <<queue, delivered>>
  <2>1. state'[c] = "refused"
    BY <1>1, <1>2, <1>13
  <2>2. HeldFor(t)' = HeldFor(t) /\ Usual(delivered[t])' = Usual(delivered[t])
    BY <1>8, <1>9, <1>10, <1>13
  <2>3. DroppedFor(t)' = DroppedFor(t) \cup {c}
    BY <1>3, <1>11, <1>13, <2>1 DEF DroppedFor
  <2>4. CASE t[1] = settling
    <3>1. (DroppedFor(t) \ reentered)' = DroppedFor(t) \ reentered
      BY <1>1, <1>3, <2>3, <2>4
    <3> QED BY <2>2, <3>1, SameView
  <2>5. CASE t[1] # settling
    <3>1. (DroppedFor(t) \ reentered)' = (DroppedFor(t) \ reentered) \cup {c}
      BY <1>1, <1>3, <2>3, <2>5
    <3> QED BY <1>4, <2>2, <3>1 DEF InOrder, Ordered!Next, Ordered!Refuse
  <2> QED BY <2>4, <2>5
<1>14. CASE /\ how = "pending" /\ state[t[1]] \in {"settling", "broken", "fulfilled"}
            /\ delivered' = [delivered EXCEPT ![t] = Append(delivered[t], c)]
            /\ queue' = queue
  <2>1. delivered'[t] = Append(delivered[t], c) /\ state'[c] = "pending"
    BY <1>1, <1>2, <1>14 DEF TypeOK
  <2>2. Range(delivered'[t]) = Range(delivered[t]) \cup {c}
    BY <1>5, <2>1, RangeOfAppend
  <2>3. DroppedFor(t)' = DroppedFor(t)
    BY <1>3, <1>11, <2>1, <2>2 DEF DroppedFor
  <2>4. HeldFor(t)' = HeldFor(t)
    BY <1>8, <1>14
  <2>5. Only(delivered'[t], Calls \ reentered') =
          IF c \in Calls \ reentered' THEN Append(Usual(delivered[t]), c) ELSE Usual(delivered[t])
    <3> DEFINE V == Calls \ reentered'
    <3>1. Only(delivered[t], V) = Usual(delivered[t])
      BY <1>9
    <3> HIDE DEF V
    <3>2. Only(Append(delivered[t], c), V) =
            IF c \in V THEN Append(Only(delivered[t], V), c) ELSE Only(delivered[t], V)
      BY <1>5, OnlyOfAppend
    <3>3. Only(delivered'[t], V) =
            IF c \in V THEN Append(Usual(delivered[t]), c) ELSE Usual(delivered[t])
      BY <2>1, <3>1, <3>2
    <3> QED BY <3>3 DEF V
  <2>6. CASE t[1] = settling
    <3>1. (DroppedFor(t) \ reentered)' = DroppedFor(t) \ reentered
      BY <1>1, <1>3, <2>3, <2>6
    <3>2. Usual(delivered[t])' = Usual(delivered[t])
      BY <1>1, <1>10, <2>5, <2>6
    <3> QED BY <2>4, <3>1, <3>2, SameView
  <2>7. CASE t[1] # settling
    <3>1. (DroppedFor(t) \ reentered)' = DroppedFor(t) \ reentered
      BY <1>1, <2>3, <2>7
    <3>2. Usual(delivered[t])' = Append(Usual(delivered[t]), c)
      BY <1>1, <1>3, <1>10, <2>5, <2>7
    <3>3. HeldFor(t) = <<>>
      <4>1. queue[t[1]] = <<>>
        BY <1>1, <1>14 DEF CallsInv, QueuesOK
      <4>2. QueuedFor(t[1], t[2]) = <<>>
        BY <4>1, OnlyOfEmpty DEF QueuedFor
      <4> QED BY <2>7, <4>2, HeldIs
    <3> QED BY <1>4, <2>4, <3>1, <3>2, <3>3 DEF InOrder, Ordered!Next, Ordered!PassThrough
  <2> QED BY <2>6, <2>7
<1> QED BY <1>2, <1>12, <1>13, <1>14

LEMMA CallKeepsInv ==
  ASSUME TypeOK, CallsInv, NEW c \in Calls, NEW t \in Clients, PipelineCall(c, t)
  PROVE  CallsInv'
<1>1. /\ state[c] = "unmade" /\ t[1] # c
      /\ t[1] \in Promises /\ Calls \subseteq Promises /\ c \in Promises
      /\ target' = [target EXCEPT ![c] = t]
      /\ UNCHANGED <<settling, flush, close>>
      /\ reentered' = IF t[1] = settling THEN reentered \cup {c} ELSE reentered
  BY CallCases, Numbers
<1>2. PICK how \in {"pending", "refused"} :
        /\ \A d \in Promises : state'[d] = IF d = c THEN how ELSE state[d]
        /\ \/ /\ how = "pending" /\ t[1] # settling /\ state[t[1]] \in {"pending", "rejected"}
              /\ queue' = [queue EXCEPT ![t[1]] = Append(queue[t[1]], c)]
              /\ delivered' = delivered
           \/ how = "refused" /\ UNCHANGED <<queue, delivered>>
           \/ /\ how = "pending" /\ state[t[1]] \in {"settling", "broken", "fulfilled"}
              /\ delivered' = [delivered EXCEPT ![t] = Append(delivered[t], c)]
              /\ queue' = queue
  BY CallCases
<1>3. /\ target[c] \notin Clients /\ c \notin reentered
      /\ \A p \in Promises : c \notin Range(queue[p])
      /\ \A s \in Slots : c \notin Range(flush[s])
      /\ \A u \in Clients : c \notin Range(delivered[u])
  BY <1>1, UnmadeIsNowhere
<1>4. /\ target'[c] = t
      /\ \A d \in Calls : d # c => target'[d] = target[d]
  BY <1>1 DEF TypeOK
<1>5. /\ \A p \in Promises : queue[p] \in Seq(Calls) /\ Range(queue[p]) \subseteq Calls
      /\ \A u \in Clients : delivered[u] \in Seq(Calls) /\ Range(delivered[u]) \subseteq Calls
      /\ \A s \in Slots : Range(flush[s]) \subseteq Calls
      /\ DOMAIN queue = Promises /\ DOMAIN delivered = Clients
  BY RangeIsElements DEF TypeOK
<1>6. \A p \in Promises :
        \/ queue'[p] = queue[p]
        \/ /\ p = t[1] /\ how = "pending" /\ t[1] # settling /\ state[p] \in {"pending", "rejected"}
           /\ delivered' = delivered
           /\ Range(queue'[p]) = Range(queue[p]) \cup {c}
           /\ IsInjective(queue[p]) => IsInjective(queue'[p])
  <2> SUFFICES ASSUME NEW p \in Promises, queue'[p] # queue[p]
               PROVE  /\ p = t[1] /\ how = "pending" /\ t[1] # settling
                      /\ state[p] \in {"pending", "rejected"}
                      /\ delivered' = delivered
                      /\ Range(queue'[p]) = Range(queue[p]) \cup {c}
                      /\ IsInjective(queue[p]) => IsInjective(queue'[p])
    OBVIOUS
  <2>1. /\ p = t[1] /\ how = "pending" /\ t[1] # settling /\ state[p] \in {"pending", "rejected"}
        /\ delivered' = delivered
        /\ queue'[p] = Append(queue[p], c)
    BY <1>1, <1>2, <1>5
  <2> QED BY <1>3, <1>5, <2>1, RangeOfAppend
<1>7. /\ \A u \in Clients : Range(delivered[u]) \subseteq Range(delivered'[u])
      /\ \A u \in Clients : \A d \in Range(delivered'[u]) :
           \/ d \in Range(delivered[u])
           \/ d = c /\ u = t /\ how = "pending"
      /\ how = "pending" => c \in Range(queue'[t[1]]) \/ c \in Range(delivered'[t])
  <2>1. Range(Append(delivered[t], c)) = Range(delivered[t]) \cup {c}
    BY <1>5, RangeOfAppend
  <2>2. Range(Append(queue[t[1]], c)) = Range(queue[t[1]]) \cup {c}
    BY <1>1, <1>5, RangeOfAppend
  <2>3. CASE /\ how = "pending"
             /\ queue' = [queue EXCEPT ![t[1]] = Append(queue[t[1]], c)]
             /\ delivered' = delivered
    <3>1. queue'[t[1]] = Append(queue[t[1]], c)
      BY <1>1, <1>5, <2>3
    <3>2. c \in Range(queue'[t[1]])
      BY <2>2, <3>1
    <3> QED BY <2>3, <3>2
  <2>4. CASE how = "refused" /\ UNCHANGED <<queue, delivered>>
    BY <2>4
  <2>5. CASE /\ how = "pending"
             /\ delivered' = [delivered EXCEPT ![t] = Append(delivered[t], c)]
    <3>1. /\ delivered'[t] = Append(delivered[t], c)
          /\ \A u \in Clients : u # t => delivered'[u] = delivered[u]
      BY <1>5, <2>5
    <3>2. Range(delivered'[t]) = Range(delivered[t]) \cup {c}
      BY <2>1, <3>1
    <3> QED BY <2>5, <3>1, <3>2
  <2> QED BY <1>2, <2>3, <2>4, <2>5
<1>8. queue[c] = <<>> /\ queue'[c] = queue[c]
  BY <1>1, <1>6 DEF CallsInv, QueuesOK
<1>9. QueuesOK'
  <2> SUFFICES ASSUME NEW p \in Promises
               PROVE  /\ IsInjective(queue'[p])
                      /\ queue'[p] # <<>> => state'[p] \in {"pending", "rejected"}
                      /\ \A d \in Range(queue'[p]) :
                           /\ state'[d] = "pending" /\ d \notin reentered' /\ target'[d][1] = p
                           /\ \A u \in Clients : d \notin Range(delivered'[u])
    BY DEF QueuesOK
  <2>1. IsInjective(queue'[p])
    BY <1>6 DEF CallsInv, QueuesOK
  <2>2. queue'[p] # <<>> => state'[p] \in {"pending", "rejected"}
    BY <1>1, <1>2, <1>6, <1>8 DEF CallsInv, QueuesOK
  <2>3. ASSUME NEW d \in Range(queue[p])
        PROVE  /\ state'[d] = "pending" /\ d \notin reentered' /\ target'[d][1] = p
               /\ \A u \in Clients : d \notin Range(delivered'[u])
    <3>1. d \in Calls /\ d \in Promises /\ d # c
      BY <1>1, <1>3, <1>5
    <3> QED BY <1>1, <1>2, <1>4, <1>7, <3>1 DEF CallsInv, QueuesOK
  <2>4. c \in Range(queue'[p]) =>
           /\ state'[c] = "pending" /\ c \notin reentered' /\ target'[c][1] = p
           /\ \A u \in Clients : c \notin Range(delivered'[u])
    BY <1>1, <1>2, <1>3, <1>4, <1>6
  <2>5. \A d \in Range(queue'[p]) : d \in Range(queue[p]) \/ d = c
    BY <1>6
  <2> QED BY <2>1, <2>2, <2>3, <2>4, <2>5
<1>10. FlushOK'
  <2>1. ASSUME NEW s \in Slots, NEW d \in Range(flush[s])
        PROVE  /\ state'[d] = "pending" /\ d \notin reentered'
               /\ settling \in Promises /\ target'[d] = <<settling, s>>
               /\ \A u \in Clients : d \notin Range(delivered'[u])
    <3>1. d \in Calls /\ d \in Promises /\ d # c
      BY <1>1, <1>3, <1>5
    <3> QED BY <1>1, <1>2, <1>4, <1>7, <3>1 DEF CallsInv, FlushOK
  <2> QED BY <1>1, <2>1 DEF CallsInv, FlushOK
<1>11. DeliveriesOK'
  <2> SUFFICES ASSUME NEW u \in Clients, NEW d \in Range(delivered'[u])
               PROVE  state'[d] # "unmade" /\ target'[d] = u
    BY DEF DeliveriesOK
  <2>1. CASE d \in Range(delivered[u])
    <3>1. d \in Calls /\ d \in Promises /\ d # c
      BY <1>1, <1>3, <1>5, <2>1
    <3> QED BY <1>2, <1>4, <2>1, <3>1 DEF CallsInv, DeliveriesOK
  <2>2. CASE d = c /\ u = t
    BY <1>1, <1>2, <1>4, <2>2
  <2> QED BY <1>7, <2>1, <2>2
<1>12. MadeOK'
  <2>1. \A d \in Calls : d \in Promises
    BY <1>1
  <2> QED BY <1>1, <1>2, <1>4, <2>1 DEF CallsInv, MadeOK
<1>13. SettlingOK'
  <2>1. settling # NoCall => settling \in Promises /\ settling # c
    BY <1>1 DEF CallsInv, SettlingOK, TypeOK
  <2> QED BY <1>1, <1>2, <2>1 DEF CallsInv, SettlingOK
<1>14. NoneIsLost'
  <2> SUFFICES ASSUME NEW d \in Calls, state'[d] \notin {"unmade", "rejected", "refused"}
               PROVE  \/ d \in Range(delivered'[target'[d]])
                      \/ d \in Range(queue'[target'[d][1]])
                      \/ target'[d][1] = settling' /\ d \in Range(flush'[target'[d][2]])
                      \/ state'[target'[d][1]] = "broken"
    BY DEF NoneIsLost
  <2>1. CASE d = c
    BY <1>1, <1>2, <1>4, <1>7, <2>1
  <2>2. CASE d # c
    <3>1. /\ state[d] \notin {"unmade", "rejected", "refused"} /\ target'[d] = target[d]
          /\ target[d] \in Clients /\ target[d][1] \in Promises
      BY <1>1, <1>2, <1>4, <2>2, Numbers DEF CallsInv, MadeOK
    <3>2. Range(queue[target[d][1]]) \subseteq Range(queue'[target[d][1]])
      BY <1>6, <3>1
    <3>3. state[target[d][1]] = "broken" => state'[target[d][1]] = "broken"
      BY <1>1, <1>2, <3>1
    <3> QED BY <1>1, <1>7, <3>1, <3>2, <3>3 DEF CallsInv, NoneIsLost
  <2> QED BY <2>1, <2>2
<1>15. ClosedOK'
  <2>1. \A u \in Clients : u[1] \in Promises
    BY Numbers
  <2> QED BY <1>1, <1>2, <2>1 DEF CallsInv, ClosedOK
<1> QED BY <1>9, <1>10, <1>11, <1>12, <1>13, <1>14, <1>15 DEF CallsInv

-----------------------------------------------------------------------------
(* The end of a method.                                                    *)

\* What hangs below some promises: they, and what is queued on one of these.
LEMMA BelowIs ==
  ASSUME TypeOK, NEW C, C \subseteq Promises
  PROVE  /\ C \subseteq Below(C) /\ Below(C) \subseteq Promises
         /\ \A q \in Below(C) : Range(queue[q]) \subseteq Below(C)
         /\ \A q \in Below(C) : q \in C \/ \E u \in Below(C) : q \in Range(queue[u])
<1> DEFINE Closed(S) == /\ S \in SUBSET Promises /\ C \subseteq S
                        /\ \A q \in S : Range(queue[q]) \subseteq S
           B == Below(C)
<1>1. \A q : q \in B <=> q \in Promises /\ \A S : Closed(S) => q \in S
  BY DEF Below
<1>2. \A q \in Promises : Range(queue[q]) \subseteq Promises
  BY Numbers, RangeIsElements DEF TypeOK
<1> HIDE DEF B
<1>3. C \subseteq B /\ B \subseteq Promises
  BY <1>1
<1>4. ASSUME NEW q \in B, NEW u \in Range(queue[q]) PROVE u \in B
  <2>1. u \in Promises
    BY <1>2, <1>3
  <2>2. \A S : Closed(S) => u \in S
    BY <1>1
  <2> QED BY <1>1, <2>1, <2>2
<1> DEFINE S == C \cup {q \in Promises : \E u \in B : q \in Range(queue[u])}
<1>5. Closed(S)
  <2>1. S \subseteq B
    BY <1>3, <1>4
  <2>2. ASSUME NEW q \in S PROVE Range(queue[q]) \subseteq S
    <3>1. q \in B /\ q \in Promises
      BY <1>3, <2>1
    <3> QED BY <1>2, <3>1
  <2> QED BY <2>2
<1>6. \A q \in B : q \in S
  BY <1>1, <1>5
<1> QED BY <1>3, <1>4, <1>6 DEF B

\* What the end of a method does to its calls: the promises below C are
\* rejected, and each slot of p is flushed, or none of its calls is held on.
MethodDone(p, C, done) ==
  /\ settling = NoCall /\ Running(p)
  /\ \/ done = "rejected" /\ C = {p}
     \/ done \in {"settling", "broken"} /\ C \subseteq Range(queue[p])
  /\ state' = [q \in Promises |-> IF q = p THEN done
                                  ELSE IF q \in Below(C) THEN "rejected" ELSE state[q]]
  /\ queue' = [q \in Promises |-> IF q = p \/ q \in Below(C) THEN <<>> ELSE queue[q]]
  /\ settling' = IF done = "rejected" THEN NoCall ELSE p
  /\ \A s \in Slots :
       \/ /\ done # "rejected"
          /\ flush'[s] = QueuedFor(p, s) /\ Range(QueuedFor(p, s)) \cap C = {}
       \/ /\ flush'[s] = <<>>
          /\ done # "settling" \/ Range(QueuedFor(p, s)) \subseteq C
  /\ UNCHANGED <<target, delivered, close, reentered>>

\* While no promise is being settled there is nothing to flush.
LEMMA NothingToFlush ==
  ASSUME TypeOK, CallsInv, settling = NoCall, NEW s \in Slots
  PROVE  flush[s] = <<>>
<1>1. NoCall \notin Promises /\ flush[s] \in Seq(Calls)
  BY Numbers DEF TypeOK
<1>2. Range(flush[s]) = {}
  BY <1>1 DEF CallsInv, FlushOK
<1>3. ASSUME flush[s] # <<>> PROVE FALSE
  <2>1. Range(flush[s]) = Range(Tail(flush[s])) \cup {Head(flush[s])}
    BY <1>1, <1>3, RangeOfTail
  <2> QED BY <1>2, <2>1
<1> QED BY <1>3

LEMMA MethodFailsIs ==
  ASSUME TypeOK, CallsInv, NEW p \in Promises, MethodFails(p)
  PROVE  MethodDone(p, {p}, "rejected")
<1>1. /\ state' = [q \in Promises |-> IF q \in Below({p}) THEN "rejected" ELSE state[q]]
      /\ queue' = [q \in Promises |-> IF q \in Below({p}) THEN <<>> ELSE queue[q]]
      /\ UNCHANGED <<target, settling, flush, delivered, close, reentered>>
      /\ settling = NoCall /\ Running(p)
  BY DEF MethodFails, Reject
<1>2. p \in Below({p})
  BY BelowIs
<1>3. \A s \in Slots : flush'[s] = <<>>
  BY <1>1, NothingToFlush
<1>4. /\ state' = [q \in Promises |-> IF q = p THEN "rejected"
                                      ELSE IF q \in Below({p}) THEN "rejected" ELSE state[q]]
      /\ queue' = [q \in Promises |-> IF q = p \/ q \in Below({p}) THEN <<>> ELSE queue[q]]
  BY <1>1, <1>2
<1> QED BY <1>1, <1>3, <1>4 DEF MethodDone

LEMMA MethodReturnsIs ==
  ASSUME TypeOK, CallsInv, NEW p \in Promises, NEW r \in [Slots -> Results],
         MethodReturns(p, r)
  PROVE  \E C, done : MethodDone(p, C, done)
<1> DEFINE C == {c \in Range(queue[p]) : r[target[c][2]] = "null"}
           done == IF Empty(p, r) = {} THEN "settling" ELSE "broken"
<1>1. /\ state' = [q \in Promises |-> IF q = p THEN done
                                      ELSE IF q \in Below(C) THEN "rejected" ELSE state[q]]
      /\ queue' = [q \in Promises |-> IF q = p \/ q \in Below(C) THEN <<>> ELSE queue[q]]
      /\ settling' = p
      /\ flush' = Embargoed(p, r)
      /\ settling = NoCall /\ Running(p)
      /\ UNCHANGED <<target, delivered, close, reentered>>
  BY DEF MethodReturns
<1>2. ASSUME NEW s \in Slots
      PROVE  \/ /\ flush'[s] = QueuedFor(p, s) /\ Range(QueuedFor(p, s)) \cap C = {}
             \/ /\ flush'[s] = <<>>
                /\ done # "settling" \/ Range(QueuedFor(p, s)) \subseteq C
  <2>1. r[s] \in {"cap", "null", "none"}
    BY LocalPromiseAssumption DEF SlotValues
  <2>2. Range(QueuedFor(p, s)) = {c \in Range(queue[p]) : target[c] = <<p, s>>}
    BY QueuedForIs
  <2>3. flush'[s] = IF r[s] = "cap" /\ \A e \in Empty(p, r) : s < e
                    THEN QueuedFor(p, s) ELSE <<>>
    BY <1>1 DEF Embargoed
  <2>4. CASE r[s] = "cap" /\ \A e \in Empty(p, r) : s < e
    BY <2>2, <2>3, <2>4
  <2>5. CASE r[s] = "cap" /\ ~ \A e \in Empty(p, r) : s < e
    <3>1. Empty(p, r) # {} /\ flush'[s] = <<>>
      BY <2>3, <2>5
    <3> QED BY <3>1
  <2>6. CASE r[s] = "null"
    BY <2>2, <2>3, <2>6
  <2>7. CASE r[s] = "none" /\ QueuedFor(p, s) = <<>>
    <3>1. Range(QueuedFor(p, s)) = {} /\ flush'[s] = <<>>
      BY <2>3, <2>7, RangeOfEmpty
    <3> QED BY <3>1
  <2>8. CASE r[s] = "none" /\ QueuedFor(p, s) # <<>>
    <3>1. s \in Empty(p, r) /\ flush'[s] = <<>>
      BY <2>3, <2>8 DEF Empty
    <3> QED BY <3>1
  <2> QED BY <2>1, <2>4, <2>5, <2>6, <2>7, <2>8
<1>3. C \subseteq Range(queue[p]) /\ done \in {"settling", "broken"}
  OBVIOUS
<1> HIDE DEF C, done
<1>4. MethodDone(p, C, done)
  BY <1>1, <1>2, <1>3 DEF MethodDone
<1> QED BY <1>4

\* Who hangs below the promises of an ended method.
LEMMA RejectedIs ==
  ASSUME TypeOK, CallsInv, NEW p \in Promises, NEW C, NEW done, MethodDone(p, C, done)
  PROVE  /\ state[p] = "pending" /\ settling = NoCall
         /\ \A q \in Promises : p \notin Range(queue[q])
         /\ p \in Calls => target[p] \in Clients /\ p \in Range(delivered[target[p]])
         /\ p \in Below(C) => done = "rejected"
         /\ done = "rejected" => p \in Below(C)
         /\ C \subseteq Below(C) /\ Below(C) \subseteq Promises
         /\ \A q \in Below(C) : Range(queue[q]) \subseteq Below(C)
         /\ \A q \in Below(C) \ {p} :
              /\ q \in Calls /\ state[q] = "pending" /\ target[q][1] \in Promises
              /\ q \in Range(queue[target[q][1]])
              /\ (target[q][1] = p /\ q \in C) \/ target[q][1] \in Below(C)
<1>1. /\ state[p] = "pending" /\ settling = NoCall
      /\ p = Root \/ \E t \in Clients : p \in Range(delivered[t])
      /\ (done = "rejected" /\ C = {p}) \/ (done # "rejected" /\ C \subseteq Range(queue[p]))
  BY DEF MethodDone, Running
<1>2. /\ Root \notin Calls /\ Calls \subseteq Promises
      /\ \A q \in Promises : Range(queue[q]) \subseteq Calls
  BY Numbers, RangeIsElements DEF TypeOK, Root
<1>3. \A q \in Promises : p \notin Range(queue[q])
  BY <1>1, <1>2 DEF CallsInv, QueuesOK
<1>4. p \in Calls => target[p] \in Clients /\ p \in Range(delivered[target[p]])
  BY <1>1, <1>2 DEF CallsInv, DeliveriesOK
<1>5. C \subseteq Promises
  BY <1>1, <1>2
<1>6. /\ C \subseteq Below(C) /\ Below(C) \subseteq Promises
      /\ \A q \in Below(C) : Range(queue[q]) \subseteq Below(C)
      /\ \A q \in Below(C) : q \in C \/ \E u \in Below(C) : q \in Range(queue[u])
  BY <1>5, BelowIs
<1>7. p \in Below(C) => done = "rejected"
  BY <1>1, <1>3, <1>6
<1>8. done = "rejected" => p \in Below(C)
  BY <1>1, <1>6
<1>9. ASSUME NEW q \in Below(C), q # p
      PROVE  /\ q \in Calls /\ state[q] = "pending" /\ target[q][1] \in Promises
             /\ q \in Range(queue[target[q][1]])
             /\ (target[q][1] = p /\ q \in C) \/ target[q][1] \in Below(C)
  <2>1. PICK u \in Promises : q \in Range(queue[u]) /\ ((u = p /\ q \in C) \/ u \in Below(C))
    BY <1>1, <1>6, <1>9
  <2>2. q \in Calls /\ state[q] = "pending" /\ target[q][1] = u
    BY <1>2, <2>1 DEF CallsInv, QueuesOK
  <2> QED BY <2>1, <2>2
<1> QED BY <1>1, <1>3, <1>4, <1>6, <1>7, <1>8, <1>9

LEMMA MethodDoneStates ==
  ASSUME TypeOK, CallsInv, NEW p \in Promises, NEW C, NEW done, MethodDone(p, C, done)
  PROVE  /\ done \in {"rejected", "settling", "broken"}
         /\ state'[p] = done /\ queue'[p] = <<>>
         /\ \A q \in Below(C) \ {p} : state'[q] = "rejected" /\ queue'[q] = <<>>
         /\ \A q \in Promises : q # p /\ q \notin Below(C) =>
              state'[q] = state[q] /\ queue'[q] = queue[q]
         /\ settling' = IF done = "rejected" THEN NoCall ELSE p
         /\ UNCHANGED <<target, delivered, close, reentered>>
BY RejectedIs DEF MethodDone

\* What a capability of the promise was held back goes to its flush or is dropped.
LEMMA MethodDoneHere ==
  ASSUME TypeOK, CallsInv, NEW p \in Promises, NEW C, NEW done, MethodDone(p, C, done),
         NEW t \in Clients, t[1] = p
  PROVE  InOrder(t)
<1> DEFINE s == t[2]
           W == Range(QueuedFor(p, s))
<1>1. /\ s \in Slots /\ t = <<p, s>> /\ NoCall \notin Promises /\ Calls \subseteq Promises
  BY Numbers
<1>2. /\ done \in {"rejected", "settling", "broken"}
      /\ state'[p] = done /\ queue'[p] = <<>>
      /\ \A q \in Below(C) \ {p} : state'[q] = "rejected"
      /\ \A q \in Promises : q # p /\ q \notin Below(C) => state'[q] = state[q]
      /\ settling' = IF done = "rejected" THEN NoCall ELSE p
      /\ UNCHANGED <<target, delivered, close, reentered>>
  BY MethodDoneStates
<1>3. /\ state[p] = "pending" /\ settling = NoCall
      /\ p \in Calls => p \in Range(delivered[target[p]])
      /\ C \subseteq Below(C)
      /\ p \in Below(C) => done = "rejected"
      /\ done = "rejected" => Range(queue[p]) \subseteq Below(C)
      /\ \A q \in Below(C) \ {p} : /\ q \in Calls /\ state[q] = "pending"
                                   /\ (target[q][1] = p /\ q \in C) \/ target[q][1] \in Below(C)
  BY RejectedIs
<1>4. /\ W = {c \in Range(queue[p]) : target[c] = t} /\ Range(queue[p]) \subseteq Calls
      /\ QueuedFor(p, s) \in Seq(Calls)
  <2> HIDE DEF s
  <2>1. /\ QueuedFor(p, s) \in Seq(Calls)
        /\ Range(QueuedFor(p, s)) = {c \in Range(queue[p]) : target[c] = <<p, s>>}
    BY <1>1, QueuedForIs
  <2>2. Range(queue[p]) \subseteq Calls
    BY RangeIsElements DEF TypeOK
  <2> QED BY <1>1, <2>1, <2>2
<1>5. HeldFor(t) = QueuedFor(p, s) /\ Range(HeldFor(t)) = W
  BY <1>1, <1>3, HeldIs
<1>6. HeldFor(t)' = IF done = "rejected" THEN <<>> ELSE flush'[s]
  <2>1. QueuedFor(p, s)' = <<>>
    BY <1>2, OnlyOfEmpty DEF QueuedFor
  <2>2. HeldFor(t)' = <<>> \o ToFlush(t)'
    BY <1>1, <2>1 DEF HeldFor
  <2>3. ToFlush(t)' = IF done = "rejected" THEN <<>> ELSE flush'[s]
    BY <1>1, <1>2 DEF ToFlush
  <2>4. <<>> \in Seq(Calls) /\ flush'[s] \in {QueuedFor(p, s), <<>>}
    BY <1>1, EmptySeq DEF MethodDone
  <2> QED BY <1>4, <2>2, <2>3, <2>4, ConcatEmptySeq
<1>7. Usual(delivered[t])' = Usual(delivered[t])
  BY <1>2 DEF Usual
<1>8. /\ \A c \in DroppedFor(t) : c \in Calls /\ target[c] = t /\ c \notin Range(delivered[t])
      /\ \A c \in DroppedFor(t) : state[c] \in {"rejected", "refused"}
      /\ \A c \in Calls : target[c] = t /\ c \notin Range(delivered[t])
                          => c \in DroppedFor(t) \/ c \in W
      /\ \A c \in W : /\ c \in Calls /\ target[c] = t /\ c \notin Range(delivered[t])
                      /\ state[c] = "pending" /\ c \notin reentered /\ c # p
      /\ W \cap DroppedFor(t) = {}
  <2>1. \A c \in DroppedFor(t) : /\ c \in Calls /\ target[c] = t /\ c \notin Range(delivered[t])
                                 /\ state[c] \in {"rejected", "refused"}
    BY <1>1, <1>3 DEF DroppedFor
  <2>2. ASSUME NEW c \in Calls, target[c] = t, c \notin Range(delivered[t]),
               c \notin DroppedFor(t)
        PROVE  c \in W
    <3>1. state[c] \notin {"rejected", "refused"}
      BY <2>2 DEF DroppedFor
    <3>2. state[c] # "unmade"
      BY <2>2 DEF CallsInv, MadeOK
    <3>3. c \in Range(queue[p])
      BY <1>1, <1>3, <2>2, <3>1, <3>2 DEF CallsInv, NoneIsLost
    <3> QED BY <1>4, <2>2, <3>3
  <2>3. \A c \in W : /\ c \in Calls /\ target[c] = t /\ c \notin Range(delivered[t])
                     /\ state[c] = "pending" /\ c \notin reentered /\ c # p
    BY <1>3, <1>4 DEF CallsInv, QueuesOK
  <2> QED BY <2>1, <2>2, <2>3
<1>9. \A c \in DroppedFor(t) : c # p /\ state'[c] = state[c]
  <2>1. \A c \in DroppedFor(t) : c \in Promises /\ c # p /\ c \notin Below(C) \ {p}
    BY <1>1, <1>3, <1>8
  <2> QED BY <1>2, <2>1
<1>10. DroppedFor(t)' = {c \in DroppedFor(t) \cup W :
                           \/ state'[c] \in {"rejected", "refused"}
                           \/ done = "broken" /\ c \notin Range(ToFlush(t)')}
  BY <1>1, <1>2, <1>8 DEF DroppedFor
<1>11. ToFlush(t)' = IF done = "rejected" THEN <<>> ELSE flush'[s]
  BY <1>1, <1>2 DEF ToFlush
<1> HIDE DEF W
<1>12. CASE done # "rejected" /\ flush'[s] = QueuedFor(p, s) /\ W \cap C = {}
  <2>1. \A c \in W : state'[c] = "pending" /\ c \in Range(ToFlush(t)')
    <3>1. \A c \in W : c \in Promises /\ c \notin Below(C)
      BY <1>1, <1>3, <1>8, <1>12
    <3> QED BY <1>2, <1>8, <1>11, <1>12, <3>1 DEF W
  <2>2. DroppedFor(t)' = DroppedFor(t)
    BY <1>8, <1>9, <1>10, <2>1
  <2>3. HeldFor(t)' = HeldFor(t)
    BY <1>5, <1>6, <1>12
  <2> QED BY <1>2, <1>7, <2>2, <2>3, SameView
<1>13. CASE flush'[s] = <<>> /\ (done # "settling" \/ W \subseteq C)
  <2>1. HeldFor(t)' = <<>>
    BY <1>6, <1>13
  <2>2. ASSUME NEW c \in W
        PROVE  state'[c] = "rejected" \/ (done = "broken" /\ c \notin Range(ToFlush(t)'))
    <3>1. CASE done = "broken"
      BY <1>11, <1>13, <3>1, RangeOfEmpty
    <3>2. CASE done # "broken"
      <4>1. c \in Below(C) \ {p}
        BY <1>2, <1>3, <1>4, <1>8, <1>13, <3>2 DEF W
      <4> QED BY <1>2, <4>1
    <3> QED BY <3>1, <3>2
  <2>3. DroppedFor(t)' = DroppedFor(t) \cup W
    BY <1>8, <1>9, <1>10, <2>2
  <2>4. (DroppedFor(t) \ reentered)' = (DroppedFor(t) \ reentered) \cup W
    BY <1>2, <1>8, <2>3
  <2>5. Ordered(t)!CancelWaiting
    BY <1>5, <1>7, <2>1, <2>4 DEF Ordered!CancelWaiting, Ordered!Range, Range
  <2> QED BY <2>5 DEF InOrder, Ordered!Next
<1> QED BY <1>1, <1>12, <1>13 DEF MethodDone, W

\* What a promise below had queued is dropped.
LEMMA MethodDoneBelow ==
  ASSUME TypeOK, CallsInv, NEW p \in Promises, NEW C, NEW done, MethodDone(p, C, done),
         NEW t \in Clients, t[1] \in Below(C), t[1] # p
  PROVE  InOrder(t)
<1> DEFINE W == Range(QueuedFor(t[1], t[2]))
<1>1. /\ t[1] \in Promises /\ t[2] \in Slots /\ t = <<t[1], t[2]>>
      /\ NoCall \notin Promises /\ Calls \subseteq Promises
  BY Numbers
<1>2. /\ done \in {"rejected", "settling", "broken"}
      /\ state'[t[1]] = "rejected" /\ queue'[t[1]] = <<>>
      /\ \A q \in Below(C) \ {p} : state'[q] = "rejected"
      /\ \A q \in Promises : q # p /\ q \notin Below(C) => state'[q] = state[q]
      /\ settling' = IF done = "rejected" THEN NoCall ELSE p
      /\ UNCHANGED <<target, delivered, close, reentered>>
  BY MethodDoneStates
<1>3. /\ settling = NoCall /\ state[t[1]] = "pending"
      /\ p \in Calls => p \in Range(delivered[target[p]])
      /\ Range(queue[t[1]]) \subseteq Below(C)
      /\ \A q \in Promises : p \notin Range(queue[q])
      /\ \A q \in Below(C) \ {p} : q \in Calls /\ state[q] = "pending"
                                   /\ q \in Range(queue[target[q][1]])
  BY RejectedIs
<1>4. /\ W = {c \in Range(queue[t[1]]) : target[c] = t} /\ Range(queue[t[1]]) \subseteq Calls
  <2>1. Range(QueuedFor(t[1], t[2])) = {c \in Range(queue[t[1]]) : target[c] = <<t[1], t[2]>>}
    BY <1>1, QueuedForIs
  <2>2. Range(queue[t[1]]) \subseteq Calls
    BY <1>1, RangeIsElements DEF TypeOK
  <2> QED BY <1>1, <2>1, <2>2
<1>5. HeldFor(t) = QueuedFor(t[1], t[2]) /\ Range(HeldFor(t)) = W
  BY <1>1, <1>3, HeldIs
<1>6. HeldFor(t)' = <<>>
  <2>1. QueuedFor(t[1], t[2])' = <<>>
    BY <1>2, OnlyOfEmpty DEF QueuedFor
  <2>2. ToFlush(t)' = <<>>
    BY <1>1, <1>2 DEF ToFlush
  <2>3. <<>> \in Seq(Calls)
    BY EmptySeq
  <2> QED BY <2>1, <2>2, <2>3, ConcatEmptySeq DEF HeldFor
<1>7. Usual(delivered[t])' = Usual(delivered[t])
  BY <1>2 DEF Usual
<1>8. DroppedFor(t)' = DroppedFor(t) \cup W
  <2>1. DroppedFor(t) = {c \in Calls : /\ target[c] = t /\ c \notin Range(delivered[t])
                                       /\ state[c] \in {"rejected", "refused"}}
    BY <1>3 DEF DroppedFor
  <2>2. DroppedFor(t)' = {c \in Calls : /\ target[c] = t /\ c \notin Range(delivered[t])
                                        /\ state'[c] \in {"rejected", "refused"}}
    BY <1>2 DEF DroppedFor
  <2>3. ASSUME NEW c \in Calls, target[c] = t, c \notin Range(delivered[t])
        PROVE  state'[c] \in {"rejected", "refused"} <=>
                 state[c] \in {"rejected", "refused"} \/ c \in W
    <3>1. c # p /\ c \in Promises
      BY <1>1, <1>3, <2>3
    <3>2. c \in W => c \in Below(C)
      BY <1>3, <1>4
    <3>3. c \in Below(C) => c \in W
      BY <1>3, <1>4, <2>3, <3>1
    <3> QED BY <1>2, <3>1, <3>2, <3>3
  <2>4. \A c \in W : c \in Calls /\ target[c] = t /\ c \notin Range(delivered[t])
    BY <1>1, <1>4 DEF CallsInv, QueuesOK
  <2> HIDE DEF W
  <2> QED BY <2>1, <2>2, <2>3, <2>4
<1>9. \A c \in W : c \notin reentered
  BY <1>1, <1>4 DEF CallsInv, QueuesOK
<1>10. (DroppedFor(t) \ reentered)' = (DroppedFor(t) \ reentered) \cup W
  BY <1>2, <1>8, <1>9
<1>11. Ordered(t)!CancelWaiting
  BY <1>5, <1>6, <1>7, <1>10 DEF Ordered!CancelWaiting, Ordered!Range, Range
<1> QED BY <1>11 DEF InOrder, Ordered!Next

\* Other capabilities do not notice.
LEMMA MethodDoneElsewhere ==
  ASSUME TypeOK, CallsInv, NEW p \in Promises, NEW C, NEW done, MethodDone(p, C, done),
         NEW t \in Clients, t[1] \notin Below(C), t[1] # p
  PROVE  InOrder(t)
<1>1. /\ t[1] \in Promises /\ t[2] \in Slots /\ t = <<t[1], t[2]>>
      /\ NoCall \notin Promises /\ Calls \subseteq Promises
  BY Numbers
<1>2. /\ done \in {"rejected", "settling", "broken"}
      /\ state'[t[1]] = state[t[1]] /\ queue'[t[1]] = queue[t[1]]
      /\ \A q \in Promises : q # p /\ q \notin Below(C) => state'[q] = state[q]
      /\ settling' = IF done = "rejected" THEN NoCall ELSE p
      /\ UNCHANGED <<target, delivered, close, reentered>>
  BY <1>1, MethodDoneStates
<1>3. /\ settling = NoCall
      /\ p \in Calls => p \in Range(delivered[target[p]])
      /\ \A q \in Below(C) \ {p} : target[q][1] = p \/ target[q][1] \in Below(C)
  BY RejectedIs
<1>4. ToFlush(t) = <<>> /\ ToFlush(t)' = <<>>
  BY <1>1, <1>2, <1>3 DEF ToFlush
<1>5. HeldFor(t)' = HeldFor(t) /\ Usual(delivered[t])' = Usual(delivered[t])
  <2>1. QueuedFor(t[1], t[2])' = QueuedFor(t[1], t[2])
    BY <1>2 DEF QueuedFor
  <2> QED BY <1>2, <1>4, <2>1 DEF HeldFor, Usual
<1>6. DroppedFor(t)' = DroppedFor(t)
  <2>1. \A c \in Calls : target[c] = t /\ c \notin Range(delivered[t]) => state'[c] = state[c]
    BY <1>1, <1>2, <1>3
  <2> QED BY <1>2, <1>4, <2>1 DEF DroppedFor
<1>7. (DroppedFor(t) \ reentered)' = DroppedFor(t) \ reentered
  BY <1>2, <1>6
<1> QED BY <1>5, <1>7, SameView

LEMMA MethodDoneKeepsInv ==
  ASSUME TypeOK, CallsInv, NEW p \in Promises, NEW C, NEW done, MethodDone(p, C, done)
  PROVE  CallsInv'
<1>1. /\ NoCall \notin Promises /\ Calls \subseteq Promises
      /\ \A q \in Promises : Range(queue[q]) \subseteq Calls
      /\ \A t \in Clients : /\ Range(delivered[t]) \subseteq Calls
                            /\ t[1] \in Promises /\ t[2] \in Slots /\ t = <<t[1], t[2]>>
  BY Numbers, RangeIsElements DEF TypeOK
<1>2. /\ done \in {"rejected", "settling", "broken"}
      /\ state'[p] = done /\ queue'[p] = <<>>
      /\ \A q \in Below(C) \ {p} : state'[q] = "rejected" /\ queue'[q] = <<>>
      /\ \A q \in Promises : q # p /\ q \notin Below(C) =>
           state'[q] = state[q] /\ queue'[q] = queue[q]
      /\ settling' = IF done = "rejected" THEN NoCall ELSE p
      /\ UNCHANGED <<target, delivered, close, reentered>>
  BY MethodDoneStates
<1>3. /\ state[p] = "pending" /\ settling = NoCall
      /\ \A q \in Promises : p \notin Range(queue[q])
      /\ p \in Calls => p \in Range(delivered[target[p]])
      /\ p \in Below(C) => done = "rejected"
      /\ done = "rejected" => p \in Below(C)
      /\ C \subseteq Below(C) /\ Below(C) \subseteq Promises
      /\ \A q \in Below(C) : Range(queue[q]) \subseteq Below(C)
      /\ \A q \in Below(C) \ {p} :
           /\ q \in Calls /\ state[q] = "pending"
           /\ (target[q][1] = p /\ q \in C) \/ target[q][1] \in Below(C)
  BY RejectedIs
<1>4. Range(<<>>) = {} /\ IsInjective(<<>>)
  BY RangeOfEmpty
<1>5. QueuesOK'
  <2> SUFFICES ASSUME NEW q \in Promises
               PROVE  /\ IsInjective(queue'[q])
                      /\ queue'[q] # <<>> => state'[q] \in {"pending", "rejected"}
                      /\ \A c \in Range(queue'[q]) :
                           /\ state'[c] = "pending" /\ c \notin reentered' /\ target'[c][1] = q
                           /\ \A t \in Clients : c \notin Range(delivered'[t])
    BY DEF QueuesOK
  <2>1. CASE q = p \/ q \in Below(C)
    BY <1>2, <1>4, <2>1
  <2>2. CASE q # p /\ q \notin Below(C)
    <3>1. queue'[q] = queue[q] /\ state'[q] = state[q]
      BY <1>2, <2>2
    <3>2. ASSUME NEW c \in Range(queue[q])
          PROVE  /\ state'[c] = "pending" /\ c \notin reentered' /\ target'[c][1] = q
                 /\ \A t \in Clients : c \notin Range(delivered'[t])
      <4>1. /\ c \in Promises /\ state[c] = "pending" /\ c \notin reentered /\ target[c][1] = q
            /\ \A t \in Clients : c \notin Range(delivered[t])
        BY <1>1 DEF CallsInv, QueuesOK
      <4>2. c # p /\ c \notin Below(C)
        BY <1>3, <2>2, <4>1
      <4> QED BY <1>2, <4>1, <4>2
    <3> QED BY <3>1, <3>2 DEF CallsInv, QueuesOK
  <2> QED BY <2>1, <2>2
<1>6. FlushOK'
  <2> SUFFICES ASSUME NEW s \in Slots
               PROVE  /\ IsInjective(flush'[s])
                      /\ \A c \in Range(flush'[s]) :
                           /\ state'[c] = "pending" /\ c \notin reentered'
                           /\ settling' \in Promises /\ target'[c] = <<settling', s>>
                           /\ \A t \in Clients : c \notin Range(delivered'[t])
    BY DEF FlushOK
  <2>1. CASE flush'[s] = <<>>
    BY <1>4, <2>1
  <2>2. CASE /\ done # "rejected"
             /\ flush'[s] = QueuedFor(p, s) /\ Range(QueuedFor(p, s)) \cap C = {}
    <3>1. /\ Range(QueuedFor(p, s)) = {c \in Range(queue[p]) : target[c] = <<p, s>>}
          /\ IsInjective(queue[p]) => IsInjective(QueuedFor(p, s))
      BY QueuedForIs
    <3>2. IsInjective(flush'[s])
      BY <2>2, <3>1 DEF CallsInv, QueuesOK
    <3>3. ASSUME NEW c \in Range(flush'[s])
          PROVE  /\ state'[c] = "pending" /\ c \notin reentered'
                 /\ settling' \in Promises /\ target'[c] = <<settling', s>>
                 /\ \A t \in Clients : c \notin Range(delivered'[t])
      <4>1. c \in Range(queue[p]) /\ target[c] = <<p, s>> /\ c \notin C
        BY <2>2, <3>1
      <4>2. /\ c \in Promises /\ state[c] = "pending" /\ c \notin reentered /\ target[c][1] = p
            /\ \A t \in Clients : c \notin Range(delivered[t])
        BY <1>1, <4>1 DEF CallsInv, QueuesOK
      <4>3. c # p /\ c \notin Below(C)
        BY <1>3, <2>2, <4>1, <4>2
      <4> QED BY <1>2, <2>2, <4>1, <4>2, <4>3
    <3> QED BY <3>2, <3>3
  <2> QED BY <2>1, <2>2 DEF MethodDone
<1>7. DeliveriesOK'
  <2>1. \A q \in Promises : state'[q] \in {state[q], done, "rejected"}
    BY <1>2
  <2> QED BY <1>1, <1>2, <2>1 DEF CallsInv, DeliveriesOK
<1>8. MadeOK'
  <2>1. \A q \in Promises : state'[q] = "unmade" <=> state[q] = "unmade"
    BY <1>2, <1>3
  <2> QED BY <1>1, <1>2, <2>1 DEF CallsInv, MadeOK
<1>9. SettlingOK'
  <2>1. settling' # NoCall => state'[settling'] \in {"settling", "broken"}
    BY <1>1, <1>2
  <2>2. ASSUME NEW q \in Promises, state'[q] = "settling" PROVE q = settling'
    <3>1. CASE q = p
      BY <1>2, <2>2, <3>1
    <3>2. CASE q # p
      <4>1. state[q] = "settling"
        BY <1>2, <2>2, <3>2
      <4> QED BY <1>1, <1>3, <4>1 DEF CallsInv, SettlingOK
    <3> QED BY <3>1, <3>2
  <2> QED BY <2>1, <2>2 DEF SettlingOK
<1>10. NoneIsLost'
  <2> SUFFICES ASSUME NEW c \in Calls, state'[c] \notin {"unmade", "rejected", "refused"}
               PROVE  \/ c \in Range(delivered'[target'[c]])
                      \/ c \in Range(queue'[target'[c][1]])
                      \/ target'[c][1] = settling' /\ c \in Range(flush'[target'[c][2]])
                      \/ state'[target'[c][1]] = "broken"
    BY DEF NoneIsLost
  <2>1. CASE c = p
    BY <1>2, <1>3, <2>1
  <2>2. CASE c # p
    <3>1. c \notin Below(C) /\ state[c] \notin {"unmade", "rejected", "refused"}
      BY <1>1, <1>2, <2>2
    <3> DEFINE u == target[c][1]
               s == target[c][2]
    <3>2. target[c] = <<u, s>> /\ target[c] \in Clients /\ u \in Promises /\ s \in Slots
      <4>1. target[c] \in Clients
        BY <3>1 DEF CallsInv, MadeOK
      <4> QED BY <1>1, <4>1
    <3>3. c \in Range(delivered[target[c]]) \/ c \in Range(queue[u]) \/ state[u] = "broken"
      BY <1>1, <1>3, <3>1, <3>2 DEF CallsInv, NoneIsLost
    <3> HIDE DEF u, s
    <3>4. u \in Below(C) => c \notin Range(queue[u])
      BY <1>3, <3>1
    <3>5. CASE u = p /\ c \in Range(queue[u])
      <4>1. done # "rejected"
        BY <1>3, <3>4, <3>5
      <4>2. done # "broken" => flush'[s] = QueuedFor(p, s)
        <5>1. c \in Range(QueuedFor(p, s)) /\ c \notin C
          BY <1>3, <3>1, <3>2, <3>5, QueuedForIs
        <5> QED BY <1>2, <3>2, <4>1, <5>1 DEF MethodDone
      <4>3. c \in Range(QueuedFor(p, s))
        BY <3>2, <3>5, QueuedForIs
      <4> QED BY <1>2, <3>2, <3>5, <4>1, <4>2, <4>3
    <3>6. CASE u # p /\ u \notin Below(C)
      BY <1>2, <3>2, <3>3, <3>6
    <3>7. CASE c \in Range(delivered[target[c]])
      BY <1>2, <3>7
    <3>8. state[u] = "broken" => u # p /\ u \notin Below(C)
      BY <1>3
    <3> QED BY <3>3, <3>4, <3>5, <3>6, <3>7, <3>8
  <2> QED BY <2>1, <2>2
<1>11. ClosedOK'
  <2>1. \A q \in Promises : state[q] = "fulfilled" => state'[q] = "fulfilled"
    BY <1>2, <1>3
  <2> QED BY <1>1, <1>2, <2>1 DEF CallsInv, ClosedOK
<1> QED BY <1>5, <1>6, <1>7, <1>8, <1>9, <1>10, <1>11 DEF CallsInv

-----------------------------------------------------------------------------
(* The flush.                                                              *)

\* The call handed over is the first that its capability was held back.
LEMMA HandOverKeepsInv ==
  ASSUME TypeOK, CallsInv, HandOver
  PROVE  CallsInv' /\ AllInOrder
<1>1. PICK s \in Slots :
        /\ flush[s] # <<>> /\ flush[s] \in Seq(Calls) /\ Head(flush[s]) \in Calls
        /\ Tail(flush[s]) \in Seq(Calls)
        /\ settling \in Promises /\ <<settling, s>> \in Clients
        /\ flush' = [flush EXCEPT ![s] = Tail(flush[s])]
        /\ delivered' = [delivered EXCEPT ![<<settling, s>>] =
                           Append(delivered[<<settling, s>>], Head(flush[s]))]
        /\ UNCHANGED <<state, target, queue, result, settling, close, reentered, late>>
  BY HandOverIs
<1>0. PICK t \in Clients, c \in Calls : t = <<settling, s>> /\ c = Head(flush[s])
  BY <1>1
<1>2. /\ t \in Clients /\ c \in Calls /\ t[1] = settling /\ t[2] = s
      /\ delivered[t] \in Seq(Calls) /\ Range(delivered[t]) \subseteq Calls
      /\ Range(flush[s]) \subseteq Calls
      /\ \A u \in Clients : u[1] \in Promises /\ u[2] \in Slots /\ u = <<u[1], u[2]>>
  BY <1>0, <1>1, Numbers, RangeIsElements DEF TypeOK
<1>3. /\ Range(flush[s]) = Range(Tail(flush[s])) \cup {c}
      /\ IsInjective(Tail(flush[s])) /\ c \notin Range(Tail(flush[s]))
  BY <1>0, <1>1, RangeOfTail DEF CallsInv, FlushOK
<1>4. /\ state[c] = "pending" /\ c \notin reentered /\ target[c] = t
      /\ \A u \in Clients : c \notin Range(delivered[u])
  BY <1>0, <1>3 DEF CallsInv, FlushOK
<1>5. c \notin Range(queue[settling]) /\ \A q \in Promises : c \notin Range(queue[q])
  <2>1. queue[settling] = <<>>
    BY <1>1, Numbers DEF CallsInv, QueuesOK, SettlingOK
  <2>2. \A q \in Promises : c \in Range(queue[q]) => q = settling
    BY <1>2, <1>4 DEF CallsInv, QueuesOK
  <2> QED BY <1>1, <2>1, <2>2, RangeOfEmpty
<1>6. /\ flush'[s] = Tail(flush[s]) /\ \A u \in Slots : u # s => flush'[u] = flush[u]
      /\ delivered'[t] = Append(delivered[t], c)
      /\ \A u \in Clients : u # t => delivered'[u] = delivered[u]
      /\ UNCHANGED <<state, target, queue, settling, close, reentered>>
  BY <1>0, <1>1 DEF TypeOK
<1>7. Range(delivered'[t]) = Range(delivered[t]) \cup {c}
  BY <1>2, <1>6, RangeOfAppend
<1>8. \A u \in Clients : \A d : d # c =>
        (d \in Range(delivered'[u]) <=> d \in Range(delivered[u]))
  BY <1>6, <1>7
<1>9. QueuesOK'
  <2>1. ASSUME NEW q \in Promises, NEW d \in Range(queue[q]), NEW u \in Clients
        PROVE  d \notin Range(delivered'[u])
    <3>1. d # c
      BY <1>5
    <3>2. d \notin Range(delivered[u])
      BY DEF CallsInv, QueuesOK
    <3> QED BY <1>8, <3>1, <3>2
  <2> QED BY <1>6, <2>1 DEF CallsInv, QueuesOK
<1>10. FlushOK'
  <2> SUFFICES ASSUME NEW u \in Slots
               PROVE  /\ IsInjective(flush'[u])
                      /\ \A d \in Range(flush'[u]) :
                           /\ state[d] = "pending" /\ d \notin reentered
                           /\ settling \in Promises /\ target[d] = <<settling, u>>
                           /\ \A v \in Clients : d \notin Range(delivered'[v])
    BY <1>6 DEF FlushOK
  <2>1. /\ IsInjective(flush'[u])
        /\ \A d \in Range(flush'[u]) : d \in Range(flush[u]) /\ d # c
    <3>1. CASE u = s
      BY <1>3, <1>6, <3>1
    <3>2. CASE u # s
      <4>1. \A d \in Range(flush[u]) : target[d] = <<settling, u>>
        BY DEF CallsInv, FlushOK
      <4>2. target[c] # <<settling, u>>
        BY <1>0, <1>4, <3>2
      <4> QED BY <1>6, <3>2, <4>1, <4>2 DEF CallsInv, FlushOK
    <3> QED BY <3>1, <3>2
  <2> QED BY <1>8, <2>1 DEF CallsInv, FlushOK
<1>11. DeliveriesOK'
  <2> SUFFICES ASSUME NEW u \in Clients, NEW d \in Range(delivered'[u])
               PROVE  state[d] # "unmade" /\ target[d] = u
    BY <1>6 DEF DeliveriesOK
  <2>1. CASE d = c
    <3>1. u = t
      BY <1>4, <1>6, <2>1
    <3> QED BY <1>4, <2>1, <3>1
  <2>2. CASE d # c
    BY <1>8, <2>2 DEF CallsInv, DeliveriesOK
  <2> QED BY <2>1, <2>2
<1>12. NoneIsLost'
  <2> SUFFICES ASSUME NEW d \in Calls, state[d] \notin {"unmade", "rejected", "refused"}
               PROVE  \/ d \in Range(delivered'[target[d]])
                      \/ d \in Range(queue[target[d][1]])
                      \/ target[d][1] = settling /\ d \in Range(flush'[target[d][2]])
                      \/ state[target[d][1]] = "broken"
    BY <1>6 DEF NoneIsLost
  <2>1. target[d] \in Clients /\ target[d][2] \in Slots
    BY <1>2 DEF CallsInv, MadeOK
  <2>2. CASE d = c
    BY <1>4, <1>7, <2>2
  <2>3. CASE d # c
    <3>1. \A u \in Slots : d \in Range(flush[u]) => d \in Range(flush'[u])
      BY <1>3, <1>6, <2>3
    <3> QED BY <1>8, <2>1, <2>3, <3>1 DEF CallsInv, NoneIsLost
  <2> QED BY <2>2, <2>3
<1>13. CallsInv'
  <2>1. MadeOK' /\ SettlingOK' /\ ClosedOK'
    BY <1>6 DEF CallsInv, MadeOK, SettlingOK, ClosedOK
  <2> QED BY <1>9, <1>10, <1>11, <1>12, <2>1 DEF CallsInv
<1>14. ASSUME NEW u \in Clients, u # t PROVE InOrder(u)
  <2>1. ToFlush(u)' = ToFlush(u)
    <3>1. u[1] = settling => u[2] # s
      BY <1>0, <1>2, <1>14
    <3> QED BY <1>2, <1>6, <3>1 DEF ToFlush
  <2>2. /\ HeldFor(u)' = HeldFor(u) /\ Usual(delivered[u])' = Usual(delivered[u])
        /\ DroppedFor(u)' = DroppedFor(u)
    BY <1>6, <1>14, <2>1 DEF HeldFor, QueuedFor, Usual, DroppedFor
  <2>3. (DroppedFor(u) \ reentered)' = DroppedFor(u) \ reentered
    BY <1>6, <2>2
  <2> QED BY <2>2, <2>3, SameView
<1>15. InOrder(t)
  <2>1. HeldFor(t) = flush[s] /\ flush[s] # <<>> /\ Head(flush[s]) = c
    BY <1>0, <1>1, <1>2, HeldIs
  <2>2. HeldFor(t)' = Tail(HeldFor(t))
    <3>1. QueuedFor(t[1], t[2])' = <<>>
      <4>1. QueuedFor(t[1], t[2]) = <<>>
        BY <1>2, HeldIs
      <4> QED BY <1>6, <4>1 DEF QueuedFor
    <3>2. ToFlush(t)' = Tail(flush[s])
      BY <1>2, <1>6 DEF ToFlush
    <3> QED BY <1>1, <2>1, <3>1, <3>2, ConcatEmptySeq DEF HeldFor
  <2>3. Usual(delivered[t])' = Append(Usual(delivered[t]), c)
    <3> DEFINE V == Calls \ reentered
    <3>1. c \in V
      BY <1>2, <1>4
    <3> HIDE DEF V
    <3>2. Only(Append(delivered[t], c), V) = Append(Only(delivered[t], V), c)
      BY <1>2, <3>1, OnlyOfAppend
    <3> QED BY <1>6, <3>2 DEF Usual, V
  <2>4. DroppedFor(t)' = DroppedFor(t)
    <3>1. c \in Range(ToFlush(t)) /\ c \notin DroppedFor(t) /\ c \notin DroppedFor(t)'
      BY <1>2, <1>3, <1>4, <1>6, <1>7 DEF DroppedFor, ToFlush
    <3>2. \A d \in Calls : d # c => (d \in Range(ToFlush(t)') <=> d \in Range(ToFlush(t)))
      BY <1>2, <1>3, <1>6 DEF ToFlush
    <3>3. \A d \in Calls : d # c => (d \in DroppedFor(t)' <=> d \in DroppedFor(t))
      BY <1>2, <1>6, <1>8, <3>2 DEF DroppedFor
    <3> QED BY <3>1, <3>3 DEF DroppedFor
  <2>5. (DroppedFor(t) \ reentered)' = DroppedFor(t) \ reentered
    BY <1>6, <2>4
  <2> QED BY <2>1, <2>2, <2>3, <2>5 DEF InOrder, Ordered!Next, Ordered!Deliver
<1> QED BY <1>13, <1>14, <1>15 DEF AllInOrder

\* Steps that move no call.
LEMMA QuietKeepsInv ==
  ASSUME TypeOK, CallsInv,
         \/ CallReturns \/ FlushEnds \/ UNCHANGED vars
         \/ \E t \in Clients : Close(t) \/ CloseRuns(t)
  PROVE  CallsInv' /\ AllInOrder
<1>1. /\ NoCall \notin Promises
      /\ \A t \in Clients : t[1] \in Promises /\ t[2] \in Slots /\ t = <<t[1], t[2]>>
      /\ Calls \subseteq Promises
  BY Numbers
<1>2. /\ UNCHANGED <<target, queue, flush, delivered, reentered>>
      /\ state' \in [Promises -> States]
      /\ \A q \in Promises :
           state'[q] = state[q] \/ (state[q] = "settling" /\ state'[q] = "fulfilled")
      /\ (settling' = settling /\ state' = state)
         \/ (settling' = NoCall /\ FlushEnds)
  <2>1. CASE FlushEnds
    <3>1. settling \in Promises
      BY <2>1 DEF FlushEnds, TypeOK
    <3> QED BY <2>1, <3>1 DEF FlushEnds, TypeOK, States
  <2>2. CASE CallReturns \/ UNCHANGED vars \/ \E t \in Clients : Close(t) \/ CloseRuns(t)
    BY <2>2 DEF CallReturns, vars, Close, CloseRuns, TypeOK
  <2> QED BY <2>1, <2>2
<1>3. \A s \in Slots : settling' # settling => flush[s] = <<>>
  BY <1>2 DEF FlushEnds
<1>4. QueuesOK'
  <2>1. ASSUME NEW q \in Promises, NEW c \in Range(queue[q]) PROVE state'[c] = "pending"
    <3>1. c \in Promises /\ state[c] = "pending"
      BY <1>1, RangeIsElements DEF CallsInv, QueuesOK, TypeOK
    <3> QED BY <1>2, <3>1
  <2>2. \A q \in Promises : queue[q] # <<>> => state'[q] \in {"pending", "rejected"}
    BY <1>2 DEF CallsInv, QueuesOK
  <2> QED BY <1>2, <2>1, <2>2 DEF CallsInv, QueuesOK
<1>5. FlushOK'
  <2>1. ASSUME NEW s \in Slots, NEW c \in Range(flush[s])
        PROVE  state'[c] = "pending" /\ settling' = settling
    <3>1. c \in Promises /\ state[c] = "pending" /\ flush[s] # <<>>
      BY <1>1, RangeIsElements, RangeOfEmpty DEF CallsInv, FlushOK, TypeOK
    <3> QED BY <1>2, <1>3, <3>1
  <2> QED BY <1>2, <2>1 DEF CallsInv, FlushOK
<1>6. DeliveriesOK' /\ MadeOK'
  <2>1. \A q \in Promises : state'[q] = "unmade" <=> state[q] = "unmade"
    BY <1>2
  <2>2. \A t \in Clients : Range(delivered[t]) \subseteq Promises
    BY <1>1, RangeIsElements DEF TypeOK
  <2> QED BY <1>1, <1>2, <2>1, <2>2 DEF CallsInv, DeliveriesOK, MadeOK
<1>7. SettlingOK'
  <2>1. CASE settling' = settling /\ state' = state
    BY <2>1 DEF CallsInv, SettlingOK
  <2>2. CASE settling' = NoCall /\ FlushEnds
    <3>1. settling \in Promises /\ state'[settling] # "settling"
      BY <2>2 DEF FlushEnds, TypeOK
    <3>2. \A q \in Promises : q # settling => state'[q] # "settling"
      BY <1>2 DEF CallsInv, SettlingOK
    <3> QED BY <2>2, <3>1, <3>2 DEF SettlingOK
  <2> QED BY <1>2, <2>1, <2>2
<1>8. NoneIsLost'
  <2> SUFFICES ASSUME NEW c \in Calls, state'[c] \notin {"unmade", "rejected", "refused"}
               PROVE  \/ c \in Range(delivered[target[c]])
                      \/ c \in Range(queue[target[c][1]])
                      \/ target[c][1] = settling' /\ c \in Range(flush[target[c][2]])
                      \/ state'[target[c][1]] = "broken"
    BY <1>2 DEF NoneIsLost
  <2>1. state[c] \notin {"unmade", "rejected", "refused"} /\ target[c] \in Clients
    BY <1>1, <1>2 DEF CallsInv, MadeOK
  <2>2. target[c][1] \in Promises /\ target[c][2] \in Slots
    BY <1>1, <2>1
  <2>3. c \in Range(flush[target[c][2]]) => settling' = settling
    BY <1>3, <2>2, RangeOfEmpty
  <2>4. state[target[c][1]] = "broken" => state'[target[c][1]] = "broken"
    BY <1>2, <2>2
  <2> QED BY <2>1, <2>3, <2>4 DEF CallsInv, NoneIsLost
<1>9. ClosedOK'
  <2> SUFFICES ASSUME NEW t \in Clients, close'[t] = "closed" PROVE state'[t[1]] = "fulfilled"
    BY DEF ClosedOK
  <2>1. state[t[1]] = "fulfilled"
    <3>1. CASE close[t] = "closed"
      BY <3>1 DEF CallsInv, ClosedOK
    <3>2. CASE close[t] # "closed"
      <4>1. PICK u \in Clients : Close(u) \/ CloseRuns(u)
        BY <3>2 DEF CallReturns, FlushEnds, vars
      <4>2. u = t /\ CloseRuns(t)
        BY <3>2, <4>1 DEF Close, CloseRuns, TypeOK
      <4> QED BY <4>2 DEF CloseRuns, TypeOK
    <3> QED BY <3>1, <3>2
  <2> QED BY <1>1, <1>2, <2>1
<1>10. ASSUME NEW t \in Clients PROVE InOrder(t)
  <2>1. ToFlush(t)' = ToFlush(t)
    BY <1>1, <1>2, <1>3 DEF ToFlush
  <2>2. HeldFor(t)' = HeldFor(t) /\ Usual(delivered[t])' = Usual(delivered[t])
    BY <1>2, <2>1 DEF HeldFor, QueuedFor, Usual
  <2>3. /\ \A c \in Calls : /\ state'[c] \in {"rejected", "refused"} <=>
                                 state[c] \in {"rejected", "refused"}
        /\ state'[t[1]] = "broken" <=> state[t[1]] = "broken"
    BY <1>1, <1>2
  <2>4. DroppedFor(t)' = DroppedFor(t)
    BY <1>2, <2>1, <2>3 DEF DroppedFor
  <2>5. (DroppedFor(t) \ reentered)' = DroppedFor(t) \ reentered
    BY <1>2, <2>4
  <2> QED BY <2>2, <2>5, SameView
<1> QED BY <1>4, <1>5, <1>6, <1>7, <1>8, <1>9, <1>10 DEF CallsInv, AllInOrder

-----------------------------------------------------------------------------
(* Every step.                                                             *)

LEMMA NextKeepsCallsInv == TypeOK /\ CallsInv /\ [Next]_vars => CallsInv' /\ AllInOrder
<1> SUFFICES ASSUME TypeOK, CallsInv, [Next]_vars PROVE CallsInv' /\ AllInOrder
  OBVIOUS
<1>1. ASSUME NEW c \in Calls, NEW t \in Clients, PipelineCall(c, t) PROVE CallsInv' /\ AllInOrder
  <2>1. \A u \in Clients : InOrder(u)
    BY <1>1, CallHere, CallElsewhere
  <2>2. CallsInv'
    BY <1>1, CallKeepsInv
  <2> QED BY <2>1, <2>2 DEF AllInOrder
<1>2. ASSUME NEW p \in Promises, MethodEnds(p) PROVE CallsInv' /\ AllInOrder
  <2>1. PICK C, done : MethodDone(p, C, done)
    BY <1>2, MethodFailsIs, MethodReturnsIs DEF MethodEnds
  <2>2. \A u \in Clients : InOrder(u)
    BY <2>1, MethodDoneHere, MethodDoneBelow, MethodDoneElsewhere
  <2>3. CallsInv'
    BY <2>1, MethodDoneKeepsInv
  <2> QED BY <2>2, <2>3 DEF AllInOrder
<1>3. CASE HandOver
  BY <1>3, HandOverKeepsInv
<1>4. CASE \/ CallReturns \/ FlushEnds \/ UNCHANGED vars
           \/ \E t \in Clients : Close(t) \/ CloseRuns(t)
  BY <1>4, QuietKeepsInv
<1> QED BY <1>1, <1>2, <1>3, <1>4 DEF Next, Flush

LEMMA InitCallsInv == Init => CallsInv
<1> SUFFICES ASSUME Init PROVE CallsInv
  OBVIOUS
<1>1. Range(<<>>) = {} /\ IsInjective(<<>>)
  BY RangeOfEmpty
<1>2. /\ <<NoCall, 0>> \notin Clients /\ NoCall \notin Promises /\ Root \notin Calls
      /\ Calls \subseteq Promises
      /\ \A t \in Clients : t[1] \in Promises
  BY Numbers DEF Root
<1>3. /\ \A q \in Promises : queue[q] = <<>> /\ state[q] \in {"pending", "unmade"}
      /\ \A c \in Calls : state[c] = "unmade" /\ target[c] = <<NoCall, 0>>
      /\ \A s \in Slots : flush[s] = <<>>
      /\ \A t \in Clients : delivered[t] = <<>> /\ close[t] = "open"
      /\ settling = NoCall /\ reentered = {}
  BY <1>2 DEF Init
<1>4. QueuesOK /\ FlushOK /\ DeliveriesOK
  BY <1>1, <1>3 DEF QueuesOK, FlushOK, DeliveriesOK
<1>5. MadeOK /\ SettlingOK /\ NoneIsLost /\ ClosedOK
  BY <1>2, <1>3 DEF MadeOK, SettlingOK, NoneIsLost, ClosedOK
<1> QED BY <1>4, <1>5 DEF CallsInv

\* A queued call waits for a promise that has not been fulfilled and is nowhere
\* else, and no call is lost but by the exception in emptyQueue (fulfiller.ts):
\* the invariant behind the theorems that follow.
THEOREM LocalPromiseCallsKept == Spec => []CallsInv
<1>1. TypeOK /\ CallsInv /\ [Next]_vars => TypeOK' /\ CallsInv'
  BY NextKeepsTypes, NextKeepsCallsInv
<1> QED BY <1>1, InitTypes, InitCallsInv, PTL DEF Spec

\* Each capability of a promise is an OrderedClient, for any number of calls,
\* slots and methods and whatever the results hold: calls made through the
\* pipeline reach it in order and once, before and after the promise is settled.
THEOREM LocalPromiseIsOrdered == Spec => OrderedDelivery
<1> DEFINE Step == \A t \in Clients : t \in Range(target') =>
                     UNCHANGED Ordered(t)!vars \/ Ordered(t)!Next
<1>1. TypeOK /\ CallsInv /\ [Next]_vars => [Step]_vars
  BY NextKeepsCallsInv DEF AllInOrder, InOrder
<1> HIDE DEF Step
<1>2. Spec => [][Step]_vars
  BY <1>1, LocalPromiseTypeCorrect, LocalPromiseCallsKept, PTL DEF Spec
<1> QED BY <1>2 DEF OrderedDelivery, Step

\* A close does not overtake the calls made before it: once a capability was
\* closed through its pipeline client, nothing is handed over to it.
THEOREM LocalPromiseCloseIsLast == Spec => NoCallAfterClose
<1> DEFINE Step == \A t \in Clients : close[t] = "closed" => delivered'[t] = delivered[t]
<1>1. ASSUME TypeOK, CallsInv, [Next]_vars, NEW t \in Clients, close[t] = "closed"
      PROVE  delivered'[t] = delivered[t]
  <2>1. state[t[1]] = "fulfilled" /\ t[1] \in Promises
    BY <1>1, Numbers DEF CallsInv, ClosedOK
  <2>2. ASSUME NEW c \in Calls, NEW u \in Clients, PipelineCall(c, u)
        PROVE  delivered'[t] = delivered[t]
    <3>1. u # t /\ (delivered' = delivered \/ delivered' = [delivered EXCEPT ![u] = Append(@, c)])
      BY <1>1, <2>2 DEF PipelineCall, QueueCall, PassCall, RefuseCall
    <3> QED BY <1>1, <3>1 DEF TypeOK
  <2>3. ASSUME HandOver PROVE delivered'[t] = delivered[t]
    <3>1. PICK s \in Slots :
            /\ settling \in Promises
            /\ delivered' = [delivered EXCEPT ![<<settling, s>>] =
                               Append(delivered[<<settling, s>>], Head(flush[s]))]
      BY <1>1, <2>3, HandOverIs
    <3>2. t # <<settling, s>>
      BY <1>1, <2>1, <3>1, Numbers DEF CallsInv, SettlingOK
    <3> QED BY <1>1, <3>1, <3>2 DEF TypeOK
  <2>4. ASSUME NEW p \in Promises, MethodEnds(p) PROVE delivered' = delivered
    BY <2>4 DEF MethodEnds, MethodFails, MethodReturns
  <2>5. ASSUME CallReturns \/ FlushEnds \/ UNCHANGED vars
               \/ \E u \in Clients : Close(u) \/ CloseRuns(u)
        PROVE  delivered' = delivered
    BY <2>5 DEF CallReturns, FlushEnds, vars, Close, CloseRuns
  <2> QED BY <1>1, <2>2, <2>3, <2>4, <2>5 DEF Next, Flush
<1>2. TypeOK /\ CallsInv /\ [Next]_vars => [Step]_vars
  BY <1>1
<1> HIDE DEF Step
<1>3. Spec => [][Step]_vars
  BY <1>2, LocalPromiseTypeCorrect, LocalPromiseCallsKept, PTL DEF Spec
<1> QED BY <1>3 DEF NoCallAfterClose, Step

=============================================================================
