----------------------------- MODULE LocalPromise -----------------------------
(***************************************************************************)
(* Promises of calls inside one vat: Fulfiller, EmbargoClient, the         *)
(* pipeline clients made on them (src/rpc/fulfiller/, pipeline-client.ts)  *)
(* and the server methods that settle them (src/rpc/server.ts).            *)
(*                                                                         *)
(* Root is a call whose method runs from the start.  Every other call is   *)
(* made through a pipeline client, that is on a promise and on one of the  *)
(* capabilities its results will hold, and is a promise itself.  A call    *)
(* that was queued is answered by joinAnswer when its method is, which is  *)
(* the moment the model takes for the end of the method.                   *)
(***************************************************************************)
EXTENDS Naturals, FiniteSets, SequencesExt, Subsequences

CONSTANTS NCalls,    \* calls made through pipelines, numbered as they are made
          MaxCloses, \* pipeline clients the application closes
          NSlots,    \* capabilities in the results of a method are 1..NSlots
          QueueSize, \* callQueueSize (64 in the code)
          Results    \* what a method may put into a slot: see SlotValues

Calls == 1..NCalls
Root == 0                     \* the first call
NoCall == NCalls + 1          \* no call, no promise
Promises == Calls \cup {Root}
Slots == 1..NSlots
Clients == Promises \X Slots

\* cap: a live capability; null: a null pointer; none: a pointer to an empty
\* entry of the capability table, as a descriptor of kind "none" leaves it.
SlotValues == {"cap", "null", "none"}

ASSUME LocalPromiseAssumption ==
  /\ NCalls \in Nat /\ MaxCloses \in Nat /\ NSlots \in Nat /\ QueueSize \in Nat
  /\ Results \subseteq SlotValues

VARIABLES
  state,     \* of each promise: see States
  target,    \* the client <<promise, slot>> a call was made on
  queue,     \* Fulfiller.queue: pipelined calls held back by a promise
  result,    \* what the results of a promise hold in each slot
  settling,  \* the promise whose tryFulfill is on the stack, or NoCall
  flush,     \* what the EmbargoClient of each slot still has to flush
  inHand,    \* the calls whose method runs before its first await, or NoCall
  delivered, \* history: calls each capability received, in order
  close,     \* of each client: open, asked (pipelineClose ran), closed or void
  reentered, \* history: calls made on a promise from inside its flush
  late       \* history: calls made on a rejected promise, or on one of these

vars == <<state, target, queue, result, settling, flush, inHand, delivered,
          close, reentered, late>>

\* settling: the answer is set and its calls are being flushed; broken: the
\* answer is set and the promise never will be; refused: an ErrorAnswer.
States == {"unmade", "pending", "settling", "broken", "fulfilled", "rejected",
           "refused"}
Settled == {"fulfilled", "rejected", "refused"}

Init ==
  /\ state = [p \in Promises |-> IF p = Root THEN "pending" ELSE "unmade"]
  /\ target = [c \in Calls |-> <<NoCall, 0>>]
  /\ queue = [p \in Promises |-> <<>>]
  /\ result = [p \in Promises |-> [s \in Slots |-> "null"]]
  /\ settling = NoCall
  /\ flush = [s \in Slots |-> <<>>]
  /\ inHand = NoCall
  /\ delivered = [t \in Clients |-> <<>>]
  /\ close = [t \in Clients |-> "open"]
  /\ reentered = {}
  /\ late = {}

\* The method of promise p was called and has not ended.
Running(p) ==
  /\ state[p] = "pending"
  /\ p = Root \/ \E t \in Clients : p \in Range(delivered[t])

\* The thread is free, or a method called from the flush has it.
Runnable == settling = NoCall \/ inHand # NoCall

-----------------------------------------------------------------------------
(* Calls on a promise.                                                     *)

\* c is the next call to be made.
Unmade(c) == \A d \in Calls : state[d] = "unmade" <=> d >= c

Answered(c, how) == state' = [state EXCEPT ![c] = how]

\* Mutant: the queue has no limit.
QueueCallUnbounded(c, p) ==
  /\ queue' = [queue EXCEPT ![p] = Append(@, c)]
  /\ Answered(c, "pending")
  /\ late' = IF state[p] = "rejected" \/ p \in late THEN late \cup {c} ELSE late
  /\ UNCHANGED delivered

\* Fulfiller.pipelineCall before there is an answer, which after a rejection
\* is for ever: the call is queued, or refused by a full queue.
QueueCall(c, p) ==
  /\ IF Len(queue[p]) = QueueSize
     THEN Answered(c, "refused") /\ UNCHANGED queue
     ELSE /\ queue' = [queue EXCEPT ![p] = Append(@, c)]
          /\ Answered(c, "pending")
  /\ late' = IF state[p] = "rejected" \/ p \in late THEN late \cup {c} ELSE late
  /\ UNCHANGED delivered

\* ImmediateAnswer.pipelineCall: straight to the client in the results, an
\* ErrorClient for anything but a capability.
PassCall(c, t) ==
  /\ IF result[t[1]][t[2]] = "cap"
     THEN /\ delivered' = [delivered EXCEPT ![t] = Append(@, c)]
          /\ Answered(c, "pending")
     ELSE Answered(c, "refused") /\ UNCHANGED delivered
  /\ UNCHANGED <<queue, late>>

\* ErrorAnswer.pipelineCall.
RefuseCall(c) == Answered(c, "refused") /\ UNCHANGED <<queue, late, delivered>>

\* PipelineClient.call.  The application calls no client it has closed.
PipelineCall(c, t) ==
  /\ Runnable
  /\ Unmade(c) /\ state[t[1]] # "unmade"
  /\ close[t] = "open"
  /\ target' = [target EXCEPT ![c] = t]
  /\ \/ state[t[1]] \in {"pending", "rejected"} /\ QueueCall(c, t[1])
     \/ state[t[1]] \in {"settling", "broken", "fulfilled"} /\ PassCall(c, t)
     \/ state[t[1]] = "refused" /\ RefuseCall(c)
  /\ reentered' = IF t[1] = settling THEN reentered \cup {c} ELSE reentered
  /\ UNCHANGED <<result, settling, flush, inHand, close>>

-----------------------------------------------------------------------------
(* Settling a promise.                                                     *)

\* The promises in C, the calls queued on them, on those calls, and so on.
Below(C) ==
  LET closed == {S \in SUBSET Promises : C \subseteq S /\ \A q \in S : Range(queue[q]) \subseteq S}
  IN  {q \in Promises : \A S \in closed : q \in S}

\* Mutant: the calls queued on a rejected call are left to themselves.
RejectOnly(C) ==
  /\ state' = [q \in Promises |-> IF q \in C THEN "rejected" ELSE state[q]]
  /\ queue' = [q \in Promises |-> IF q \in C THEN <<>> ELSE queue[q]]

\* tryReject of the promises in C: what is queued on them is rejected too.
Reject(C) ==
  LET all == Below(C)
  IN  /\ state' = [q \in Promises |-> IF q \in all THEN "rejected" ELSE state[q]]
      /\ queue' = [q \in Promises |-> IF q \in all THEN <<>> ELSE queue[q]]

\* Server.startCall: the method throws.
MethodFails(p) ==
  /\ settling = NoCall
  /\ Running(p)
  /\ Reject({p})
  /\ UNCHANGED <<target, result, settling, flush, inHand, delivered, close,
                 reentered, late>>

QueuedFor(p, s) == Only(queue[p], {c \in Calls : target[c] = <<p, s>>})

\* Mutant: each queue is flushed from its end.
EmbargoedBackwards(p, r) ==
  [s \in Slots |-> IF r[s] = "cap" THEN Reverse(QueuedFor(p, s)) ELSE <<>>]

\* Slots with an empty table entry that calls are queued for.
Empty(p, r) == {s \in Slots : r[s] = "none" /\ QueuedFor(p, s) # <<>>}

\* The queues emptyQueue makes, which are flushed in the order of their slots;
\* an empty entry of the capability table ends the loop with an exception.
Embargoed(p, r) ==
  [s \in Slots |->
    IF r[s] = "cap" /\ \A e \in Empty(p, r) : s < e THEN QueuedFor(p, s) ELSE <<>>]

\* Fulfiller.tryFulfill(p) with results r: the answer is set, calls on null
\* slots are rejected and the others go to the EmbargoClients.
MethodReturns(p, r) ==
  /\ settling = NoCall
  /\ Running(p)
  /\ LET all == Below({c \in Range(queue[p]) : r[target[c][2]] = "null"})
         settled == IF Empty(p, r) = {} THEN "settling" ELSE "broken"
     IN  /\ state' = [q \in Promises |-> IF q = p THEN settled
                                         ELSE IF q \in all THEN "rejected"
                                         ELSE state[q]]
         /\ queue' = [q \in Promises |-> IF q = p \/ q \in all THEN <<>> ELSE queue[q]]
  /\ result' = [result EXCEPT ![p] = r]
  /\ settling' = p
  /\ flush' = Embargoed(p, r)
  /\ UNCHANGED <<target, inHand, delivered, close, reentered, late>>

\* CallQueue.flushTo in the constructor of an EmbargoClient: the next call is
\* handed to its capability, whose method runs to its first await ...
HandOver ==
  /\ settling # NoCall /\ inHand = NoCall
  /\ \E s \in Slots :
       /\ flush[s] # <<>> /\ \A u \in Slots : u < s => flush[u] = <<>>
       /\ inHand' = Head(flush[s])
       /\ flush' = [flush EXCEPT ![s] = Tail(@)]
       /\ delivered' = [delivered EXCEPT ![<<settling, s>>] = Append(@, Head(flush[s]))]
  /\ UNCHANGED <<state, target, queue, result, settling, close, reentered, late>>

\* ... and gives the thread back to the loop.
CallReturns ==
  /\ inHand # NoCall
  /\ inHand' = NoCall
  /\ UNCHANGED <<state, target, queue, result, settling, flush, delivered, close,
                 reentered, late>>

\* The end of tryFulfill: the promise is resolved.
FlushEnds ==
  /\ settling # NoCall /\ inHand = NoCall /\ \A s \in Slots : flush[s] = <<>>
  /\ state' = [state EXCEPT ![settling] = IF @ = "settling" THEN "fulfilled" ELSE @]
  /\ settling' = NoCall
  /\ UNCHANGED <<target, queue, result, flush, inHand, delivered, close, reentered,
                 late>>

-----------------------------------------------------------------------------
(* Closing a pipeline client.                                              *)

\* PipelineClient.close, Fulfiller.pipelineClose: waits for the promise.
Close(t) ==
  /\ Runnable
  /\ state[t[1]] \in States \ {"unmade", "refused"}
  /\ close[t] = "open"
  /\ Cardinality({u \in Clients : close[u] # "open"}) < MaxCloses
  /\ close' = [close EXCEPT ![t] = "asked"]
  /\ UNCHANGED <<state, target, queue, result, settling, flush, inHand, delivered,
                 reentered, late>>

\* Mutant: the close acts as soon as the answer is set.
CloseRunsEarly(t) ==
  /\ close[t] = "asked"
  /\ state[t[1]] \in {"settling", "fulfilled", "rejected"}
  /\ close' = [close EXCEPT ![t] =
       IF state[t[1]] # "rejected" /\ result[t[1]][t[2]] = "cap" THEN "closed" ELSE "void"]
  /\ UNCHANGED <<state, target, queue, result, settling, flush, inHand, delivered,
                 reentered, late>>

\* onFinally: if the promise was fulfilled, the client in its results is closed.
CloseRuns(t) ==
  /\ settling = NoCall
  /\ close[t] = "asked"
  /\ state[t[1]] \in {"fulfilled", "rejected"}
  /\ close' = [close EXCEPT ![t] =
       IF state[t[1]] = "fulfilled" /\ result[t[1]][t[2]] = "cap" THEN "closed" ELSE "void"]
  /\ UNCHANGED <<state, target, queue, result, settling, flush, inHand, delivered,
                 reentered, late>>

Flush == HandOver \/ CallReturns \/ FlushEnds

MethodEnds(p) == MethodFails(p) \/ \E r \in [Slots -> Results] : MethodReturns(p, r)

Next ==
  \/ \E c \in Calls, t \in Clients : PipelineCall(c, t)
  \/ \E p \in Promises : MethodEnds(p)
  \/ Flush
  \/ \E t \in Clients : Close(t) \/ CloseRuns(t)

\* The flush is synchronous and methods end; nobody has to call or close.
Fairness ==
  /\ WF_vars(Flush)
  /\ \A p \in Promises : WF_vars(MethodEnds(p))

Spec == Init /\ [][Next]_vars /\ Fairness

-----------------------------------------------------------------------------

TypeOK ==
  /\ state \in [Promises -> States]
  /\ target \in [Calls -> Clients \cup {<<NoCall, 0>>}]
  /\ DOMAIN queue = Promises
  /\ \A p \in Promises : queue[p] \in Seq(Calls) /\ Len(queue[p]) <= QueueSize
  /\ result \in [Promises -> [Slots -> SlotValues]]
  /\ settling \in Promises \cup {NoCall} /\ inHand \in Calls \cup {NoCall}
  /\ DOMAIN flush = Slots /\ \A s \in Slots : flush[s] \in Seq(Calls)
  /\ DOMAIN delivered = Clients /\ \A t \in Clients : delivered[t] \in Seq(Calls)
  /\ close \in [Clients -> {"open", "asked", "closed", "void"}]
  /\ reentered \subseteq Calls /\ late \subseteq Calls

Usual(calls) == Only(calls, Calls \ reentered)

\* What the EmbargoClient of t still holds.
ToFlush(t) == IF t[1] = settling THEN flush[t[2]] ELSE <<>>

HeldFor(t) == QueuedFor(t[1], t[2]) \o ToFlush(t)

\* Refused and rejected calls, and those that an exception in tryFulfill left
\* behind: in no queue, and delivered nowhere.
DroppedFor(t) ==
  {c \in Calls :
     /\ target[c] = t /\ c \notin Range(delivered[t])
     /\ \/ state[c] \in {"rejected", "refused"}
        \/ state[t[1]] = "broken" /\ c \notin Range(ToFlush(t))}

Ordered(t) == INSTANCE OrderedClient WITH waiting <- HeldFor(t),
                                          delivered <- Usual(delivered[t]),
                                          dropped <- DroppedFor(t) \ reentered

\* Calls made on one capability of a promise reach it in the order they were
\* made, each once, before and after the promise is fulfilled; only a call
\* made from inside the flush (ImmediateAnswer answers it already) may overtake
\* calls that are still queued (Client.call in src/rpc/client.ts).
OrderedDelivery ==
  [][\A t \in Clients : t \in Range(target') =>
        UNCHANGED Ordered(t)!vars \/ Ordered(t)!Next]_vars

\* Whatever promise a call was queued on, and however far down, it is answered
\* once the methods have ended, unless it was made on a promise that had been
\* rejected before (tryReject and emptyQueue of Fulfiller).
EveryCallSettles ==
  <>[](\A c \in Calls : state[c] = "pending" => c \in late)

\* "Calls to the fulfiller will queue up until it is resolved" (fulfiller.ts:30):
\* nothing is queued on a fulfiller that was rejected.
ResolvedHoldsNoCalls ==
  \A p \in Promises : state[p] \in Settled => queue[p] = <<>>

\* pipelineClose does not overtake the calls made before it: a capability that
\* is closed receives no further call (Client.close in src/rpc/client.ts).
NoCallAfterClose ==
  [][\A t \in Clients : close[t] = "closed" => delivered'[t] = delivered[t]]_vars
=============================================================================
