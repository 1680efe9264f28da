----------------------------- MODULE QueueClient -----------------------------
(***************************************************************************)
(* QueueClient (src/rpc/queue-client.ts): the capability that              *)
(* AnswerEntry.fulfill() installs in the result's capability table when    *)
(* calls were pipelined on the answer before it was known.  It starts with *)
(* those calls queued, is flushed once in the same synchronous block, and  *)
(* lets calls pass straight through whenever its queue is empty.           *)
(***************************************************************************)
EXTENDS CallQueue

VARIABLES flushed,  \* flushQueue() has been called
          closed    \* close() has been called

vars == <<start, n, data, flushing, inHand, delivered, answer, flushed, closed>>

\* The calls an AnswerEntry hands over: at least one, each once, at most Cap.
HandedOver == {s \in UNION {[1..m -> Calls] : m \in 1..Cap} : IsInjective(s)}

Init ==
  /\ \E s \in HandedOver : InitQueue(s)
  /\ flushed = FALSE
  /\ closed = FALSE

\* Mutant: calls pass as soon as the flush has begun.
isPassthroughOnceFlushed == flushed

isPassthrough == n = 0

\* call(): by the application, or re-entrantly by the target of a call.
Call(c) ==
  /\ Runnable
  /\ ~closed        \* Client.close: no further calls after close
  /\ Unmade(c)
  /\ IF isPassthrough THEN Forward(c) ELSE Push(c)
  /\ UNCHANGED <<flushed, closed>>

flushQueue ==
  /\ ~flushed
  /\ flushed' = TRUE
  /\ flushing' = TRUE
  /\ UNCHANGED <<start, n, data, inHand, delivered, answer, closed>>

close ==
  /\ Runnable
  /\ ~closed
  /\ closed' = TRUE
  /\ RejectAll
  /\ UNCHANGED flushed

FlushStep ==
  /\ HandOver \/ CallReturns \/ FlushEnds
  /\ UNCHANGED <<flushed, closed>>

Next ==
  \/ \E c \in Calls : Call(c)
  \/ flushQueue
  \/ close
  \/ FlushStep

\* flushQueue() follows the constructor in the same synchronous block, the
\* flush loop runs to its end, and the synchronous part of target.call() ends.
Fairness == WF_vars(flushQueue) /\ WF_vars(FlushStep)

Spec == Init /\ [][Next]_vars /\ Fairness

-----------------------------------------------------------------------------

TypeOK ==
  /\ QueueTypeOK
  /\ flushed \in BOOLEAN
  /\ closed \in BOOLEAN

\* The ring, the answers and the history agree: the slots in use hold distinct
\* calls whose callers still wait, a call leaves the ring when it is delivered
\* (the slot in hand a moment later), and only close() empties the ring under
\* a flush (CallQueue.push, flushTo and rejectAll).
RingOK ==
  /\ Snapshot \in Seq(Calls)
  /\ IsInjective(Snapshot)
  /\ \A c \in Range(Snapshot) : answer[c] = "held"
  /\ \A c \in Range(delivered) : answer[c] # "unmade"
  /\ Range(StillWaiting) \cap Range(delivered) = {}
  /\ inHand # NoCall =>
       /\ flushing
       /\ inHand \in Range(delivered)
       /\ IF n > 0 THEN data[start] = inHand ELSE closed
  /\ closed => n = 0

\* Calls reach the capability in the order they were made, each at most once,
\* none after it was refused or cancelled: the promise of Client.call
\* (src/rpc/client.ts), kept by QueueClient whatever the target does while
\* flushQueue() delivers to it.
Ordered == INSTANCE OrderedClient WITH waiting <- StillWaiting,
                                       dropped <- DroppedCalls
OrderedDelivery == Ordered!Spec

\* No caller waits for ever: a call that was queued is delivered and bound to
\* the target's answer, or rejected (flushTo and rejectAll empty the ring).
EveryHeldCallIsSettled ==
  \A c \in Calls : answer[c] = "held" ~> answer[c] \in {"bound", "rejected"}
=============================================================================
