------------------------------ MODULE CallQueue ------------------------------
(***************************************************************************)
(* The bounded ring buffer that holds calls back until a capability is     *)
(* known (src/rpc/call-queue.ts over src/rpc/queue.ts), with its flush     *)
(* loop.  The module has no specification of its own: QueueClient extends  *)
(* it with the guards of the owner.                                        *)
(*                                                                         *)
(* JavaScript runs one callback at a time, so the flush loop is only       *)
(* interrupted by what target.call() does synchronously: a server method   *)
(* runs up to its first await inside call() and may call, resolve or close *)
(* the client whose queue is being flushed.  inHand names the slot whose   *)
(* target.call() is on the stack; every re-entrant operation is a step     *)
(* taken while inHand is set.                                              *)
(***************************************************************************)
EXTENDS Naturals, Sequences, Functions

CONSTANTS Calls,   \* the calls the program may make, each at most once
          Cap,     \* capacity: callQueueSize (64 in the code)
          NoCall   \* the null of an empty slot

ASSUME CallQueueAssumption ==
  /\ Cap \in Nat \ {0}
  /\ NoCall \notin Calls

VARIABLES start,     \* Queue.start
          n,         \* Queue.n
          data,      \* CallQueueStorage.data
          flushing,  \* flushTo is on the stack
          inHand,    \* the slot flushTo is delivering, NoCall between slots
          delivered, \* history: the order in which target.call() received calls
          answer     \* what the caller of each call holds

queueVars == <<start, n, data, flushing, inHand, delivered, answer>>

\* unmade: not called yet; held: a Fulfiller nobody settled; bound: settled by
\* the answer of the target (joinAnswer, or the answer itself); rejected:
\* settled by rejectAll; refused: an ErrorAnswer, the call was never queued.
AnswerState == {"unmade", "held", "bound", "rejected", "refused"}

Index(k) == (start + k) % Cap

\* The queued slots, front first (CallQueue.snapshot).
Snapshot == [k \in 1..n |-> data[Index(k - 1)]]

\* The storage a CallQueue built from the slots in s starts with.
InitQueue(s) ==
  /\ start = 0
  /\ n = Len(s)
  /\ data = [i \in 0..(Cap - 1) |-> IF i < Len(s) THEN s[i + 1] ELSE NoCall]
  /\ flushing = FALSE
  /\ inHand = NoCall
  /\ delivered = <<>>
  /\ answer = [c \in Calls |-> IF c \in Range(s) THEN "held" ELSE "unmade"]

\* Code other than the flush loop has the thread.
Runnable == flushing => inHand # NoCall

Unmade(c) == answer[c] = "unmade"

\* Mutant: the full ring is written over.
PushHeldUnbounded(c) ==
  /\ data' = [data EXCEPT ![Index(n)] = c]
  /\ n' = n + 1
  /\ answer' = [answer EXCEPT ![c] = "held"]
  /\ UNCHANGED <<start, flushing, inHand, delivered>>

\* CallQueue.push: a Fulfiller for the caller, or an ErrorAnswer when full.
PushHeld(c) ==
  /\ n < Cap
  /\ data' = [data EXCEPT ![Index(n)] = c]
  /\ n' = n + 1
  /\ answer' = [answer EXCEPT ![c] = "held"]
  /\ UNCHANGED <<start, flushing, inHand, delivered>>

Refused(c) ==
  /\ answer' = [answer EXCEPT ![c] = "refused"]
  /\ UNCHANGED <<start, n, data, flushing, inHand, delivered>>

Push(c) == PushHeld(c) \/ (n >= Cap /\ Refused(c))

\* The client forwards the call without queueing it.
Forward(c) ==
  /\ delivered' = Append(delivered, c)
  /\ answer' = [answer EXCEPT ![c] = "bound"]
  /\ UNCHANGED <<start, n, data, flushing, inHand>>

\* Mutant: the loop starts at the back of the ring.
HandOverLast ==
  /\ flushing
  /\ inHand = NoCall
  /\ n > 0
  /\ inHand' = data[Index(n - 1)]
  /\ delivered' = Append(delivered, data[Index(n - 1)])
  /\ UNCHANGED <<start, n, data, flushing, answer>>

\* flushTo: the loop reads the front slot and calls the target with it ...
HandOver ==
  /\ flushing
  /\ inHand = NoCall
  /\ n > 0
  /\ inHand' = data[start]
  /\ delivered' = Append(delivered, data[start])
  /\ UNCHANGED <<start, n, data, flushing, answer>>

\* Mutant: pops without looking whether a slot is left.
CallReturnsAndPops ==
  /\ inHand # NoCall
  /\ inHand' = NoCall
  /\ answer' = [answer EXCEPT ![inHand] = IF @ = "held" THEN "bound" ELSE @]
  /\ data' = [data EXCEPT ![start] = NoCall]
  /\ start' = Index(1)
  /\ n' = n - 1
  /\ UNCHANGED <<flushing, delivered>>

\* ... joins the slot's answer to the target's, which an earlier settlement of
\* the slot wins over, and only then pops whatever is at the front.
CallReturns ==
  /\ inHand # NoCall
  /\ inHand' = NoCall
  /\ answer' = [answer EXCEPT ![inHand] = IF @ = "held" THEN "bound" ELSE @]
  /\ IF n = 0 THEN UNCHANGED <<start, n, data>>
     ELSE /\ data' = [data EXCEPT ![start] = NoCall]
          /\ start' = Index(1)
          /\ n' = n - 1
  /\ UNCHANGED <<flushing, delivered>>

FlushEnds ==
  /\ flushing
  /\ inHand = NoCall
  /\ n = 0
  /\ flushing' = FALSE
  /\ UNCHANGED <<start, n, data, inHand, delivered, answer>>

\* Mutant: the slots are dropped, their callers never told.
RejectAllSilently ==
  /\ data' = [i \in 0..(Cap - 1) |-> NoCall]
  /\ start' = Index(n)
  /\ n' = 0
  /\ UNCHANGED <<flushing, inHand, delivered, answer>>

\* rejectAll: every queued slot, one in hand included, is rejected and popped.
RejectAll ==
  /\ answer' = [c \in Calls |->
                  IF c \in Range(Snapshot) THEN "rejected" ELSE answer[c]]
  /\ data' = [i \in 0..(Cap - 1) |-> NoCall]
  /\ start' = Index(n)
  /\ n' = 0
  /\ UNCHANGED <<flushing, inHand, delivered>>

QueueTypeOK ==
  /\ start \in 0..(Cap - 1)
  /\ n \in 0..Cap
  /\ data \in [0..(Cap - 1) -> Calls \cup {NoCall}]
  /\ flushing \in BOOLEAN
  /\ inHand \in Calls \cup {NoCall}
  /\ delivered \in Seq(Calls)
  /\ answer \in [Calls -> AnswerState]

-----------------------------------------------------------------------------
(* The mapping under which an owner of the queue implements OrderedClient. *)

\* The slot in hand has been delivered although the ring still holds it.
StillWaiting ==
  IF inHand # NoCall /\ n > 0 THEN Tail(Snapshot) ELSE Snapshot

DroppedCalls ==
  {c \in Calls : answer[c] \in {"rejected", "refused"}} \ Range(delivered)
=============================================================================
