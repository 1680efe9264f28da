------------------------------- MODULE Transport -------------------------------
(***************************************************************************)
(* One end of a connection over a Node stream: NodeRpcTransport, the       *)
(* DeferredTransport it extends and the work loop of its Conn              *)
(* (src/node/index.ts, src/rpc/transport/deferred-transport.ts,            *)
(* Conn.work in src/rpc/conn.ts).                                          *)
(*                                                                         *)
(* The stream, with the peer behind it, is the environment: it splits and  *)
(* joins what the peer wrote, takes what is written to it when it likes,   *)
(* and may end or fail.  Bytes are counted in units; a frame's first unit  *)
(* is enough to see its segment count.  Promise continuations run before   *)
(* the next event of the stream, application code may run between any two. *)
(***************************************************************************)
EXTENDS Integers, Sequences, SequencesExt, Sums

CONSTANTS NIn,        \* frames the peer sends
          NOut,       \* messages this end sends
          MaxLen,     \* units of a frame or message
          MaxQueued,  \* maxQueuedBytes (16 MiB in the code)
          HighWater,  \* the stream's writableHighWaterMark
          Kinds       \* kinds of frames the peer sends: see below

\* good; bad: a frame whose root cannot be read; garbage: a segment count above
\* MAX_SEGMENT_COUNT.
ASSUME TransportAssumption ==
  /\ NIn \in Nat /\ NOut \in Nat /\ MaxLen \in Nat /\ MaxQueued \in Nat
  /\ HighWater \in Nat \ {0} /\ Kinds \subseteq {"good", "bad", "garbage"}

VARIABLES
  \* inbound
  frames,    \* what the peer sends: sequence of [kind, len]
  arrived,   \* units that have arrived
  decoded,   \* frames the decoder has returned
  received,  \* DeferredTransport.queue
  loop,      \* the work loop: see Loops
  inHand,    \* the frame it was given, 0 if none
  handled,   \* the frames it has handled
  \* outbound
  accepted,  \* lengths of the messages sendMessage took
  refused,   \* the number it threw for
  writeQueue, queuedBytes, waitingForDrain,
  buffered,  \* what the stream has taken and not sent
  sent,      \* and what it has sent
  \* both
  closed,    \* DeferredTransport.closed
  closeError,\* whether it was closed with an error
  working    \* Conn.working, cleared by shutdown()

inVars == <<frames, arrived, decoded, received, loop, inHand, handled>>
outVars == <<accepted, refused, writeQueue, queuedBytes, waitingForDrain, buffered, sent>>
vars == <<inVars, outVars, closed, closeError, working>>

\* ready: about to call recvMessage; waiting: its promise is pending; given: it
\* is resolved; handling: in handleMessage; ended: work() has returned or thrown.
Loops == {"ready", "waiting", "given", "handling", "ended"}

Frames == [kind : Kinds, len : 1..MaxLen]

Init ==
  /\ frames \in [1..NIn -> Frames]
  /\ arrived = 0 /\ decoded = 0 /\ received = <<>>
  /\ loop = "ready" /\ inHand = 0 /\ handled = <<>>
  /\ accepted = <<>> /\ refused = 0
  /\ writeQueue = <<>> /\ queuedBytes = 0 /\ waitingForDrain = FALSE
  /\ buffered = <<>> /\ sent = <<>>
  /\ closed = FALSE /\ closeError = FALSE /\ working = TRUE

\* Where frame n ends in the stream of units.
End(n) == SumOf([k \in 1..n |-> frames[k].len])

-----------------------------------------------------------------------------
(* Closing.                                                                *)

\* Mutant: close leaves the received messages to be read.
ShutKeepingReceived(error) ==
  /\ closed' = TRUE /\ closeError' = error
  /\ writeQueue' = <<>> /\ queuedBytes' = 0 /\ waitingForDrain' = FALSE
  /\ buffered' = <<>>
  /\ UNCHANGED received
  /\ loop' = loop

\* fail and close, on a transport that is open: what waits to be written and
\* what waits to be read is dropped, the stream destroyed, and a pending
\* recvMessage rejected, which ends the work loop.
Shut(error) ==
  /\ closed' = TRUE /\ closeError' = error
  /\ writeQueue' = <<>> /\ queuedBytes' = 0 /\ waitingForDrain' = FALSE
  /\ buffered' = <<>>
  /\ received' = <<>>
  /\ loop' = IF loop = "waiting" THEN "ended" ELSE loop

Event == loop \in {"waiting", "ended"} /\ ~closed

\* onError, onEnd, onClose and onAbort.
StreamFails ==
  /\ Event
  /\ Shut(TRUE)
  /\ UNCHANGED <<frames, arrived, decoded, inHand, handled, accepted, refused, sent, working>>

\* Conn.shutdown, by the application, by a handler or for an Abort.  If it comes
\* between the arrival of a message and the continuation of work(), the message
\* is handled all the same.
Shutdown ==
  /\ working
  /\ working' = FALSE
  /\ IF closed THEN UNCHANGED <<closed, closeError, writeQueue, queuedBytes,
                                waitingForDrain, buffered, received, loop>>
               ELSE Shut(FALSE)
  /\ UNCHANGED <<frames, arrived, decoded, inHand, handled, accepted, refused, sent>>

-----------------------------------------------------------------------------
(* Inbound.                                                                *)

\* The last frame the decoder can return when u units have arrived, and whether
\* it throws on what follows.
Decodable(u) ==
  CHOOSE n \in 0..NIn :
    /\ End(n) <= u /\ \A k \in 1..n : frames[k].kind # "garbage"
    /\ n < NIn => End(n + 1) > u \/ frames[n + 1].kind = "garbage"

Throws(u) ==
  LET n == Decodable(u) IN n < NIn /\ End(n) < u /\ frames[n + 1].kind = "garbage"

\* Mutant: a frame overtakes those in the queue.
ResolveFirst(state, f) ==
  IF state.loop = "waiting" THEN [state EXCEPT !.loop = "given", !.inHand = f]
                            ELSE [state EXCEPT !.received = <<f>> \o @]

\* resolve: a frame goes to the pending recvMessage or to the queue; one that
\* cannot be read rejects the pending recvMessage or is dropped.
Resolve(state, f) ==
  IF state.loop = "waiting"
  THEN IF frames[f].kind = "good" THEN [state EXCEPT !.loop = "given", !.inHand = f]
                                  ELSE [state EXCEPT !.loop = "ended"]
  ELSE IF frames[f].kind = "good" THEN [state EXCEPT !.received = Append(@, f)]
                                  ELSE state

\* resolve is called for each frame from decoded + 1 to n.
Resolved(n) ==
  LET after[k \in decoded..n] ==
        IF k = decoded THEN [loop |-> loop, inHand |-> inHand, received |-> received]
                       ELSE Resolve(after[k - 1], k)
  IN  after[n]

\* onData: a chunk of k units.  If the decoder throws, the frames it has
\* already found in this chunk are lost.
OnData(k) ==
  /\ Event
  /\ arrived + k <= End(NIn)
  /\ arrived' = arrived + k
  /\ IF Throws(arrived + k)
     THEN /\ Shut(TRUE)
          /\ UNCHANGED <<decoded, inHand>>
     ELSE LET n == Decodable(arrived + k)
              after == Resolved(n)
          IN  /\ decoded' = n
              /\ loop' = after.loop /\ inHand' = after.inHand /\ received' = after.received
              /\ UNCHANGED <<closed, closeError, writeQueue, queuedBytes, waitingForDrain,
                             buffered>>
  /\ UNCHANGED <<frames, handled, accepted, refused, sent, working>>

\* recvMessage, and what the work loop does with a rejection.
Recv ==
  /\ loop = "ready"
  /\ \/ /\ closed
        /\ loop' = "ended"
        /\ UNCHANGED <<received, inHand>>
     \/ /\ ~closed /\ received # <<>>
        /\ loop' = "given" /\ inHand' = Head(received) /\ received' = Tail(received)
     \/ /\ ~closed /\ received = <<>>
        /\ loop' = "waiting"
        /\ UNCHANGED <<received, inHand>>
  /\ UNCHANGED <<frames, arrived, decoded, handled, outVars, closed, closeError, working>>

\* The work loop calls handleMessage: messages are sent and the connection is
\* shut down by the actions below while the handler runs.
Handle ==
  /\ loop = "given"
  /\ loop' = "handling"
  /\ handled' = Append(handled, inHand)
  /\ inHand' = 0
  /\ UNCHANGED <<frames, arrived, decoded, received, outVars, closed, closeError, working>>

HandlerReturns ==
  /\ loop = "handling"
  /\ loop' = IF working THEN "ready" ELSE "ended"
  /\ UNCHANGED <<frames, arrived, decoded, received, inHand, handled, outVars, closed,
                 closeError, working>>

-----------------------------------------------------------------------------
(* Outbound.                                                               *)

Least(a, b) == IF a < b THEN a ELSE b

\* Mutant: queued chunks are written although the stream has asked to wait.
FlushIgnoringDrain(queue) ==
  /\ buffered' = buffered \o queue
  /\ writeQueue' = <<>> /\ queuedBytes' = 0
  /\ waitingForDrain' = FALSE

\* Mutant: the chunk for which write() returned false is kept to be written again.
FlushRewriting(queue) ==
  LET n == Least(Len(queue), HighWater - Len(buffered))
  IN  IF waitingForDrain THEN /\ writeQueue' = queue /\ queuedBytes' = Len(queue)
                              /\ UNCHANGED <<buffered, waitingForDrain>>
      ELSE /\ buffered' = buffered \o SubSeq(queue, 1, n)
           /\ writeQueue' = SubSeq(queue, n, Len(queue))
           /\ queuedBytes' = Len(queue) - n
           /\ waitingForDrain' = (Len(buffered') >= HighWater)

\* flushWrites: chunks are written until write() returns false.
Flush(queue) ==
  LET n == Least(Len(queue), HighWater - Len(buffered))
  IN  IF waitingForDrain THEN /\ writeQueue' = queue /\ queuedBytes' = Len(queue)
                              /\ UNCHANGED <<buffered, waitingForDrain>>
      ELSE /\ buffered' = buffered \o SubSeq(queue, 1, n)
           /\ writeQueue' = SubSeq(queue, n + 1, Len(queue))
           /\ queuedBytes' = Len(queue) - n
           /\ waitingForDrain' = (Len(buffered') >= HighWater)

Chunks(m, len) == [k \in 1..len |-> <<m, k>>]

Offered == Len(accepted) + refused

\* sendMessage and enqueueWrite: over the limit the transport fails.
SendMessage(len) ==
  /\ Offered < NOut
  /\ \/ /\ closed \/ queuedBytes + len > MaxQueued
        /\ refused' = refused + 1
        /\ IF closed THEN UNCHANGED <<closed, closeError, writeQueue, queuedBytes,
                                      waitingForDrain, buffered, received, loop>>
                     ELSE Shut(TRUE)
        /\ UNCHANGED accepted
     \/ /\ ~closed /\ queuedBytes + len <= MaxQueued
        /\ accepted' = Append(accepted, len)
        /\ Flush(writeQueue \o Chunks(Len(accepted) + 1, len))
        /\ UNCHANGED <<refused, closed, closeError, received, loop>>
  /\ UNCHANGED <<frames, arrived, decoded, inHand, handled, sent, working>>

\* The stream sends what it has taken.
StreamSends ==
  /\ buffered # <<>>
  /\ sent' = Append(sent, Head(buffered)) /\ buffered' = Tail(buffered)
  /\ UNCHANGED <<inVars, accepted, refused, writeQueue, queuedBytes, waitingForDrain,
                 closed, closeError, working>>

\* Mutant: the queue is left to the next sendMessage.
OnDrainNotFlushing ==
  /\ Event
  /\ waitingForDrain /\ buffered = <<>>
  /\ waitingForDrain' = FALSE
  /\ UNCHANGED <<inVars, accepted, refused, writeQueue, queuedBytes, buffered, sent,
                 closed, closeError, working>>

\* onDrain.
OnDrain ==
  /\ Event
  /\ waitingForDrain /\ buffered = <<>>
  /\ LET n == Least(Len(writeQueue), HighWater)
     IN  /\ buffered' = SubSeq(writeQueue, 1, n)
         /\ writeQueue' = SubSeq(writeQueue, n + 1, Len(writeQueue))
         /\ queuedBytes' = queuedBytes - n
         /\ waitingForDrain' = (n = HighWater)
  /\ UNCHANGED <<inVars, accepted, refused, sent, closed, closeError, working>>

-----------------------------------------------------------------------------

LoopStep == Recv \/ Handle \/ HandlerReturns
StreamStep == StreamSends \/ OnDrain

Next ==
  \/ LoopStep
  \/ StreamStep
  \/ \E k \in 1..(MaxLen * NIn) : OnData(k)
  \/ \E len \in 1..MaxLen : SendMessage(len)
  \/ StreamFails
  \/ Shutdown

\* The work loop and the stream run; the peer, the application and failures are
\* not obliged to act.
Spec == Init /\ [][Next]_vars /\ WF_vars(LoopStep) /\ WF_vars(StreamSends) /\ WF_vars(OnDrain)

-----------------------------------------------------------------------------

\* The write queue is accounted for and bounded, empty once the transport is
\* closed, and while it holds anything a drain event is due that will take it
\* up again (enqueueWrite, flushWrites, onDrain, cleanup).
WriteQueueOK ==
  /\ queuedBytes = Len(writeQueue) /\ queuedBytes <= MaxQueued
  /\ closed => writeQueue = <<>>
  /\ writeQueue # <<>> => waitingForDrain
  /\ Len(buffered) <= HighWater

AcceptedChunks ==
  FlattenSeq([m \in 1..Len(accepted) |-> Chunks(m, accepted[m])])

\* The peer gets the chunks of accepted messages whole and in order, with
\* nothing between them, whatever the backpressure; while the transport is open
\* none is missing (messageToBufferChunks, flushWrites).
StreamIsWhole ==
  LET out == sent \o buffered \o writeQueue
  IN  /\ IsPrefix(out, AcceptedChunks)
      /\ ~closed => out = AcceptedChunks

\* The frames up to n that can be read.
Good(n) == {k \in 1..n : frames[k].kind = "good"}

Increasing(s) == \A j, k \in DOMAIN s : j < k => s[j] < s[k]

\* Messages are handled in the order the peer sent them, with none left out in
\* between except those that cannot be read, however the stream cuts them
\* (CapnpFrameDecoder.push, DeferredTransport.resolve and recvMessage).
HandledInOrder ==
  /\ Increasing(handled)
  /\ \E n \in 0..NIn : Range(handled) = Good(n)

\* A message that was accepted leaves, unless the transport is closed.
AcceptedIsSent == <>[](closed \/ Len(sent) = Len(AcceptedChunks))

\* Every message the decoder has returned is handled, and a closed transport
\* ends the work loop; only a frame that cannot be read ends it before.
EveryFrameIsHandled ==
  <>[](\/ loop = "ended"
       \/ ~closed /\ Range(handled) = Good(decoded))
=============================================================================
