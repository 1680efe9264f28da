------------------------------- MODULE RpcCalls -------------------------------
(***************************************************************************)
(* The life of calls on one connection: the question table of the vat that *)
(* calls, the answer table of the vat that is called, and the two ordered  *)
(* message streams between them (src/rpc/conn.ts, question.ts, answer.ts,  *)
(* idgen.ts).  A Conn plays both roles; the two directions share no table  *)
(* entry of those modelled here, so one direction is modelled.             *)
(*                                                                         *)
(* A call is a member of Calls.  It stands for the Question object at the  *)
(* caller, the AnswerEntry object at the callee and the payload of the     *)
(* messages, so that a result which reaches the wrong question shows as    *)
(* one.  The wire carries ids only.  Every call but a bootstrap request is *)
(* made through the promise of an earlier call: pipelined on the question  *)
(* while it is in the table, sent to the imported capability afterwards.   *)
(* Every successful result carries that capability; its reference counts   *)
(* are the subject of another module (see README).                         *)
(*                                                                         *)
(* Methods run asynchronously at the callee, in any order, and end in      *)
(* success or failure.  The transport is reliable and ordered.             *)
(***************************************************************************)
EXTENDS Integers, Sequences, FiniteSets, Functions

CONSTANTS
  Calls,     \* the calls the program may make, each at most once
  None,      \* no call: a null table slot
  MaxId,     \* bound: question ids are 0..MaxId
  QueueCap,  \* calls an unfinished answer queues: callQueueSize (64)
  MayCancel, \* the application may cancel and close unfinished questions
  MayReenter,\* a capability disposed of while a Return is handled may call out
  MayMismatch\* the callee may lack the interface or method of a call

ASSUME RpcCallsAssumption ==
  /\ None \notin Calls
  /\ MaxId \in Nat
  /\ QueueCap \in Nat \ {0}
  /\ {MayCancel, MayReenter, MayMismatch} \subseteq BOOLEAN

VARIABLES
  nextId, freeIds, \* IDGen.i and IDGen.free of Conn.questionID
  questions,       \* Conn.questions: the question under an id, or None
  qid,             \* Question.id, -1 while there is no question
  qstate,          \* Question.state, with how it was resolved
  got,             \* history: the call whose Return settled the question
  derived,         \* Question.derived is not empty
  rootClosePending,\* Question.rootClosePending
  callerOpen,      \* ~Conn.closed of the caller
  answers,         \* Conn.answers: the answer under an id, or None
  aid,             \* AnswerEntry.id, -1 while there is no entry
  astate,          \* what the AnswerEntry waits for or ended with
  pipelined,       \* AnswerEntry.queue
  flushing,        \* QueueClient.flushQueue(): calls still to be delivered
  rejecting,       \* AnswerEntry.reject(): calls still to be rejected
  calleeOpen,      \* ~Conn.closed of the callee
  toCallee, toCaller, \* messages in flight
  made, ran,       \* history: calls in the order made and in the order run
  reentered,       \* history: calls made while a Return was handled
  refused          \* history: calls answered without an entry

callerVars == <<nextId, freeIds, questions, qid, qstate, got, derived,
                rootClosePending, callerOpen, made, reentered>>
calleeVars == <<answers, aid, astate, pipelined, flushing, rejecting,
                calleeOpen, ran, refused>>
vars == <<nextId, freeIds, questions, qid, qstate, got, derived,
          rootClosePending, callerOpen, made, reentered, answers, aid, astate,
          pipelined, flushing, rejecting, calleeOpen, ran, refused, toCallee,
          toCaller>>

Ids == 0..MaxId

\* unused: not made; waiting: IN_PROGRESS; resolved and failed: RESOLVED with
\* a result or an error; canceled: CANCELED.
QuestionState == {"unused", "waiting", "resolved", "failed", "canceled"}

\* none: no entry; queued: in the queue of another answer; running: joined to
\* the answer of a method; failing: joined to an ErrorAnswer; ok, err: done;
\* closed: made done by shutdown().
AnswerState == {"none", "queued", "running", "failing", "ok", "err", "closed"}

\* call targets an imported capability, pipelined the answer with id "on";
\* unimplemented is an exception sent by sendReturnException().
Message ==
  [type : {"bootstrap", "call", "pipelined", "finish",
           "results", "exception", "unimplemented", "abort"},
   id : Ids, call : Calls, on : Ids]

Msg(type, id, c) == [type |-> type, id |-> id, call |-> c, on |-> id]
PipelinedMsg(id, c, on) ==
  [type |-> "pipelined", id |-> id, call |-> c, on |-> on]

Init ==
  /\ nextId = 0
  /\ freeIds = <<>>
  /\ questions = [i \in Ids |-> None]
  /\ qid = [c \in Calls |-> -1]
  /\ qstate = [c \in Calls |-> "unused"]
  /\ got = [c \in Calls |-> None]
  /\ derived = [c \in Calls |-> FALSE]
  /\ rootClosePending = [c \in Calls |-> FALSE]
  /\ callerOpen = TRUE
  /\ answers = [i \in Ids |-> None]
  /\ aid = [c \in Calls |-> -1]
  /\ astate = [c \in Calls |-> "none"]
  /\ pipelined = [c \in Calls |-> <<>>]
  /\ flushing = <<>>
  /\ rejecting = <<>>
  /\ calleeOpen = TRUE
  /\ toCallee = <<>>
  /\ toCaller = <<>>
  /\ made = <<>>
  /\ ran = <<>>
  /\ reentered = {}
  /\ refused = {}

-----------------------------------------------------------------------------
(* The caller.                                                             *)

\* IDGen.next: the id freed last, or a new one.
IdToUse == IF freeIds = <<>> THEN nextId ELSE freeIds[Len(freeIds)]

\* Mutants of TakeId: an id is drawn while a freed one is used; next()
\* returns an id without counting it.
TakeIdTwice ==
  /\ nextId' = nextId + 1
  /\ freeIds' = IF freeIds = <<>> THEN freeIds ELSE SubSeq(freeIds, 1, Len(freeIds) - 1)

TakeIdUncounted == UNCHANGED <<nextId, freeIds>>

TakeId ==
  IF freeIds = <<>>
  THEN nextId' = nextId + 1 /\ UNCHANGED freeIds
  ELSE freeIds' = SubSeq(freeIds, 1, Len(freeIds) - 1) /\ UNCHANGED nextId

\* Mutant: a message overtakes those in flight.
SendOvertaking(m) == toCallee' = <<m>> \o toCallee

\* Conn.sendMessage of the caller.
SendToCallee(m) == toCallee' = Append(toCallee, m)

\* Conn.newQuestion, then the message is sent and Question.start() called.
NewQuestion(c, p, m) ==
  /\ IdToUse \in Ids
  /\ TakeId
  /\ questions' = [questions EXCEPT ![IdToUse] = c]
  /\ qid' = [qid EXCEPT ![c] = IdToUse]
  /\ qstate' = [qstate EXCEPT ![c] = "waiting"]
  /\ made' = Append(made, [through |-> p, call |-> c])
  /\ SendToCallee(m)

\* Question p is in the table under its own id (Conn.findQuestion).
Asked(p) == qid[p] \in Ids /\ questions[qid[p]] = p

\* Conn.bootstrap
Bootstrap(c) ==
  /\ callerOpen
  /\ qstate[c] = "unused"
  /\ NewQuestion(c, None, Msg("bootstrap", IdToUse, c))
  /\ UNCHANGED <<got, derived, rootClosePending, callerOpen, reentered,
                 calleeVars, toCaller>>

\* Question.pipelineCall on a question in the table.
PipelineCall(c, p) ==
  /\ callerOpen
  /\ qstate[c] = "unused"
  /\ Asked(p)
  /\ NewQuestion(c, p, PipelinedMsg(IdToUse, c, qid[p]))
  /\ derived' = [derived EXCEPT ![p] = TRUE]
  /\ UNCHANGED <<got, rootClosePending, callerOpen, reentered, calleeVars, toCaller>>

\* Question.pipelineCall on a resolved question: ImportClient.call on the
\* capability of the result.
ImportCall(c, p) ==
  /\ callerOpen
  /\ qstate[c] = "unused"
  /\ qstate[p] = "resolved"
  /\ NewQuestion(c, p, Msg("call", IdToUse, c))
  /\ UNCHANGED <<got, derived, rootClosePending, callerOpen, reentered,
                 calleeVars, toCaller>>

\* The promise failed (ErrorClient) or its import was closed by shutdown():
\* the caller gets an ErrorAnswer and nothing is sent.
CallBroken(c, p) ==
  /\ qstate[c] = "unused"
  /\ \/ qstate[p] \in {"failed", "canceled"}
     \/ qstate[p] = "resolved" /\ ~callerOpen
  /\ qstate' = [qstate EXCEPT ![c] = "failed"]
  /\ got' = [got EXCEPT ![c] = c]
  /\ UNCHANGED <<nextId, freeIds, questions, qid, derived, rootClosePending,
                 callerOpen, made, reentered, calleeVars, toCallee, toCaller>>

\* Mutant: the id is never free again.
PopQuestionOnly(c) ==
  /\ questions' = [questions EXCEPT ![qid[c]] = None]
  /\ UNCHANGED <<nextId, freeIds>>

\* Conn.popQuestion frees the id at once.
PopQuestion(c) ==
  /\ questions' = [questions EXCEPT ![qid[c]] = None]
  /\ freeIds' = Append(freeIds, qid[c])
  /\ UNCHANGED nextId

\* Question.cancel, and Question.closePendingRoot with another error.
GiveUp(c) ==
  /\ SendToCallee(Msg("finish", qid[c], c))
  /\ PopQuestion(c)
  /\ qstate' = [qstate EXCEPT ![c] = "canceled"]
  /\ UNCHANGED <<qid, got, callerOpen, made, reentered, calleeVars, toCaller>>

Cancel(c) ==
  /\ MayCancel
  /\ Asked(c)
  /\ GiveUp(c)
  /\ UNCHANGED <<derived, rootClosePending>>

\* Question.pipelineClose of the root: put off while a derived pipeline needs
\* the result.
CloseRoot(c) ==
  /\ MayCancel
  /\ Asked(c)
  /\ IF derived[c]
     THEN /\ rootClosePending' = [rootClosePending EXCEPT ![c] = TRUE]
          /\ UNCHANGED <<nextId, freeIds, questions, qid, qstate, got, derived,
                         callerOpen, made, reentered, calleeVars, toCallee,
                         toCaller>>
     ELSE /\ GiveUp(c)
          /\ rootClosePending' = [rootClosePending EXCEPT ![c] = FALSE]
          /\ UNCHANGED derived

\* Question.pipelineClose of the last derived pipeline.
CloseDerived(c) ==
  /\ MayCancel
  /\ Asked(c)
  /\ derived[c]
  /\ derived' = [derived EXCEPT ![c] = FALSE]
  /\ IF rootClosePending[c]
     THEN /\ GiveUp(c)
          /\ rootClosePending' = [rootClosePending EXCEPT ![c] = FALSE]
     ELSE UNCHANGED <<nextId, freeIds, questions, qid, qstate, got,
                      rootClosePending, callerOpen, made, reentered, calleeVars,
                      toCallee, toCaller>>

\* shutdown() rejects every question in the table.
QuestionsFail ==
  /\ qstate' = [c \in Calls |-> IF Asked(c) THEN "failed" ELSE qstate[c]]
  /\ got' = [c \in Calls |-> IF Asked(c) THEN c ELSE got[c]]

\* Conn.shutdown at the caller: every question in the table fails, and its id
\* goes back to the generator in the order of the table.
ShutdownCaller ==
  LET live == {i \in Ids : questions[i] # None}
  IN /\ callerOpen' = FALSE
     /\ QuestionsFail
     /\ questions' = [i \in Ids |-> None]
     /\ \E s \in [1..Cardinality(live) -> live] :
          /\ Range(s) = live
          /\ \A i, j \in DOMAIN s : i < j => s[i] < s[j]
          /\ freeIds' = freeIds \o s
     /\ UNCHANGED <<nextId, qid, derived, rootClosePending, made, reentered>>

Received(m) == toCaller # <<>> /\ m = Head(toCaller) /\ toCaller' = Tail(toCaller)

Settled(type) == IF type = "results" THEN "resolved" ELSE "failed"

IsReturn(m) == m.type \in {"results", "exception", "unimplemented"}

\* Conn.handleReturnMessage: the question leaves the table, is settled, and
\* Finish is sent.
HandleReturn ==
  \E m \in Range(toCaller) :
    LET c == questions[m.id]
    IN /\ callerOpen
       /\ Received(m)
       /\ IsReturn(m)
       /\ c # None
       /\ PopQuestion(c)
       /\ qstate' = [qstate EXCEPT ![c] = Settled(m.type)]
       /\ got' = [got EXCEPT ![c] = m.call]
       /\ SendToCallee(Msg("finish", m.id, c))
       /\ UNCHANGED <<qid, derived, rootClosePending, callerOpen, made,
                      reentered, calleeVars>>

\* handleReturnMessage with releaseParamCaps set (the default of the Return
\* message, which sendReturnException leaves alone): releaseExport closes a
\* capability that was passed as a parameter, and the target's dispose method
\* makes call d before the question is settled and Finish is sent.
HandleReturnReentered(d, p) ==
  \E m \in Range(toCaller) :
    LET c == questions[m.id]
    IN /\ MayReenter
       /\ callerOpen
       /\ Received(m)
       /\ m.type = "unimplemented"
       /\ c # None
       /\ qstate[d] = "unused"
       /\ \/ qstate[p] = "resolved"
          \/ p # c /\ Asked(p)
       /\ questions' = [questions EXCEPT ![m.id] = d]
       /\ qid' = [qid EXCEPT ![d] = m.id]
       /\ qstate' = [qstate EXCEPT ![c] = "failed", ![d] = "waiting"]
       /\ got' = [got EXCEPT ![c] = m.call]
       /\ made' = Append(made, [through |-> p, call |-> d])
       /\ reentered' = reentered \cup {d}
       /\ derived' = [derived EXCEPT ![p] = @ \/ Asked(p)]
       /\ toCallee' = toCallee \o
            << IF Asked(p) THEN PipelinedMsg(m.id, d, qid[p]) ELSE Msg("call", m.id, d),
               Msg("finish", m.id, c) >>
       /\ UNCHANGED <<nextId, freeIds, rootClosePending, callerOpen, calleeVars>>

\* abortForProtocolError: Abort is sent and the connection shut down.
ReturnForUnknownQuestion ==
  \E m \in Range(toCaller) :
    /\ callerOpen
    /\ Received(m)
    /\ IsReturn(m)
    /\ questions[m.id] = None
    /\ SendToCallee(Msg("abort", m.id, m.call))
    /\ ShutdownCaller
    /\ UNCHANGED calleeVars

CallerAborted ==
  \E m \in Range(toCaller) :
    /\ callerOpen
    /\ Received(m)
    /\ m.type = "abort"
    /\ ShutdownCaller
    /\ UNCHANGED <<calleeVars, toCallee>>

-----------------------------------------------------------------------------
(* The callee.  While flushing or rejecting is not empty a synchronous loop *)
(* is on its stack and it handles no message and no method result.         *)

CalleeIdle == calleeOpen /\ flushing = <<>> /\ rejecting = <<>>

Arrived(m) == toCallee # <<>> /\ m = Head(toCallee) /\ toCallee' = Tail(toCallee)

\* Conn.insertAnswer
NewEntry(c, id, state) ==
  /\ answers' = [answers EXCEPT ![id] = c]
  /\ aid' = [aid EXCEPT ![c] = id]
  /\ astate' = [astate EXCEPT ![c] = state]

\* handleBootstrapMessage: the main capability is returned at once, unless the
\* id is in use, an exception and the connection goes on, or the vat has no
\* main interface; once it has one it keeps it.
HandleBootstrap ==
  \E m \in Range(toCallee) :
    /\ CalleeIdle
    /\ Arrived(m)
    /\ m.type = "bootstrap"
    /\ \/ /\ answers[m.id] = None
          /\ NewEntry(m.call, m.id, "ok")
          /\ ran' = Append(ran, m.call)
          /\ toCaller' = Append(toCaller, Msg("results", m.id, m.call))
          /\ UNCHANGED refused
       \/ /\ answers[m.id] = None
          /\ ran = <<>>
          /\ NewEntry(m.call, m.id, "err")
          /\ toCaller' = Append(toCaller, Msg("exception", m.id, m.call))
          /\ UNCHANGED <<ran, refused>>
       \/ /\ answers[m.id] # None
          /\ toCaller' = Append(toCaller, Msg("unimplemented", m.id, m.call))
          /\ refused' = refused \cup {m.call}
          /\ UNCHANGED <<answers, aid, astate, ran>>
    /\ UNCHANGED <<callerVars, pipelined, flushing, rejecting, calleeOpen>>

IsCall(m) == m.type \in {"call", "pipelined"}

\* A message that asks a new question.
IsRequest(m) == IsCall(m) \/ m.type = "bootstrap"

\* handleCallMessage up to insertAnswer: a Call with an id that is free here.
NewCall(m) ==
  /\ CalleeIdle
  /\ Arrived(m)
  /\ IsCall(m)
  /\ answers[m.id] = None

\* The interface or the method is unknown: the entry is popped again.
HandleCallUnimplemented ==
  \E m \in Range(toCallee) :
    /\ MayMismatch
    /\ NewCall(m)
    /\ toCaller' = Append(toCaller, Msg("unimplemented", m.id, m.call))
    /\ refused' = refused \cup {m.call}
    /\ UNCHANGED <<callerVars, answers, aid, astate, pipelined, flushing,
                   rejecting, calleeOpen, ran>>

\* routeCallMessage: an imported capability, or a promised answer that is done
\* and holds it; the method starts before handleCallMessage returns.
HandleCallRun ==
  \E m \in Range(toCallee) :
    /\ NewCall(m)
    /\ \/ m.type = "call"
       \/ /\ m.type = "pipelined"
          /\ answers[m.on] # None
          /\ astate[answers[m.on]] = "ok"
    /\ NewEntry(m.call, m.id, "running")
    /\ ran' = Append(ran, m.call)
    /\ UNCHANGED <<callerVars, pipelined, flushing, rejecting, calleeOpen,
                   refused, toCaller>>

\* routeCallMessage: the promised answer is an error.
HandleCallOnError ==
  \E m \in Range(toCallee) :
    /\ NewCall(m)
    /\ m.type = "pipelined"
    /\ answers[m.on] # None
    /\ astate[answers[m.on]] \in {"err", "closed"}
    /\ NewEntry(m.call, m.id, "failing")
    /\ UNCHANGED <<callerVars, pipelined, flushing, rejecting, calleeOpen, ran,
                   refused, toCaller>>

Unfinished == {"queued", "running", "failing"}

\* Mutant: the call queued last is delivered first.
QueueCallInFront(p, c) == pipelined' = [pipelined EXCEPT ![p] = <<c>> \o @]

\* AnswerEntry.queueCall
QueueCall(p, c) == pipelined' = [pipelined EXCEPT ![p] = Append(@, c)]

\* routeCallMessage: AnswerEntry.queueCall on an answer that is not done; when
\* its queue is full the new answer is rejected.
HandleCallQueue ==
  \E m \in Range(toCallee) :
    LET p == answers[m.on]
    IN /\ NewCall(m)
       /\ m.type = "pipelined"
       /\ p # None
       /\ astate[p] \in Unfinished
       /\ \/ /\ Len(pipelined[p]) < QueueCap
             /\ NewEntry(m.call, m.id, "queued")
             /\ QueueCall(p, m.call)
             /\ UNCHANGED toCaller
          \/ /\ Len(pipelined[p]) >= QueueCap
             /\ NewEntry(m.call, m.id, "err")
             /\ toCaller' = Append(toCaller, Msg("exception", m.id, m.call))
             /\ UNCHANGED pipelined
       /\ UNCHANGED <<callerVars, flushing, rejecting, calleeOpen, ran, refused>>

InTable(c) == aid[c] \in Ids /\ answers[aid[c]] = c

\* Conn.shutdown at the callee: the answers in the table are made done and
\* forgotten; what runs goes on, but its outcome is ignored.
ShutdownCallee ==
  /\ calleeOpen' = FALSE
  /\ astate' = [c \in Calls |->
                  IF InTable(c) THEN "closed" ELSE astate[c]]
  /\ answers' = [i \in Ids |-> None]
  /\ UNCHANGED <<aid, pipelined, flushing, rejecting, ran, refused>>

\* The id is in use (QuestionIdReused), or the call is pipelined on itself or
\* on an answer that is not in the table (BadTarget): abortForProtocolError.
HandleCallAbort ==
  \E m \in Range(toCallee) :
    /\ CalleeIdle
    /\ Arrived(m)
    /\ IsCall(m)
    /\ \/ answers[m.id] # None
       \/ m.type = "pipelined" /\ answers[m.on] = None
    /\ toCaller' = Append(toCaller, Msg("abort", m.id, m.call))
    /\ ShutdownCallee
    /\ UNCHANGED callerVars

CalleeAborted ==
  \E m \in Range(toCallee) :
    /\ CalleeIdle
    /\ Arrived(m)
    /\ m.type = "abort"
    /\ ShutdownCallee
    /\ UNCHANGED <<callerVars, toCaller>>

\* Mutant: a Finish has no effect.
PopNoAnswer(id) == UNCHANGED answers

\* Conn.popAnswer
PopAnswer(id) == answers' = [answers EXCEPT ![id] = None]

\* handleFinishMessage: the answer, done or not, is forgotten.
HandleFinish ==
  \E m \in Range(toCallee) :
    /\ CalleeIdle
    /\ Arrived(m)
    /\ m.type = "finish"
    /\ PopAnswer(m.id)
    /\ UNCHANGED <<callerVars, aid, astate, pipelined, flushing, rejecting,
                   calleeOpen, ran, refused, toCaller>>

\* A message to the caller; a closed transport drops it.
Send(m) == toCaller' = IF calleeOpen THEN Append(toCaller, m) ELSE toCaller

StackEmpty == flushing = <<>> /\ rejecting = <<>>

\* The method succeeds, joinAnswer calls AnswerEntry.fulfill: Return is sent
\* under the entry's id and the calls queued on the answer are delivered.
Fulfill(c) ==
  /\ StackEmpty
  /\ astate[c] = "running"
  /\ astate' = [astate EXCEPT ![c] = "ok"]
  /\ Send(Msg("results", aid[c], c))
  /\ flushing' = pipelined[c]
  /\ pipelined' = [pipelined EXCEPT ![c] = <<>>]
  /\ UNCHANGED <<callerVars, answers, aid, rejecting, calleeOpen, ran, refused,
                 toCallee>>

\* Mutant: the loop delivers without popping.
FlushNextAgain ==
  /\ flushing # <<>>
  /\ ran' = Append(ran, Head(flushing))
  /\ astate' = [astate EXCEPT ![Head(flushing)] = "running"]
  /\ UNCHANGED <<callerVars, answers, aid, pipelined, flushing, rejecting,
                 calleeOpen, refused, toCallee, toCaller>>

\* emptyQueue and QueueClient.flushQueue: one queued call is delivered.
FlushNext ==
  /\ flushing # <<>>
  /\ flushing' = Tail(flushing)
  /\ ran' = Append(ran, Head(flushing))
  /\ astate' = [astate EXCEPT ![Head(flushing)] = IF @ = "queued" THEN "running" ELSE @]
  /\ UNCHANGED <<callerVars, answers, aid, pipelined, rejecting, calleeOpen,
                 refused, toCallee, toCaller>>


\* AnswerEntry.reject of one entry: the exception is sent before the calls
\* queued on it are rejected in turn, depth first.
RejectEntry(c, rest) ==
  /\ astate' = [astate EXCEPT ![c] = "err"]
  /\ Send(Msg("exception", aid[c], c))
  /\ rejecting' = pipelined[c] \o rest
  /\ pipelined' = [pipelined EXCEPT ![c] = <<>>]
  /\ UNCHANGED <<callerVars, answers, aid, flushing, calleeOpen, ran, refused,
                 toCallee>>

\* The method fails, or the ErrorAnswer the entry was joined to does.
Reject(c) ==
  /\ StackEmpty
  /\ astate[c] \in {"running", "failing"}
  /\ RejectEntry(c, <<>>)

\* An entry that shutdown() made done throws, and the loop goes on.
RejectNext ==
  /\ rejecting # <<>>
  /\ IF astate[Head(rejecting)] = "queued"
     THEN RejectEntry(Head(rejecting), Tail(rejecting))
     ELSE /\ rejecting' = Tail(rejecting)
          /\ UNCHANGED <<callerVars, answers, aid, astate, pipelined, flushing,
                         calleeOpen, ran, refused, toCallee, toCaller>>

-----------------------------------------------------------------------------

CallerHandles ==
  HandleReturn \/ ReturnForUnknownQuestion \/ CallerAborted

CalleeHandles ==
  \/ HandleBootstrap
  \/ HandleCallRun \/ HandleCallOnError \/ HandleCallQueue
  \/ HandleCallUnimplemented \/ HandleCallAbort
  \/ CalleeAborted \/ HandleFinish
  \/ FlushNext \/ RejectNext

Next ==
  \/ \E c \in Calls : Bootstrap(c)
  \/ \E c, p \in Calls : PipelineCall(c, p) \/ ImportCall(c, p) \/ CallBroken(c, p)
  \/ \E c \in Calls : Cancel(c) \/ CloseRoot(c) \/ CloseDerived(c)
  \/ \E d, p \in Calls : HandleReturnReentered(d, p)
  \/ CallerHandles
  \/ CalleeHandles
  \/ \E c \in Calls : Fulfill(c) \/ Reject(c)

\* Each vat's work loop handles the next message (Conn.work), its synchronous
\* loops end, and the methods that run settle; the application owes nothing.
Fairness ==
  /\ WF_vars(CallerHandles)
  /\ WF_vars(CalleeHandles)
  /\ WF_vars(\E c \in Calls : Fulfill(c) \/ Reject(c))

Spec == Init /\ [][Next]_vars /\ Fairness

-----------------------------------------------------------------------------

TypeOK ==
  /\ nextId \in 0..(MaxId + 1)
  /\ freeIds \in Seq(Ids)
  /\ questions \in [Ids -> Calls \cup {None}]
  /\ qid \in [Calls -> Ids \cup {-1}]
  /\ qstate \in [Calls -> QuestionState]
  /\ got \in [Calls -> Calls \cup {None}]
  /\ derived \in [Calls -> BOOLEAN]
  /\ rootClosePending \in [Calls -> BOOLEAN]
  /\ callerOpen \in BOOLEAN
  /\ answers \in [Ids -> Calls \cup {None}]
  /\ aid \in [Calls -> Ids \cup {-1}]
  /\ astate \in [Calls -> AnswerState]
  /\ pipelined \in [Calls -> Seq(Calls)]
  /\ flushing \in Seq(Calls)
  /\ rejecting \in Seq(Calls)
  /\ calleeOpen \in BOOLEAN
  /\ toCallee \in Seq(Message)
  /\ toCaller \in Seq(Message)
  /\ made \in Seq([through : Calls \cup {None}, call : Calls])
  /\ ran \in Seq(Calls)
  /\ {reentered, refused} \subseteq SUBSET Calls

-----------------------------------------------------------------------------
(* Properties.                                                             *)

\* The id of every question in the table is out of the generator's hands, no
\* id is both free and in use, and none is lost: Conn.newQuestion and
\* popQuestion keep questionID and questions in step on every path, the
\* cancelled, the re-entrant and the connection's shutdown included.
QuestionTableOK ==
  /\ \A i \in Ids : questions[i] # None =>
       i < nextId /\ qid[questions[i]] = i /\ qstate[questions[i]] = "waiting"
  /\ \A c \in Calls : qstate[c] = "waiting" => Asked(c)
  /\ IsInjective(freeIds)
  /\ Range(freeIds) = {i \in Ids : i < nextId /\ questions[i] = None}

\* The callee owes the caller a Return for c, or the Return is on its way.
ReturnOutstanding(c) ==
  \/ \E m \in Range(toCallee) : m.call = c /\ IsRequest(m)
  \/ astate[c] \in Unfinished
  \/ \E m \in Range(toCaller) : m.call = c /\ IsReturn(m)

\* "A question ID can be reused once ... a matching Return has been received":
\* no two questions that share an id are unanswered at the same time, so a
\* Return can only settle the question it answers (popQuestion frees the id).
OneUnansweredPerId ==
  \A b, c \in Calls :
    b # c /\ qid[b] # -1 /\ qid[b] = qid[c] =>
      ~(ReturnOutstanding(b) /\ ReturnOutstanding(c))

\* "... and a matching Finish has been sent": a Finish in flight comes before
\* the request that asks the next question under its id, so handleFinishMessage
\* never forgets an answer that is still wanted, whether a Return, a cancel or
\* a close freed the id.  The one exception is a call made from a dispose
\* method that handleReturnMessage runs: it takes the id that was popped and is
\* sent just before the Finish of the question it follows.
FinishBeforeReuse ==
  \A j, k \in DOMAIN toCallee :
    /\ j < k
    /\ IsRequest(toCallee[j])
    /\ toCallee[k].type = "finish"
    /\ toCallee[j].id = toCallee[k].id
    /\ toCallee[j].call # toCallee[k].call
    => \/ \E l \in (j + 1)..(k - 1) :
            /\ IsRequest(toCallee[l])
            /\ toCallee[l].id = toCallee[k].id
            /\ toCallee[l].call = toCallee[k].call
       \/ k = j + 1 /\ toCallee[j].call \in reentered

\* A promised answer stays valid "until a Finish message is sent": when a
\* pipelined Call arrives, the id it names (routeCallMessage: this.answers[id])
\* is that of the very question it was made on, unless that question was made
\* from a dispose method (see FinishBeforeReuse) or was answered without an
\* entry, its method unknown.
PipelineTargetKnown ==
  \A m \in Range(toCallee) :
    m = Head(toCallee) /\ m.type = "pipelined" /\ CalleeIdle =>
      \E p \in Calls :
        /\ [through |-> p, call |-> m.call] \in Range(made)
        /\ answers[m.on] = p \/ p \in reentered \cup refused

\* Nothing of what the protocol leaves open to an error has happened: no
\* question was given up, no call was made while a Return was handled, no
\* interface or method was unknown (nor a Bootstrap refused, which needs an id
\* in use).
Undisturbed ==
  /\ \A c \in Calls : qstate[c] # "canceled"
  /\ reentered = {}
  /\ refused = {}

\* Two vats running this code tell each other of a protocol error only after
\* one of the three: Calls, Returns and Finishes that cross, queues that fill
\* up and answers that fail never lead to Abort (abortForProtocolError).
NoProtocolError == Undisturbed => callerOpen /\ calleeOpen

\* The callee executes a call at most once, however its id is reused and
\* whatever the connection does (flushQueue, joinAnswer and shutdown).
RunsAtMostOnce == IsInjective(ran)


\* The answer table does not grow: each entry is forgotten when the caller's
\* Finish arrives (handleReturnMessage sends one for every Return).
AnswersAreForgotten ==
  \A c \in Calls : InTable(c) ~> ~InTable(c)

\* What the caller sees of its calls, as CallService describes it.  A question
\* settled with the results of another call is not a success.
Status ==
  [c \in Calls |->
     CASE qstate[c] = "unused" -> "idle"
       [] qstate[c] = "waiting" -> "open"
       [] qstate[c] = "resolved" /\ got[c] = c -> "ok"
       [] qstate[c] = "resolved" /\ got[c] # c -> "stolen"
       [] qstate[c] \in {"failed", "canceled"} -> "failed"]

\* Calls run at most once and in the order made through each promise, and
\* succeed only with their own results after they ran: the tables, the
\* messages and the queues of the connection implement CallService.
Service == INSTANCE CallService WITH status <- Status
ImplementsCallService == Service!Spec
=============================================================================
