---------------------------- MODULE RpcCallsProofs ----------------------------
(***************************************************************************)
(* Theorems about RpcCalls for every number of calls, ids and queue slots. *)
(* With every fault (cancellation, re-entrance, unknown methods) on or     *)
(* off: the type invariant, the integrity of the question table, that a    *)
(* call runs at most once, the order of Finishes and requests, the target  *)
(* of a pipelined Call, and that only a fault leads to Abort.  With the    *)
(* faults off: that a Return reaches its question and that the connection  *)
(* implements CallService.                                                 *)
(***************************************************************************)
EXTENDS RpcCalls, SequenceLemmas, FiniteSetTheorems

\* An entry of the answer table was given an id (Conn.insertAnswer), so that a
\* Return is never sent under no id.
EntriesHaveIds == \A c \in Calls : astate[c] # "none" => aid[c] \in Ids

Inv == TypeOK /\ EntriesHaveIds /\ QuestionTableOK

idVars == <<nextId, freeIds, questions, qid, qstate>>

\* The part of TypeOK that speaks of the table of the caller.
CallerTypeOK ==
  /\ nextId \in 0..(MaxId + 1)
  /\ freeIds \in Seq(Ids)
  /\ questions \in [Ids -> Calls \cup {None}]
  /\ qid \in [Calls -> Ids \cup {-1}]
  /\ qstate \in [Calls -> QuestionState]

TableInv == CallerTypeOK /\ QuestionTableOK

\* The constructors of messages yield messages.
LEMMA MessagesTyped ==
  ASSUME NEW i \in Ids, NEW j \in Ids, NEW c \in Calls,
         NEW t \in {"bootstrap", "call", "pipelined", "finish",
                    "results", "exception", "unimplemented", "abort"}
  PROVE  Msg(t, i, c) \in Message /\ PipelinedMsg(i, c, j) \in Message
BY DEF Msg, PipelinedMsg, Message

\* A message in flight has the fields of a message.
LEMMA ArrivesTyped ==
  ASSUME TypeOK
  PROVE  /\ \A m \in Range(toCaller) : m.id \in Ids /\ m.call \in Calls
         /\ \A m \in Range(toCallee) : m.id \in Ids /\ m.call \in Calls /\ m.on \in Ids
<1>1. toCaller \in Seq(Message) /\ toCallee \in Seq(Message)
  BY DEF TypeOK
<1>2. Range(toCaller) \subseteq Message /\ Range(toCallee) \subseteq Message
  BY <1>1, RangeIsElements
<1> QED BY <1>2 DEF Message

-----------------------------------------------------------------------------
(* The question table and the id generator.                                *)

\* IDGen.next hands out an id that no question in the table has.
LEMMA IdToUseIsFree ==
  ASSUME TableInv, IdToUse \in Ids
  PROVE  questions[IdToUse] = None
<1>1. CASE freeIds = <<>>
  BY <1>1, RpcCallsAssumption DEF IdToUse, TableInv, CallerTypeOK, QuestionTableOK, Ids
<1>2. CASE freeIds # <<>>
  <2>1. IdToUse \in Range(freeIds)
    BY <1>2, RangeOfFront DEF IdToUse, TableInv, CallerTypeOK
  <2> QED BY <2>1 DEF TableInv, QuestionTableOK
<1> QED BY <1>1, <1>2

\* Conn.newQuestion: IDGen.next hands out an id that is neither free nor in use.
LEMMA NewQuestionKeepsTable ==
  ASSUME TableInv, NEW c \in Calls, NEW p, NEW m, qstate[c] = "unused", NewQuestion(c, p, m)
  PROVE  TableInv'
<1> DEFINE i == IdToUse
<1>1. /\ i \in Ids /\ TakeId /\ questions[i] = None
      /\ questions' = [questions EXCEPT ![i] = c]
      /\ qid' = [qid EXCEPT ![c] = i]
      /\ qstate' = [qstate EXCEPT ![c] = "waiting"]
  BY IdToUseIsFree DEF NewQuestion
<1>2. /\ nextId' \in 0..(MaxId + 1) /\ nextId' \in Int /\ nextId \in Int /\ freeIds' \in Seq(Ids)
      /\ IsInjective(freeIds')
      /\ \A j \in Ids : j \in Range(freeIds') <=> j \in Range(freeIds) /\ j # i
      /\ \A j \in Ids : j < nextId' <=> j < nextId \/ j = i
  <2>1. CASE freeIds = <<>>
    <3>1. i = nextId /\ nextId' = nextId + 1 /\ freeIds' = freeIds
      BY <1>1, <2>1 DEF IdToUse, TakeId
    <3>2. i \in 0..MaxId /\ MaxId \in Nat
      BY <1>1, RpcCallsAssumption DEF Ids
    <3> QED
      BY <1>1, <2>1, <3>1, <3>2, RangeOfEmpty DEF Ids, TableInv, CallerTypeOK
  <2>2. CASE freeIds # <<>>
    <3>1. /\ i = freeIds[Len(freeIds)] /\ nextId' = nextId
          /\ freeIds' = SubSeq(freeIds, 1, Len(freeIds) - 1)
      BY <1>1, <2>2 DEF IdToUse, TakeId
    <3>2. freeIds \in Seq(Ids) /\ IsInjective(freeIds)
      BY DEF TableInv, CallerTypeOK, QuestionTableOK
    <3>3. /\ freeIds' \in Seq(Ids) /\ IsInjective(freeIds')
          /\ Range(freeIds) = Range(freeIds') \cup {i} /\ i \notin Range(freeIds')
      BY <2>2, <3>1, <3>2, RangeOfFront
    <3>4. i < nextId
      BY <3>3 DEF TableInv, QuestionTableOK
    <3>5. nextId \in 0..(MaxId + 1) /\ nextId \in Int
      BY RpcCallsAssumption DEF TableInv, CallerTypeOK
    <3> QED BY <3>1, <3>3, <3>4, <3>5
  <2> QED BY <2>1, <2>2
<1> HIDE DEF i
<1>3. CallerTypeOK'
  BY <1>1, <1>2 DEF TableInv, CallerTypeOK, QuestionState
<1>4. \A j \in Ids : questions[j] # c
  BY RpcCallsAssumption DEF TableInv, QuestionTableOK
<1>5. \A j \in Ids : questions'[j] # None =>
        j < nextId' /\ qid'[questions'[j]] = j /\ qstate'[questions'[j]] = "waiting"
  BY <1>1, <1>2, <1>4 DEF TableInv, CallerTypeOK, QuestionTableOK
<1>6. \A d \in Calls : qstate'[d] = "waiting" => Asked(d)'
  BY <1>1, <1>4, RpcCallsAssumption DEF TableInv, CallerTypeOK, QuestionTableOK, Asked
<1>7. Range(freeIds') = {j \in Ids : j < nextId' /\ questions'[j] = None}
  <2>1. Range(freeIds') \subseteq Ids
    BY <1>2, RangeIsElements
  <2>2. \A j \in Ids : j \in Range(freeIds') <=> j < nextId' /\ questions'[j] = None
    BY <1>1, <1>2, RpcCallsAssumption DEF TableInv, CallerTypeOK, QuestionTableOK
  <2> QED BY <2>1, <2>2
<1> QED BY <1>2, <1>3, <1>5, <1>6, <1>7 DEF TableInv, QuestionTableOK

\* Conn.popQuestion, and the question is settled or cancelled in the same step.
LEMMA PopQuestionKeepsTable ==
  ASSUME TableInv, NEW c \in Calls, Asked(c), PopQuestion(c), qid' = qid,
         NEW st \in QuestionState \ {"waiting"}, qstate' = [qstate EXCEPT ![c] = st]
  PROVE  TableInv'
<1> DEFINE i == qid[c]
<1>1. /\ i \in Ids /\ questions[i] = c /\ c # None /\ i < nextId
      /\ questions' = [questions EXCEPT ![i] = None]
      /\ freeIds' = Append(freeIds, i) /\ nextId' = nextId
  BY RpcCallsAssumption DEF Asked, PopQuestion, TableInv, QuestionTableOK
<1> HIDE DEF i
<1>2. /\ freeIds' \in Seq(Ids) /\ IsInjective(freeIds')
      /\ Range(freeIds') = Range(freeIds) \cup {i}
  <2>1. freeIds \in Seq(Ids) /\ IsInjective(freeIds) /\ i \notin Range(freeIds)
    BY <1>1 DEF TableInv, CallerTypeOK, QuestionTableOK
  <2> QED BY <1>1, <2>1, RangeOfAppend
<1>3. CallerTypeOK'
  BY <1>1, <1>2 DEF TableInv, CallerTypeOK
<1>4. \A j \in Ids : questions'[j] # None =>
        j < nextId' /\ qid'[questions'[j]] = j /\ qstate'[questions'[j]] = "waiting"
  <2> SUFFICES ASSUME NEW j \in Ids, questions'[j] # None
               PROVE  j < nextId' /\ qid'[questions'[j]] = j /\ qstate'[questions'[j]] = "waiting"
    OBVIOUS
  <2>1. j # i /\ questions'[j] = questions[j]
    BY <1>1 DEF TableInv, CallerTypeOK
  <2>2. j < nextId /\ qid[questions[j]] = j /\ qstate[questions[j]] = "waiting"
    BY <2>1 DEF TableInv, QuestionTableOK
  <2>3. questions[j] # c /\ questions[j] \in Calls
    BY <2>1, <2>2 DEF TableInv, CallerTypeOK, i
  <2> QED BY <1>1, <2>1, <2>2, <2>3 DEF TableInv, CallerTypeOK
<1>5. \A d \in Calls : qstate'[d] = "waiting" => Asked(d)'
  <2> SUFFICES ASSUME NEW d \in Calls, qstate'[d] = "waiting" PROVE Asked(d)'
    OBVIOUS
  <2>1. d # c /\ qstate[d] = "waiting"
    BY DEF TableInv, CallerTypeOK
  <2>2. qid[d] \in Ids /\ questions[qid[d]] = d
    BY <2>1 DEF TableInv, QuestionTableOK, Asked
  <2>3. qid[d] # i
    BY <1>1, <2>1, <2>2
  <2> QED BY <1>1, <2>2, <2>3 DEF Asked, TableInv, CallerTypeOK
<1>6. Range(freeIds') = {j \in Ids : j < nextId' /\ questions'[j] = None}
  BY <1>1, <1>2 DEF TableInv, CallerTypeOK, QuestionTableOK
<1> QED BY <1>2, <1>3, <1>4, <1>5, <1>6 DEF TableInv, QuestionTableOK

\* handleReturnMessage re-entered: the id popped for c is the one d gets.
LEMMA ReuseKeepsTable ==
  ASSUME TableInv, NEW c \in Calls, NEW d \in Calls, NEW i \in Ids,
         questions[i] = c, qstate[d] = "unused",
         questions' = [questions EXCEPT ![i] = d],
         qid' = [qid EXCEPT ![d] = i],
         qstate' = [qstate EXCEPT ![c] = "failed", ![d] = "waiting"],
         UNCHANGED <<nextId, freeIds>>
  PROVE  TableInv'
<1>1. c # None /\ d # None /\ qid[c] = i /\ qstate[c] = "waiting" /\ i < nextId /\ c # d
  BY RpcCallsAssumption DEF TableInv, QuestionTableOK
<1>2. \A j \in Ids : questions[j] # d
  BY <1>1 DEF TableInv, QuestionTableOK
<1>3. CallerTypeOK'
  BY DEF TableInv, CallerTypeOK, QuestionState
<1>4. \A e \in Calls : qstate'[e] = IF e = d THEN "waiting" ELSE IF e = c THEN "failed" ELSE qstate[e]
  BY <1>1 DEF TableInv, CallerTypeOK
<1>5. \A j \in Ids : questions'[j] = IF j = i THEN d ELSE questions[j]
  BY DEF TableInv, CallerTypeOK
<1>6. \A e \in Calls : qid'[e] = IF e = d THEN i ELSE qid[e]
  BY DEF TableInv, CallerTypeOK
<1>7. \A j \in Ids : questions'[j] # None =>
        j < nextId' /\ qid'[questions'[j]] = j /\ qstate'[questions'[j]] = "waiting"
  <2> SUFFICES ASSUME NEW j \in Ids, questions'[j] # None
               PROVE  j < nextId' /\ qid'[questions'[j]] = j /\ qstate'[questions'[j]] = "waiting"
    OBVIOUS
  <2>1. CASE j = i
    <3>1. questions'[j] = d /\ qid'[d] = i /\ qstate'[d] = "waiting" /\ nextId' = nextId
      BY <1>4, <1>5, <1>6, <2>1
    <3> QED BY <1>1, <2>1, <3>1
  <2>2. CASE j # i
    <3>1. /\ questions'[j] = questions[j] /\ questions[j] \in Calls
          /\ j < nextId /\ qid[questions[j]] = j /\ qstate[questions[j]] = "waiting"
      BY <1>5, <2>2 DEF TableInv, CallerTypeOK, QuestionTableOK
    <3>2. questions[j] # c /\ questions[j] # d
      BY <1>1, <1>2, <2>2, <3>1
    <3> QED BY <1>4, <1>6, <3>1, <3>2
  <2> QED BY <2>1, <2>2
<1>8. \A e \in Calls : qstate'[e] = "waiting" => Asked(e)'
  <2> SUFFICES ASSUME NEW e \in Calls, qstate'[e] = "waiting" PROVE Asked(e)'
    OBVIOUS
  <2>1. CASE e = d
    BY <1>5, <1>6, <2>1 DEF Asked
  <2>2. CASE e # d
    <3>1. qstate'[e] = IF e = c THEN "failed" ELSE qstate[e]
      BY <1>4, <2>2
    <3>2. "failed" # "waiting"
      OBVIOUS
    <3>3. e # c /\ qstate[e] = "waiting"
      BY <3>1, <3>2
    <3>4. qid[e] \in Ids /\ questions[qid[e]] = e
      BY <3>3 DEF TableInv, QuestionTableOK, Asked
    <3>5. qid[e] # i
      BY <3>3, <3>4
    <3> QED BY <1>5, <1>6, <2>2, <3>4, <3>5 DEF Asked
  <2> QED BY <2>1, <2>2
<1>9. Range(freeIds') = {j \in Ids : j < nextId' /\ questions'[j] = None}
  BY <1>1, <1>5 DEF TableInv, QuestionTableOK
<1> QED BY <1>3, <1>7, <1>8, <1>9 DEF TableInv, QuestionTableOK

\* Conn.shutdown frees the id of every question it rejects.
LEMMA ShutdownKeepsTable ==
  ASSUME TableInv, ShutdownCaller
  PROVE  TableInv'
<1> DEFINE live == {i \in Ids : questions[i] # None}
<1>1. PICK s \in [1..Cardinality(live) -> live] :
         /\ Range(s) = live
         /\ \A i, j \in DOMAIN s : i < j => s[i] < s[j]
         /\ freeIds' = freeIds \o s
  BY DEF ShutdownCaller
<1>2. /\ questions' = [i \in Ids |-> None]
      /\ qstate' = [c \in Calls |-> IF Asked(c) THEN "failed" ELSE qstate[c]]
      /\ nextId' = nextId /\ qid' = qid
  BY DEF ShutdownCaller, QuestionsFail
<1>3. Cardinality(live) \in Nat
  <2>1. IsFiniteSet(0..MaxId)
    BY FS_Interval, RpcCallsAssumption
  <2>2. IsFiniteSet(live)
    BY <2>1, FS_Subset DEF Ids
  <2> QED BY <2>2, FS_CardinalityType
<1>4. s \in Seq(Ids) /\ DOMAIN s = 1..Cardinality(live)
  BY <1>1, <1>3
<1> HIDE DEF live
<1>5. IsInjective(s)
  <2> SUFFICES ASSUME NEW i \in DOMAIN s, NEW j \in DOMAIN s, s[i] = s[j] PROVE i = j
    BY DEF IsInjective
  <2>1. s[i] \in Int /\ s[j] \in Int /\ i \in Int /\ j \in Int
    BY <1>1, <1>4 DEF live, Ids
  <2>2. ~(i < j) /\ ~(j < i)
    BY <1>1, <2>1
  <2> QED BY <2>1, <2>2
<1>6. Range(freeIds) \cap live = {} /\ freeIds \in Seq(Ids) /\ IsInjective(freeIds)
  BY DEF live, TableInv, CallerTypeOK, QuestionTableOK
<1>7. /\ freeIds' \in Seq(Ids) /\ IsInjective(freeIds')
      /\ Range(freeIds') = Range(freeIds) \cup live
  BY <1>1, <1>4, <1>5, <1>6, RangeOfConcat
<1>8. CallerTypeOK'
  BY <1>2, <1>7 DEF TableInv, CallerTypeOK, QuestionState
<1>9. \A c \in Calls : qstate'[c] # "waiting"
  BY <1>2 DEF TableInv, QuestionTableOK
<1>10. \A i \in Ids : questions'[i] = None
  BY <1>2
<1>11. Range(freeIds') = {i \in Ids : i < nextId' /\ questions'[i] = None}
  BY <1>2, <1>7, <1>10 DEF live, TableInv, QuestionTableOK
<1> QED BY <1>7, <1>8, <1>9, <1>10, <1>11 DEF TableInv, QuestionTableOK

-----------------------------------------------------------------------------
(* Every step of the connection.                                           *)

\* A connection starts with empty tables and a fresh id generator.
LEMMA InitInv == Init => Inv
<1> SUFFICES ASSUME Init PROVE Inv
  OBVIOUS
<1>1. /\ nextId = 0 /\ freeIds = <<>> /\ Range(freeIds) = {} /\ IsInjective(freeIds)
      /\ 0 \in 0..(MaxId + 1) /\ \A i \in Ids : ~(i < 0)
  BY RangeOfEmpty, RpcCallsAssumption DEF Init, Ids
<1>2. \A S : <<>> \in Seq(S)
  BY EmptySeq
<1>3. TypeOK
  BY <1>1, <1>2 DEF Init, TypeOK, QuestionState, AnswerState
<1> QED BY <1>1, <1>3 DEF Init, Inv, EntriesHaveIds, QuestionTableOK

\* A step that leaves the table of the caller alone.
LEMMA TableUntouched ==
  ASSUME TableInv, UNCHANGED idVars
  PROVE  TableInv'
BY DEF TableInv, CallerTypeOK, QuestionTableOK, idVars, Asked

\* The caller's steps keep its table; the callee's do not touch it.
LEMMA TableStep ==
  ASSUME TypeOK, QuestionTableOK, [Next]_vars
  PROVE  TableInv'
<1>0. TableInv
  BY DEF TypeOK, TableInv, CallerTypeOK
<1>1. ASSUME NEW c \in Calls, Bootstrap(c) PROVE TableInv'
  BY <1>0, <1>1, NewQuestionKeepsTable DEF Bootstrap
<1>2. ASSUME NEW c \in Calls, NEW p \in Calls, PipelineCall(c, p) \/ ImportCall(c, p)
      PROVE  TableInv'
  BY <1>0, <1>2, NewQuestionKeepsTable DEF PipelineCall, ImportCall
<1>3. ASSUME NEW c \in Calls, NEW p \in Calls, CallBroken(c, p) PROVE TableInv'
  <2>1. /\ qstate[c] = "unused" /\ qstate' = [qstate EXCEPT ![c] = "failed"]
        /\ UNCHANGED <<nextId, freeIds, questions, qid>>
    BY <1>3 DEF CallBroken
  <2>2. \A j \in Ids : questions[j] # c
    BY <2>1, RpcCallsAssumption DEF QuestionTableOK
  <2>3. CallerTypeOK'
    BY <1>0, <2>1 DEF TableInv, CallerTypeOK, QuestionState
  <2>4. \A d \in Calls : qstate'[d] = "waiting" => Asked(d)'
    BY <1>0, <2>1 DEF TableInv, CallerTypeOK, QuestionTableOK, Asked
  <2>5. \A j \in Ids : questions'[j] # None => qstate'[questions'[j]] = "waiting"
    BY <1>0, <2>1, <2>2 DEF TableInv, CallerTypeOK, QuestionTableOK
  <2> QED BY <2>1, <2>3, <2>4, <2>5 DEF TableInv, QuestionTableOK
<1>4. ASSUME NEW c \in Calls, Cancel(c) \/ CloseRoot(c) \/ CloseDerived(c)
      PROVE  TableInv'
  <2>1. CASE Asked(c) /\ GiveUp(c)
    BY <1>0, <2>1, PopQuestionKeepsTable DEF GiveUp, QuestionState
  <2>2. CASE UNCHANGED idVars
    BY <1>0, <2>2, TableUntouched
  <2> QED BY <1>4, <2>1, <2>2 DEF Cancel, CloseRoot, CloseDerived, idVars
<1>5. CASE HandleReturn
  <2>1. PICK m \in Range(toCaller) :
          /\ questions[m.id] # None
          /\ PopQuestion(questions[m.id])
          /\ qstate' = [qstate EXCEPT ![questions[m.id]] = Settled(m.type)]
          /\ qid' = qid
    BY <1>5 DEF HandleReturn
  <2>2. m.id \in Ids
    BY ArrivesTyped
  <2>3. questions[m.id] \in Calls /\ Asked(questions[m.id])
    BY <1>0, <2>1, <2>2 DEF TableInv, CallerTypeOK, QuestionTableOK, Asked
  <2>4. Settled(m.type) \in QuestionState \ {"waiting"}
    BY DEF Settled, QuestionState
  <2> QED BY <1>0, <2>1, <2>3, <2>4, PopQuestionKeepsTable
<1>6. ASSUME NEW d \in Calls, NEW p \in Calls, HandleReturnReentered(d, p)
      PROVE  TableInv'
  <2>1. PICK m \in Range(toCaller) :
          /\ questions[m.id] # None
          /\ qstate[d] = "unused"
          /\ questions' = [questions EXCEPT ![m.id] = d]
          /\ qid' = [qid EXCEPT ![d] = m.id]
          /\ qstate' = [qstate EXCEPT ![questions[m.id]] = "failed", ![d] = "waiting"]
          /\ UNCHANGED <<nextId, freeIds>>
    BY <1>6 DEF HandleReturnReentered
  <2>2. m.id \in Ids
    BY ArrivesTyped
  <2>3. questions[m.id] \in Calls
    BY <1>0, <2>1, <2>2 DEF TableInv, CallerTypeOK
  <2> QED BY <1>0, <2>1, <2>2, <2>3, ReuseKeepsTable
<1>7. CASE ReturnForUnknownQuestion \/ CallerAborted
  BY <1>0, <1>7, ShutdownKeepsTable DEF ReturnForUnknownQuestion, CallerAborted
<1>8. CASE CalleeHandles \/ UNCHANGED vars
  <2>1. UNCHANGED idVars
    BY <1>8 DEF CalleeHandles, HandleBootstrap, HandleCallRun,
       HandleCallOnError, HandleCallQueue, HandleCallUnimplemented, HandleCallAbort,
       CalleeAborted, HandleFinish, FlushNext, RejectNext, RejectEntry, idVars,
       callerVars, vars
  <2> QED BY <1>0, <2>1, TableUntouched
<1>9. ASSUME NEW c \in Calls, Fulfill(c) \/ Reject(c) PROVE TableInv'
  <2>1. UNCHANGED idVars
    BY <1>9 DEF Fulfill, Reject, RejectEntry, idVars, callerVars
  <2> QED BY <1>0, <2>1, TableUntouched
<1> QED
  BY <1>1, <1>2, <1>3, <1>4, <1>5, <1>6, <1>7, <1>8, <1>9 DEF Next, CallerHandles

-----------------------------------------------------------------------------
(* The rest of TypeOK: what the caller's table is not part of.             *)

\* The caller's flags and histories, and the messages it sends.
CallerRestOK ==
  /\ got \in [Calls -> Calls \cup {None}]
  /\ derived \in [Calls -> BOOLEAN]
  /\ rootClosePending \in [Calls -> BOOLEAN]
  /\ callerOpen \in BOOLEAN
  /\ made \in Seq([through : Calls \cup {None}, call : Calls])
  /\ toCallee \in Seq(Message)
  /\ reentered \subseteq Calls

\* The callee's tables and queues, and the messages it sends.
CalleeOK ==
  /\ answers \in [Ids -> Calls \cup {None}]
  /\ aid \in [Calls -> Ids \cup {-1}]
  /\ astate \in [Calls -> AnswerState]
  /\ pipelined \in [Calls -> Seq(Calls)]
  /\ flushing \in Seq(Calls)
  /\ rejecting \in Seq(Calls)
  /\ calleeOpen \in BOOLEAN
  /\ ran \in Seq(Calls)
  /\ toCaller \in Seq(Message)
  /\ refused \subseteq Calls
  /\ EntriesHaveIds

\* TypeOK and EntriesHaveIds in the three parts the steps are checked for.
LEMMA Parts ==
  TypeOK /\ EntriesHaveIds <=> CallerTypeOK /\ CallerRestOK /\ CalleeOK
BY DEF TypeOK, CallerTypeOK, CallerRestOK, CalleeOK

\* A message taken from a stream leaves a stream of messages.
LEMMA TailTyped ==
  ASSUME NEW s \in Seq(Message), s # <<>>
  PROVE  Tail(s) \in Seq(Message)
OBVIOUS

\* A new question adds a typed message and a typed entry of the history.
LEMMA NewQuestionTyped ==
  ASSUME CallerRestOK, NEW c \in Calls, NEW p \in Calls \cup {None}, NEW m \in Message,
         NewQuestion(c, p, m)
  PROVE  /\ made' \in Seq([through : Calls \cup {None}, call : Calls])
         /\ toCallee' \in Seq(Message)
BY DEF CallerRestOK, NewQuestion, SendToCallee

\* What the caller records of its calls and sends keeps its type: the id in every
\* message comes from the question table or from a message received.
LEMMA CallerRestStep ==
  ASSUME TypeOK, CallerRestOK, Next
  PROVE  CallerRestOK'
<1>1. ASSUME NEW c \in Calls, Bootstrap(c) PROVE CallerRestOK'
  <2>1. NewQuestion(c, None, Msg("bootstrap", IdToUse, c)) /\ IdToUse \in Ids
    BY <1>1 DEF Bootstrap, NewQuestion
  <2>2. Msg("bootstrap", IdToUse, c) \in Message
    BY <2>1, MessagesTyped
  <2> QED BY <1>1, <2>1, <2>2, NewQuestionTyped DEF Bootstrap, CallerRestOK
<1>2. ASSUME NEW c \in Calls, NEW p \in Calls, PipelineCall(c, p) PROVE CallerRestOK'
  <2>1. /\ NewQuestion(c, p, PipelinedMsg(IdToUse, c, qid[p]))
        /\ IdToUse \in Ids /\ qid[p] \in Ids
    BY <1>2 DEF PipelineCall, NewQuestion, Asked
  <2>2. PipelinedMsg(IdToUse, c, qid[p]) \in Message
    BY <2>1, MessagesTyped
  <2>3. derived' \in [Calls -> BOOLEAN]
    BY <1>2 DEF PipelineCall, CallerRestOK
  <2> QED BY <1>2, <2>1, <2>2, <2>3, NewQuestionTyped DEF PipelineCall, CallerRestOK
<1>3. ASSUME NEW c \in Calls, NEW p \in Calls, ImportCall(c, p) PROVE CallerRestOK'
  <2>1. NewQuestion(c, p, Msg("call", IdToUse, c)) /\ IdToUse \in Ids
    BY <1>3 DEF ImportCall, NewQuestion
  <2>2. Msg("call", IdToUse, c) \in Message
    BY <2>1, MessagesTyped
  <2> QED BY <1>3, <2>1, <2>2, NewQuestionTyped DEF ImportCall, CallerRestOK
<1>4. ASSUME NEW c \in Calls, NEW p \in Calls, CallBroken(c, p) PROVE CallerRestOK'
  BY <1>4 DEF CallBroken, CallerRestOK
<1>5. ASSUME NEW c \in Calls, Asked(c), GiveUp(c)
      PROVE  toCallee' \in Seq(Message) /\ UNCHANGED <<got, callerOpen, made, reentered>>
  <2>1. Msg("finish", qid[c], c) \in Message
    BY <1>5, MessagesTyped DEF Asked
  <2> QED BY <1>5, <2>1 DEF GiveUp, SendToCallee, CallerRestOK
<1>6. ASSUME NEW c \in Calls, Cancel(c) \/ CloseRoot(c) \/ CloseDerived(c)
      PROVE  CallerRestOK'
  <2>1. /\ toCallee' \in Seq(Message)
        /\ UNCHANGED <<got, callerOpen, made, reentered>>
    BY <1>5, <1>6 DEF Cancel, CloseRoot, CloseDerived, CallerRestOK
  <2>2. derived' \in [Calls -> BOOLEAN] /\ rootClosePending' \in [Calls -> BOOLEAN]
    BY <1>6 DEF Cancel, CloseRoot, CloseDerived, CallerRestOK
  <2> QED BY <2>1, <2>2 DEF CallerRestOK
<1>7. CASE HandleReturn
  <2>1. PICK m \in Range(toCaller) :
          /\ got' = [got EXCEPT ![questions[m.id]] = m.call]
          /\ SendToCallee(Msg("finish", m.id, questions[m.id]))
          /\ questions[m.id] # None
          /\ UNCHANGED <<derived, rootClosePending, callerOpen, made, reentered>>
    BY <1>7 DEF HandleReturn
  <2>2. m.id \in Ids /\ m.call \in Calls /\ questions[m.id] \in Calls
    BY <2>1, ArrivesTyped DEF TypeOK
  <2>3. Msg("finish", m.id, questions[m.id]) \in Message
    BY <2>2, MessagesTyped
  <2> QED BY <2>1, <2>2, <2>3 DEF SendToCallee, CallerRestOK
<1>8. ASSUME NEW d \in Calls, NEW p \in Calls, HandleReturnReentered(d, p)
      PROVE  CallerRestOK'
  <2>1. PICK m \in Range(toCaller) :
          /\ questions[m.id] # None
          /\ got' = [got EXCEPT ![questions[m.id]] = m.call]
          /\ made' = Append(made, [through |-> p, call |-> d])
          /\ derived' = [derived EXCEPT ![p] = @ \/ Asked(p)]
          /\ toCallee' = toCallee \o
               << IF Asked(p) THEN PipelinedMsg(m.id, d, qid[p]) ELSE Msg("call", m.id, d),
                  Msg("finish", m.id, questions[m.id]) >>
          /\ reentered' = reentered \cup {d}
          /\ UNCHANGED <<rootClosePending, callerOpen>>
    BY <1>8 DEF HandleReturnReentered
  <2>2. m.id \in Ids /\ m.call \in Calls /\ questions[m.id] \in Calls
    BY <2>1, ArrivesTyped DEF TypeOK
  <2>3. /\ Asked(p) => PipelinedMsg(m.id, d, qid[p]) \in Message
        /\ Msg("call", m.id, d) \in Message
        /\ Msg("finish", m.id, questions[m.id]) \in Message
    BY <2>2, MessagesTyped DEF Asked
  <2>4. toCallee' \in Seq(Message)
    BY <2>1, <2>3 DEF CallerRestOK
  <2>5. derived' \in [Calls -> BOOLEAN]
    <3>1. Asked(p) \in BOOLEAN
      BY DEF Asked
    <3>2. derived[p] \in BOOLEAN
      BY DEF CallerRestOK
    <3> QED BY <2>1, <3>1, <3>2 DEF CallerRestOK
  <2>6. made' \in Seq([through : Calls \cup {None}, call : Calls])
    BY <2>1 DEF CallerRestOK
  <2> QED BY <2>1, <2>2, <2>4, <2>5, <2>6 DEF CallerRestOK
<1>9. ASSUME ShutdownCaller, toCallee' \in Seq(Message) PROVE CallerRestOK'
  BY <1>9 DEF ShutdownCaller, QuestionsFail, CallerRestOK
<1>10. CASE ReturnForUnknownQuestion
  <2>1. PICK m \in Range(toCaller) : SendToCallee(Msg("abort", m.id, m.call)) /\ ShutdownCaller
    BY <1>10 DEF ReturnForUnknownQuestion
  <2>2. Msg("abort", m.id, m.call) \in Message
    BY ArrivesTyped, MessagesTyped
  <2> QED BY <1>9, <2>1, <2>2 DEF SendToCallee, CallerRestOK
<1>11. CASE CallerAborted
  BY <1>9, <1>11 DEF CallerAborted, CallerRestOK
<1>12. ASSUME CalleeHandles \/ \E c \in Calls : Fulfill(c) \/ Reject(c)
       PROVE  CallerRestOK'
  <2>1. UNCHANGED callerVars
    BY <1>12 DEF CalleeHandles, HandleBootstrap, HandleCallRun,
       HandleCallOnError, HandleCallQueue, HandleCallUnimplemented, HandleCallAbort,
       CalleeAborted, HandleFinish, FlushNext, RejectNext, RejectEntry, Fulfill, Reject,
       callerVars
  <2>2. UNCHANGED toCallee \/ (toCallee # <<>> /\ toCallee' = Tail(toCallee))
    BY <1>12 DEF CalleeHandles, HandleBootstrap, HandleCallRun,
       HandleCallOnError, HandleCallQueue, HandleCallUnimplemented, HandleCallAbort,
       CalleeAborted, HandleFinish, FlushNext, RejectNext, RejectEntry, Fulfill, Reject,
       NewCall, Arrived
  <2>3. toCallee' \in Seq(Message)
    BY <2>2, TailTyped DEF CallerRestOK
  <2> QED BY <2>1, <2>3 DEF callerVars, CallerRestOK
<1> QED
  BY <1>1, <1>2, <1>3, <1>4, <1>6, <1>7, <1>8, <1>10, <1>11, <1>12 DEF Next, CallerHandles

\* The caller's steps only take messages from what the callee sent.
LEMMA CallerKeepsCallee ==
  ASSUME CalleeOK,
         \/ \E c \in Calls : Bootstrap(c) \/ Cancel(c) \/ CloseRoot(c) \/ CloseDerived(c)
         \/ \E c, p \in Calls : \/ PipelineCall(c, p) \/ ImportCall(c, p)
                                \/ CallBroken(c, p) \/ HandleReturnReentered(c, p)
         \/ CallerHandles
  PROVE  CalleeOK'
<1>1. UNCHANGED calleeVars
  <2>1. ASSUME NEW c \in Calls, GiveUp(c) PROVE UNCHANGED calleeVars
    BY <2>1 DEF GiveUp
  <2>2. ASSUME NEW c \in Calls,
               Bootstrap(c) \/ Cancel(c) \/ CloseRoot(c) \/ CloseDerived(c)
        PROVE  UNCHANGED calleeVars
    BY <2>1, <2>2 DEF Bootstrap, Cancel, CloseRoot, CloseDerived
  <2>3. ASSUME NEW c \in Calls, NEW p \in Calls,
               PipelineCall(c, p) \/ ImportCall(c, p) \/ CallBroken(c, p)
        PROVE  UNCHANGED calleeVars
    BY <2>3 DEF PipelineCall, ImportCall, CallBroken
  <2>4. ASSUME NEW c \in Calls, NEW p \in Calls, HandleReturnReentered(c, p)
        PROVE  UNCHANGED calleeVars
    BY <2>4 DEF HandleReturnReentered
  <2>5. ASSUME CallerHandles PROVE UNCHANGED calleeVars
    BY <2>5 DEF CallerHandles, HandleReturn, ReturnForUnknownQuestion, CallerAborted
  <2> QED BY <2>2, <2>3, <2>4, <2>5
<1>2. UNCHANGED toCaller \/ (toCaller # <<>> /\ toCaller' = Tail(toCaller))
  <2>1. ASSUME NEW c \in Calls, GiveUp(c) PROVE UNCHANGED toCaller
    BY <2>1 DEF GiveUp
  <2>2. ASSUME NEW c \in Calls, Cancel(c) \/ CloseRoot(c) \/ CloseDerived(c)
        PROVE  UNCHANGED toCaller
    BY <2>1, <2>2 DEF Cancel, CloseRoot, CloseDerived
  <2>3. ASSUME NEW m, Received(m) PROVE toCaller # <<>> /\ toCaller' = Tail(toCaller)
    BY <2>3 DEF Received
  <2>4. ASSUME CallerHandles \/ \E c, p \in Calls : HandleReturnReentered(c, p)
        PROVE  toCaller # <<>> /\ toCaller' = Tail(toCaller)
    BY <2>3, <2>4 DEF CallerHandles, HandleReturn, HandleReturnReentered,
       ReturnForUnknownQuestion, CallerAborted
  <2> QED
    BY <2>2, <2>4 DEF Bootstrap, PipelineCall, ImportCall, CallBroken
<1>3. toCaller' \in Seq(Message)
  BY <1>2, TailTyped DEF CalleeOK
<1> QED BY <1>1, <1>3 DEF calleeVars, CalleeOK, EntriesHaveIds

\* Conn.insertAnswer, with the message it may send.
LEMMA NewEntryTyped ==
  ASSUME CalleeOK, NEW c \in Calls, NEW i \in Ids, NEW st \in AnswerState, NewEntry(c, i, st)
  PROVE  /\ answers' \in [Ids -> Calls \cup {None}]
         /\ aid' \in [Calls -> Ids \cup {-1}]
         /\ astate' \in [Calls -> AnswerState]
         /\ EntriesHaveIds'
BY DEF CalleeOK, EntriesHaveIds, NewEntry

\* AnswerEntry.reject of one entry.
LEMMA RejectEntryTyped ==
  ASSUME CalleeOK, NEW c \in Calls, NEW rest \in Seq(Calls), astate[c] # "none",
         RejectEntry(c, rest)
  PROVE  CalleeOK'
<1>1. aid[c] \in Ids
  BY DEF CalleeOK, EntriesHaveIds
<1>2. Msg("exception", aid[c], c) \in Message
  BY <1>1, MessagesTyped
<1>3. toCaller' \in Seq(Message)
  BY <1>2 DEF RejectEntry, Send, CalleeOK
<1>4. pipelined[c] \o rest \in Seq(Calls)
  BY RangeOfConcat DEF CalleeOK
<1>5. astate' \in [Calls -> AnswerState] /\ EntriesHaveIds'
  BY <1>1 DEF RejectEntry, CalleeOK, EntriesHaveIds, AnswerState
<1>6. pipelined' \in [Calls -> Seq(Calls)]
  BY EmptySeq DEF RejectEntry, CalleeOK
<1> QED BY <1>3, <1>4, <1>5, <1>6 DEF RejectEntry, CalleeOK

\* Conn.shutdown at the callee.
LEMMA ShutdownCalleeTyped ==
  ASSUME CalleeOK, ShutdownCallee, toCaller' \in Seq(Message)
  PROVE  CalleeOK'
<1>1. astate' \in [Calls -> AnswerState] /\ EntriesHaveIds'
  BY DEF ShutdownCallee, CalleeOK, EntriesHaveIds, AnswerState, InTable
<1> QED BY <1>1 DEF ShutdownCallee, CalleeOK

\* What the callee records and sends keeps its type: each Return goes out under
\* the id its entry was given by Conn.insertAnswer.
LEMMA CalleeStep ==
  ASSUME TypeOK, CalleeOK, CalleeHandles \/ \E c \in Calls : Fulfill(c) \/ Reject(c)
  PROVE  CalleeOK'
<1>1. CASE HandleBootstrap
  <2>1. PICK m \in Range(toCallee) :
          /\ \/ /\ NewEntry(m.call, m.id, "ok")
                /\ ran' = Append(ran, m.call)
                /\ toCaller' = Append(toCaller, Msg("results", m.id, m.call))
                /\ UNCHANGED refused
             \/ /\ NewEntry(m.call, m.id, "err")
                /\ toCaller' = Append(toCaller, Msg("exception", m.id, m.call))
                /\ UNCHANGED <<ran, refused>>
             \/ /\ toCaller' = Append(toCaller, Msg("unimplemented", m.id, m.call))
                /\ refused' = refused \cup {m.call}
                /\ UNCHANGED <<answers, aid, astate, ran>>
          /\ UNCHANGED <<pipelined, flushing, rejecting, calleeOpen>>
    BY <1>1 DEF HandleBootstrap
  <2>2. /\ m.id \in Ids /\ m.call \in Calls /\ {"ok", "err"} \subseteq AnswerState
        /\ Msg("results", m.id, m.call) \in Message
        /\ Msg("exception", m.id, m.call) \in Message
        /\ Msg("unimplemented", m.id, m.call) \in Message
    BY ArrivesTyped, MessagesTyped DEF AnswerState
  <2>3. CASE NewEntry(m.call, m.id, "ok")
             /\ ran' = Append(ran, m.call)
             /\ toCaller' = Append(toCaller, Msg("results", m.id, m.call))
             /\ UNCHANGED refused
    BY <2>1, <2>2, <2>3, NewEntryTyped DEF CalleeOK
  <2>4. CASE NewEntry(m.call, m.id, "err")
             /\ toCaller' = Append(toCaller, Msg("exception", m.id, m.call))
             /\ UNCHANGED <<ran, refused>>
    BY <2>1, <2>2, <2>4, NewEntryTyped DEF CalleeOK
  <2>5. CASE toCaller' = Append(toCaller, Msg("unimplemented", m.id, m.call))
             /\ refused' = refused \cup {m.call}
             /\ UNCHANGED <<answers, aid, astate, ran>>
    BY <2>1, <2>2, <2>5 DEF CalleeOK, EntriesHaveIds
  <2> QED BY <2>1, <2>3, <2>4, <2>5
<1>2. CASE HandleCallUnimplemented
  <2>1. PICK m \in Range(toCallee) :
          /\ toCaller' = Append(toCaller, Msg("unimplemented", m.id, m.call))
          /\ refused' = refused \cup {m.call}
          /\ UNCHANGED <<answers, aid, astate, pipelined, flushing, rejecting, calleeOpen, ran>>
    BY <1>2 DEF HandleCallUnimplemented
  <2>2. Msg("unimplemented", m.id, m.call) \in Message /\ m.call \in Calls
    BY ArrivesTyped, MessagesTyped
  <2> QED BY <2>1, <2>2 DEF CalleeOK, EntriesHaveIds
<1>3. CASE HandleCallRun
  <2>1. PICK m \in Range(toCallee) :
          /\ NewEntry(m.call, m.id, "running")
          /\ ran' = Append(ran, m.call)
          /\ UNCHANGED <<pipelined, flushing, rejecting, calleeOpen, refused, toCaller>>
    BY <1>3 DEF HandleCallRun
  <2>2. m.id \in Ids /\ m.call \in Calls /\ "running" \in AnswerState
    BY ArrivesTyped DEF AnswerState
  <2> QED BY <2>1, <2>2, NewEntryTyped DEF CalleeOK
<1>4. CASE HandleCallOnError
  <2>1. PICK m \in Range(toCallee) :
          /\ NewEntry(m.call, m.id, "failing")
          /\ UNCHANGED <<pipelined, flushing, rejecting, calleeOpen, refused, ran, toCaller>>
    BY <1>4 DEF HandleCallOnError
  <2>2. m.id \in Ids /\ m.call \in Calls /\ "failing" \in AnswerState
    BY ArrivesTyped DEF AnswerState
  <2> QED BY <2>1, <2>2, NewEntryTyped DEF CalleeOK
<1>5. CASE HandleCallQueue
  <2>1. PICK m \in Range(toCallee) :
          /\ \/ /\ NewEntry(m.call, m.id, "queued")
                /\ QueueCall(answers[m.on], m.call)
                /\ UNCHANGED toCaller
             \/ /\ NewEntry(m.call, m.id, "err")
                /\ toCaller' = Append(toCaller, Msg("exception", m.id, m.call))
                /\ UNCHANGED pipelined
          /\ UNCHANGED <<flushing, rejecting, calleeOpen, ran, refused>>
          /\ answers[m.on] # None
    BY <1>5 DEF HandleCallQueue
  <2>2. /\ m.id \in Ids /\ m.call \in Calls /\ Msg("exception", m.id, m.call) \in Message
        /\ answers[m.on] \in Calls /\ "queued" \in AnswerState /\ "err" \in AnswerState
    BY <2>1, ArrivesTyped, MessagesTyped DEF AnswerState, CalleeOK
  <2>3. /\ answers' \in [Ids -> Calls \cup {None}]
        /\ aid' \in [Calls -> Ids \cup {-1}]
        /\ astate' \in [Calls -> AnswerState]
        /\ EntriesHaveIds'
    BY <2>1, <2>2, NewEntryTyped
  <2>4. pipelined' \in [Calls -> Seq(Calls)]
    <3>1. pipelined \in [Calls -> Seq(Calls)] /\ pipelined[answers[m.on]] \in Seq(Calls)
      BY <2>2 DEF CalleeOK
    <3>2. Append(pipelined[answers[m.on]], m.call) \in Seq(Calls)
      BY <2>2, <3>1
    <3>3. \/ pipelined' = [pipelined EXCEPT ![answers[m.on]] =
                             Append(pipelined[answers[m.on]], m.call)]
          \/ pipelined' = pipelined
      BY <2>1 DEF QueueCall
    <3> QED BY <3>1, <3>2, <3>3
  <2>5. toCaller' \in Seq(Message)
    <3>1. toCaller \in Seq(Message)
      BY DEF CalleeOK
    <3>2. toCaller' = toCaller \/ toCaller' = Append(toCaller, Msg("exception", m.id, m.call))
      BY <2>1
    <3> QED BY <2>2, <3>1, <3>2
  <2> QED BY <2>1, <2>3, <2>4, <2>5 DEF CalleeOK
<1>6. CASE HandleCallAbort
  <2>1. PICK m \in Range(toCallee) :
          toCaller' = Append(toCaller, Msg("abort", m.id, m.call)) /\ ShutdownCallee
    BY <1>6 DEF HandleCallAbort
  <2>2. Msg("abort", m.id, m.call) \in Message
    BY ArrivesTyped, MessagesTyped
  <2>3. toCaller' \in Seq(Message)
    BY <2>1, <2>2 DEF CalleeOK
  <2> QED BY <2>1, <2>3, ShutdownCalleeTyped
<1>7. CASE CalleeAborted
  BY <1>7, ShutdownCalleeTyped DEF CalleeAborted, CalleeOK
<1>8. CASE HandleFinish
  <2>1. PICK m \in Range(toCallee) :
          /\ PopAnswer(m.id)
          /\ UNCHANGED <<aid, astate, pipelined, flushing, rejecting, calleeOpen, ran,
                         refused, toCaller>>
    BY <1>8 DEF HandleFinish
  <2>2. answers' \in [Ids -> Calls \cup {None}]
    BY <2>1 DEF PopAnswer, CalleeOK
  <2> QED BY <2>1, <2>2 DEF CalleeOK, EntriesHaveIds
<1>9. CASE FlushNext
  <2>1. Head(flushing) \in Calls /\ Tail(flushing) \in Seq(Calls)
    BY <1>9, RangeOfTail DEF FlushNext, CalleeOK
  <2>2. ran' \in Seq(Calls)
    BY <1>9, <2>1 DEF FlushNext, CalleeOK
  <2>3. astate' \in [Calls -> AnswerState] /\ EntriesHaveIds'
    BY <1>9, <2>1 DEF FlushNext, CalleeOK, EntriesHaveIds, AnswerState
  <2> QED BY <1>9, <2>1, <2>2, <2>3 DEF FlushNext, CalleeOK
<1>10. CASE RejectNext
  <2>1. Head(rejecting) \in Calls /\ Tail(rejecting) \in Seq(Calls)
    BY <1>10, RangeOfTail DEF RejectNext, CalleeOK
  <2>2. CASE astate[Head(rejecting)] = "queued"
    BY <1>10, <2>1, <2>2, RejectEntryTyped DEF RejectNext
  <2>3. CASE astate[Head(rejecting)] # "queued"
    BY <1>10, <2>1, <2>3 DEF RejectNext, CalleeOK, EntriesHaveIds
  <2> QED BY <2>2, <2>3
<1>11. ASSUME NEW c \in Calls, Fulfill(c) PROVE CalleeOK'
  <2>1. aid[c] \in Ids
    BY <1>11 DEF Fulfill, CalleeOK, EntriesHaveIds
  <2>2. Msg("results", aid[c], c) \in Message
    BY <2>1, MessagesTyped
  <2>3. toCaller' \in Seq(Message)
    BY <1>11, <2>2 DEF Fulfill, Send, CalleeOK
  <2>4. flushing' \in Seq(Calls) /\ pipelined' \in [Calls -> Seq(Calls)]
    BY <1>11, EmptySeq DEF Fulfill, CalleeOK
  <2>5. astate' \in [Calls -> AnswerState] /\ EntriesHaveIds'
    BY <1>11, <2>1 DEF Fulfill, CalleeOK, EntriesHaveIds, AnswerState
  <2> QED BY <1>11, <2>3, <2>4, <2>5 DEF Fulfill, CalleeOK
<1>12. ASSUME NEW c \in Calls, Reject(c) PROVE CalleeOK'
  <2>1. astate[c] # "none" /\ RejectEntry(c, <<>>) /\ <<>> \in Seq(Calls)
    BY <1>12, EmptySeq DEF Reject
  <2> QED BY <2>1, RejectEntryTyped
<1> QED
  BY <1>1, <1>2, <1>3, <1>4, <1>5, <1>6, <1>7, <1>8, <1>9, <1>10, <1>11, <1>12
  DEF CalleeHandles

\* Every step keeps the invariant: the table by TableStep, the rest by the two
\* lemmas above.
LEMMA InvStep == Inv /\ [Next]_vars => Inv'
<1> SUFFICES ASSUME Inv, [Next]_vars PROVE Inv'
  OBVIOUS
<1>1. TypeOK /\ EntriesHaveIds /\ CallerRestOK /\ CalleeOK /\ QuestionTableOK
  BY Parts DEF Inv
<1>2. CASE UNCHANGED vars
  BY <1>2 DEF Inv, TypeOK, EntriesHaveIds, QuestionTableOK, Asked, vars
<1>3. CASE Next
  <2>1. CallerTypeOK' /\ QuestionTableOK'
    BY <1>1, TableStep DEF TableInv
  <2>2. CallerRestOK'
    BY <1>1, <1>3, CallerRestStep
  <2>3. CalleeOK'
    BY <1>1, <1>3, CallerKeepsCallee, CalleeStep DEF Next
  <2> QED BY <2>1, <2>2, <2>3 DEF Inv, TypeOK, CallerTypeOK, CallerRestOK, CalleeOK
<1> QED BY <1>2, <1>3

\* The invariant holds throughout, whatever the faults and the bounds.
LEMMA InvAlways == Spec => []Inv
<1>1. Init => Inv
  BY InitInv
<1>2. Inv /\ [Next]_vars => Inv'
  BY InvStep
<1> QED BY <1>1, <1>2, PTL DEF Spec

\* Every variable of the connection keeps its type: in particular every
\* message names an id in range, and every Return an entry that was given one.
THEOREM TypeCorrect == Spec => []TypeOK
<1>1. Inv => TypeOK
  BY DEF Inv
<1> QED BY <1>1, InvAlways, PTL

\* Conn.newQuestion and popQuestion, the cancellations, the Return handled
\* re-entrantly and shutdown() keep the question table and its id generator in
\* step: no id is free and in use, none is lost, none is handed out twice.
THEOREM QuestionTableIntegrity == Spec => []QuestionTableOK
<1>1. Inv => QuestionTableOK
  BY DEF Inv
<1> QED BY <1>1, InvAlways, PTL

-----------------------------------------------------------------------------
(***************************************************************************)
(* What the two vats of RpcCalls agree on.  With every fault, a call runs  *)
(* at most once.  Until a question is given up, a call is made in a        *)
(* dispose method or one is refused (Undisturbed), an id names one call at *)
(* a time on both sides and no protocol error arises; when none of these   *)
(* can happen, the connection implements CallService: each promise's calls *)
(* run in the order they were made.                                        *)
(***************************************************************************)

\* The calls whose request is in the stream s, and that each is there once.
CallsIn(s) == {c \in Calls : \E m \in Range(s) : IsRequest(m) /\ m.call = c}

RequestedOnce(s) ==
  \A j, k \in DOMAIN s :
    IsRequest(s[j]) /\ IsRequest(s[k]) /\ s[j].call = s[k].call => j = k

\* A call is at one place at a time: not made, on its way, or at the callee.
OnePlace ==
  /\ RequestedOnce(toCallee)
  /\ \A c \in CallsIn(toCallee) : qstate[c] # "unused" /\ astate[c] = "none"
  /\ \A c \in Calls : qstate[c] = "unused" => astate[c] = "none"
  /\ \A i \in Ids : answers[i] # None => astate[answers[i]] # "none"

\* At the callee it is in one queue until it runs.
RunOnce ==
  /\ IsInjective(ran)
  /\ IsInjective(flushing)
  /\ \A c \in Range(ran) : astate[c] # "none"
  /\ \A c \in Range(flushing) : astate[c] # "none" /\ c \notin Range(ran)
  /\ \A p \in Calls :
       /\ IsInjective(pipelined[p])
       /\ \A c \in Range(pipelined[p]) :
            /\ astate[c] # "none" /\ c \notin Range(ran) /\ c \notin Range(flushing)
            /\ \A q \in Calls : c \in Range(pipelined[q]) => q = p

RunInv == OnePlace /\ RunOnce

-----------------------------------------------------------------------------
(* What both sides know of the ids until Undisturbed fails, which it never *)
(* does with the faults off.                                               *)

NoFaults == ~ MayCancel /\ ~ MayReenter /\ ~ MayMismatch

NoAborts ==
  /\ callerOpen /\ calleeOpen
  /\ \A m \in Range(toCallee) : m.type # "abort"
  /\ \A m \in Range(toCaller) : m.type # "abort"

Done(c) == astate[c] \in {"ok", "err"}

\* A Finish of id i before position j of the stream s.
FinishedBefore(s, j, i) ==
  \E k \in DOMAIN s : k < j /\ s[k].type = "finish" /\ s[k].id = i

\* A request is for the question under its id; the answer of an earlier
\* question is forgotten before it arrives.
RequestsOK ==
  \A j \in DOMAIN toCallee : IsRequest(toCallee[j]) =>
    /\ questions[toCallee[j].id] = toCallee[j].call
    /\ answers[toCallee[j].id] = None \/ FinishedBefore(toCallee, j, toCallee[j].id)

\* A Finish is for the answer under its id, which is done and has been
\* received.
FinishesOK ==
  /\ \A m \in Range(toCallee) : m.type = "finish" =>
       answers[m.id] = m.call /\ questions[m.id] # m.call /\ Done(m.call)
  /\ \A j, k \in DOMAIN toCallee :
       toCallee[j].type = "finish" /\ toCallee[k].type = "finish" /\ toCallee[j].id = toCallee[k].id
         => j = k

\* A question is on its way or has an answer, an answer has a question or will
\* be finished.
TablesOK ==
  /\ \A i \in Ids : questions[i] # None =>
       answers[i] = questions[i]
         \/ \E m \in Range(toCallee) : IsRequest(m) /\ m.id = i /\ m.call = questions[i]
  /\ \A i \in Ids : answers[i] # None =>
       /\ aid[answers[i]] = i
       /\ questions[i] = answers[i] \/ \E m \in Range(toCallee) : m.type = "finish" /\ m.id = i
  /\ \A c \in Calls : astate[c] \in Unfinished => InTable(c)

\* A Return is of the answer and for the question under its id, once.
ReturnsOK ==
  /\ \A m \in Range(toCaller) : IsReturn(m) =>
       questions[m.id] = m.call /\ answers[m.id] = m.call /\ Done(m.call)
  /\ \A j, k \in DOMAIN toCaller :
       IsReturn(toCaller[j]) /\ IsReturn(toCaller[k]) /\ toCaller[j].call = toCaller[k].call => j = k

IdInv == NoAborts /\ RequestsOK /\ FinishesOK /\ TablesOK /\ ReturnsOK

-----------------------------------------------------------------------------

\* The calls in the order made, each once; a call that was made has a place.
MadeOK ==
  /\ \A i, j \in DOMAIN made : made[i].call = made[j].call => i = j
  /\ \A i \in DOMAIN made : qstate[made[i].call] # "unused"
  /\ \A c \in CallsIn(toCallee) : \E i \in DOMAIN made : made[i].call = c
  /\ \A p \in Calls : \A c \in Range(pipelined[p]) :
       \E i \in DOMAIN made : made[i].through = p /\ made[i].call = c
  /\ \A c \in Range(flushing) : \E i \in DOMAIN made : made[i].call = c

\* A promise is resolved with its own results, after its call was done.
ResolvedOK == \A c \in Calls : qstate[c] = "resolved" => got[c] = c /\ Done(c)

\* The request of c, under id i, in s before position j.
RequestedBefore(s, j, c, i) ==
  \E k \in DOMAIN s : k < j /\ IsRequest(s[k]) /\ s[k].call = c /\ s[k].id = i

\* The request m, at position j of the stream s, was made through p: when a
\* pipelined call arrives the answer it names is the one of p, and other calls
\* are made through promises that are done.
TargetOK(s, j, m, p) ==
  /\ m.type = "pipelined" =>
       /\ p # None
       /\ \/ RequestedBefore(s, j, p, m.on)
          \/ answers[m.on] = p /\ ~ FinishedBefore(s, j, m.on)
  /\ m.type = "call" => p # None /\ Done(p)
  /\ m.type = "bootstrap" => p = None

TargetsOK ==
  \A j \in DOMAIN toCallee : \A i \in DOMAIN made :
    toCallee[j].call = made[i].call => TargetOK(toCallee, j, toCallee[j], made[i].through)

\* The request of c is in s behind position j.
RequestedAfter(s, j, c) ==
  \E k \in DOMAIN s : k > j /\ IsRequest(s[k]) /\ s[k].call = c

\* Every request of c in s has one of d behind it.
Ahead(s, c, d) ==
  \A j \in DOMAIN s : IsRequest(s[j]) /\ s[j].call = c => RequestedAfter(s, j, d)

\* Call c was made through p before call d.
MadeInOrder(c, d, p) ==
  \E a, b \in DOMAIN made :
    /\ a < b
    /\ made[a].call = c /\ made[a].through = p
    /\ made[b].call = d /\ made[b].through = p

\* It stays ahead on its way and in the queues: d has not run before c leaves
\* its last queue.
Ordered(c, d, p) ==
  /\ Ahead(toCallee, c, d)
  /\ c \in Range(flushing) => d \notin Range(ran)
  /\ \A j, k \in DOMAIN flushing : flushing[j] = c /\ flushing[k] = d => j < k
  /\ p # None =>
       /\ c \in Range(pipelined[p]) => d \notin Range(ran)
       /\ \A j, k \in DOMAIN pipelined[p] : pipelined[p][j] = c /\ pipelined[p][k] = d => j < k

OrderOK ==
  \A c, d \in Calls, p \in Calls \cup {None} : MadeInOrder(c, d, p) => Ordered(c, d, p)

\* Only an unfinished answer queues calls; it is done when they are delivered;
\* what succeeded has run.
AnswersOK ==
  /\ \A p \in Calls : pipelined[p] # <<>> => astate[p] \in Unfinished
  /\ \A i \in DOMAIN made : made[i].call \in Range(flushing) =>
       made[i].through # None /\ Done(made[i].through)
  /\ \A c \in Calls : astate[c] \in {"running", "ok"} => c \in Range(ran)
  /\ \A m \in Range(toCaller) : m.type = "results" => m.call \in Range(ran)

-----------------------------------------------------------------------------
(* The stream of messages to the callee.                                   *)

\* What a stream holds after a message was appended.
LEMMA RequestAppended ==
  ASSUME NEW s \in Seq(Message), NEW m \in Message
  PROVE  /\ CallsIn(Append(s, m)) = CallsIn(s) \cup {c \in Calls : IsRequest(m) /\ m.call = c}
         /\ RequestedOnce(s) /\ (IsRequest(m) => m.call \notin CallsIn(s))
              => RequestedOnce(Append(s, m))
<1> DEFINE t == Append(s, m)
<1>1. /\ t \in Seq(Message)
      /\ Len(t) = Len(s) + 1 /\ Len(s) \in Nat
      /\ DOMAIN s = 1..Len(s) /\ DOMAIN t = 1..(Len(s) + 1)
      /\ \A i \in 1..Len(s) : t[i] = s[i]
      /\ t[Len(s) + 1] = m
  BY AppendProperties, LenProperties
<1>2. Range(t) = Range(s) \cup {m}
  BY RangeOfAppend
<1>3. CallsIn(t) = CallsIn(s) \cup {c \in Calls : IsRequest(m) /\ m.call = c}
  BY <1>2 DEF CallsIn
<1>4. ASSUME RequestedOnce(s), IsRequest(m) => m.call \notin CallsIn(s)
      PROVE  RequestedOnce(t)
  <2>1. ASSUME NEW j \in 1..Len(s), IsRequest(s[j]), IsRequest(m) PROVE s[j].call # m.call
    <3>1. s[j] \in Range(s) /\ s[j] \in Message
      BY <1>1, RangeIsElements, ElementOfSeq
    <3>2. s[j].call \in CallsIn(s)
      BY <2>1, <3>1 DEF CallsIn, Message
    <3> QED BY <1>4, <2>1, <3>2
  <2>2. \A j \in 1..(Len(s) + 1) : j \in 1..Len(s) \/ j = Len(s) + 1
    BY <1>1
  <2> HIDE DEF t
  <2> QED BY <1>1, <1>4, <2>1, <2>2 DEF RequestedOnce
<1> QED BY <1>3, <1>4

\* What it holds after its first message was taken.
LEMMA RequestTaken ==
  ASSUME NEW s \in Seq(Message), s # <<>>
  PROVE  /\ Head(s) \in Range(s) /\ Head(s) \in Message
         /\ CallsIn(Tail(s)) \subseteq CallsIn(s)
         /\ RequestedOnce(s) => RequestedOnce(Tail(s))
         /\ IsRequest(Head(s)) => Head(s).call \in CallsIn(s)
         /\ RequestedOnce(s) /\ IsRequest(Head(s)) => Head(s).call \notin CallsIn(Tail(s))
<1> DEFINE t == Tail(s)
<1>1. /\ t \in Seq(Message) /\ Head(s) = s[1] /\ Head(s) \in Message
      /\ Len(t) = Len(s) - 1 /\ Len(s) \in Nat \ {0}
      /\ DOMAIN s = 1..Len(s) /\ DOMAIN t = 1..(Len(s) - 1)
      /\ \A i \in 1..(Len(s) - 1) : t[i] = s[i + 1]
  BY HeadTailProperties, EmptySeq, LenProperties
<1>2. Range(s) = Range(t) \cup {Head(s)}
  BY RangeOfTail
<1>3. CallsIn(t) \subseteq CallsIn(s)
  BY <1>2 DEF CallsIn
<1>4. IsRequest(Head(s)) => Head(s).call \in CallsIn(s)
  BY <1>1, <1>2 DEF CallsIn, Message
<1>5. \A i \in 1..(Len(s) - 1) : i + 1 \in 1..Len(s) /\ i \in Int
  BY <1>1
<1>6. 1 \in 1..Len(s)
  BY <1>1
<1> HIDE DEF t
<1>7. ASSUME RequestedOnce(s) PROVE RequestedOnce(t)
  <2> SUFFICES ASSUME NEW j \in DOMAIN t, NEW k \in DOMAIN t,
                      IsRequest(t[j]), IsRequest(t[k]), t[j].call = t[k].call
               PROVE  j = k
    BY DEF RequestedOnce
  <2>1. j \in Int /\ k \in Int /\ j + 1 = k + 1
    BY <1>1, <1>5, <1>7 DEF RequestedOnce
  <2> QED BY <2>1
<1>8. ASSUME RequestedOnce(s), IsRequest(Head(s)) PROVE Head(s).call \notin CallsIn(t)
  <2> SUFFICES ASSUME Head(s).call \in CallsIn(t) PROVE FALSE
    OBVIOUS
  <2>1. PICK m \in Range(t) : IsRequest(m) /\ m.call = Head(s).call
    BY DEF CallsIn
  <2>2. PICK i \in 1..(Len(s) - 1) : t[i] = m
    BY <1>1, RangeIsElements
  <2>3. i + 1 = 1
    BY <1>1, <1>5, <1>6, <1>8, <2>1, <2>2 DEF RequestedOnce
  <2> QED BY <1>1, <2>3
<1> QED BY <1>1, <1>2, <1>3, <1>4, <1>7, <1>8 DEF t

\* A Finish or an Abort is no request.
LEMMA Kinds ==
  ASSUME NEW i, NEW c, NEW on
  PROVE  /\ IsRequest(Msg("bootstrap", i, c)) /\ IsRequest(Msg("call", i, c))
         /\ IsRequest(PipelinedMsg(i, c, on))
         /\ ~ IsRequest(Msg("finish", i, c)) /\ ~ IsRequest(Msg("abort", i, c))
         /\ Msg("bootstrap", i, c).call = c /\ Msg("call", i, c).call = c
         /\ PipelinedMsg(i, c, on).call = c
BY DEF IsRequest, IsCall, Msg, PipelinedMsg

-----------------------------------------------------------------------------
(* A call runs at most once: the caller's side.                            *)

\* Conn.newQuestion: the call was made nowhere else.
LEMMA RequestKeepsOnePlace ==
  ASSUME TypeOK, OnePlace, NEW c \in Calls, NEW m \in Message, IsRequest(m), m.call = c,
         qstate[c] = "unused", toCallee' = Append(toCallee, m),
         \A d \in Calls : qstate'[d] = "unused" => qstate[d] = "unused", qstate'[c] # "unused",
         UNCHANGED <<answers, astate>>
  PROVE  OnePlace'
<1>1. c \notin CallsIn(toCallee) /\ toCallee \in Seq(Message) /\ astate[c] = "none"
  BY DEF OnePlace, TypeOK
<1>2. RequestedOnce(toCallee') /\ CallsIn(toCallee') = CallsIn(toCallee) \cup {c}
  BY <1>1, RequestAppended DEF OnePlace
<1>3. \A d \in CallsIn(toCallee') : d \in Calls
  BY DEF CallsIn
<1> QED BY <1>1, <1>2, <1>3 DEF OnePlace

\* A step that makes no call and sends no request.
LEMMA SilentKeepsOnePlace ==
  ASSUME TypeOK, OnePlace,
         \/ toCallee' = toCallee
         \/ \E m \in Message : ~ IsRequest(m) /\ toCallee' = Append(toCallee, m),
         \A d \in Calls : qstate'[d] = "unused" => qstate[d] = "unused",
         UNCHANGED <<answers, astate>>
  PROVE  OnePlace'
<1>1. RequestedOnce(toCallee') /\ CallsIn(toCallee') = CallsIn(toCallee)
  <2>1. CASE toCallee' = toCallee
    BY <2>1 DEF OnePlace
  <2>2. CASE \E m \in Message : ~ IsRequest(m) /\ toCallee' = Append(toCallee, m)
    <3>1. PICK m \in Message : ~ IsRequest(m) /\ toCallee' = Append(toCallee, m)
      BY <2>2
    <3>2. toCallee \in Seq(Message) /\ RequestedOnce(toCallee)
      BY DEF OnePlace, TypeOK
    <3>3. {c \in Calls : IsRequest(m) /\ m.call = c} = {}
      BY <3>1
    <3>4. /\ CallsIn(toCallee') = CallsIn(toCallee) \cup {c \in Calls : IsRequest(m) /\ m.call = c}
          /\ RequestedOnce(toCallee')
      BY <3>1, <3>2, RequestAppended
    <3> QED BY <3>3, <3>4
  <2> QED BY <2>1, <2>2
<1>2. \A d \in CallsIn(toCallee) : d \in Calls
  BY DEF CallsIn
<1> QED BY <1>1, <1>2 DEF OnePlace

\* The steps of the caller leave the callee alone and send at most one request,
\* of a call that was not made.
LEMMA CallerKeepsOnePlace ==
  ASSUME Inv, OnePlace,
         \/ \E c \in Calls : Bootstrap(c) \/ Cancel(c) \/ CloseRoot(c) \/ CloseDerived(c)
         \/ \E c, p \in Calls : \/ PipelineCall(c, p) \/ ImportCall(c, p)
                                \/ CallBroken(c, p) \/ HandleReturnReentered(c, p)
         \/ CallerHandles
  PROVE  OnePlace' /\ UNCHANGED <<astate, pipelined, flushing, ran>>
<1>0. TypeOK /\ CallerTypeOK /\ QuestionTableOK
  BY DEF Inv, TypeOK, CallerTypeOK
<1>1. ASSUME NEW c \in Calls, NEW p, NEW m \in Message, IsRequest(m), m.call = c,
             qstate[c] = "unused", NewQuestion(c, p, m), UNCHANGED calleeVars
      PROVE  OnePlace' /\ UNCHANGED <<astate, pipelined, flushing, ran>>
  <2>1. /\ qstate' = [qstate EXCEPT ![c] = "waiting"] /\ toCallee' = Append(toCallee, m)
        /\ UNCHANGED <<answers, astate, pipelined, flushing, ran>>
    BY <1>1 DEF NewQuestion, SendToCallee, calleeVars
  <2>2. qstate'[c] # "unused" /\ \A d \in Calls : qstate'[d] = "unused" => qstate[d] = "unused"
    BY <1>0, <2>1 DEF CallerTypeOK
  <2> QED BY <1>0, <1>1, <2>1, <2>2, RequestKeepsOnePlace
<1>2. ASSUME NEW c \in Calls, Bootstrap(c)
      PROVE  OnePlace' /\ UNCHANGED <<astate, pipelined, flushing, ran>>
  <2>1. /\ NewQuestion(c, None, Msg("bootstrap", IdToUse, c)) /\ IdToUse \in Ids
        /\ qstate[c] = "unused" /\ UNCHANGED calleeVars
    BY <1>2 DEF Bootstrap, NewQuestion
  <2>2. Msg("bootstrap", IdToUse, c) \in Message
    BY <2>1, MessagesTyped
  <2> QED BY <1>1, <2>1, <2>2, Kinds
<1>3. ASSUME NEW c \in Calls, NEW p \in Calls, PipelineCall(c, p)
      PROVE  OnePlace' /\ UNCHANGED <<astate, pipelined, flushing, ran>>
  <2>1. /\ NewQuestion(c, p, PipelinedMsg(IdToUse, c, qid[p]))
        /\ IdToUse \in Ids /\ qid[p] \in Ids /\ qstate[c] = "unused" /\ UNCHANGED calleeVars
    BY <1>3 DEF PipelineCall, NewQuestion, Asked
  <2>2. PipelinedMsg(IdToUse, c, qid[p]) \in Message
    BY <2>1, MessagesTyped
  <2> QED BY <1>1, <2>1, <2>2, Kinds
<1>4. ASSUME NEW c \in Calls, NEW p \in Calls, ImportCall(c, p)
      PROVE  OnePlace' /\ UNCHANGED <<astate, pipelined, flushing, ran>>
  <2>1. /\ NewQuestion(c, p, Msg("call", IdToUse, c)) /\ IdToUse \in Ids
        /\ qstate[c] = "unused" /\ UNCHANGED calleeVars
    BY <1>4 DEF ImportCall, NewQuestion
  <2>2. Msg("call", IdToUse, c) \in Message
    BY <2>1, MessagesTyped
  <2> QED BY <1>1, <2>1, <2>2, Kinds
<1>5. ASSUME UNCHANGED calleeVars,
             \/ toCallee' = toCallee
             \/ \E m \in Message : ~ IsRequest(m) /\ toCallee' = Append(toCallee, m),
             \A d \in Calls : qstate'[d] = "unused" => qstate[d] = "unused"
      PROVE  OnePlace' /\ UNCHANGED <<astate, pipelined, flushing, ran>>
  <2>1. UNCHANGED <<answers, astate, pipelined, flushing, ran>>
    BY <1>5 DEF calleeVars
  <2> QED BY <1>0, <1>5, <2>1, SilentKeepsOnePlace
<1>6. ASSUME NEW c \in Calls, NEW p \in Calls, CallBroken(c, p)
      PROVE  OnePlace' /\ UNCHANGED <<astate, pipelined, flushing, ran>>
  <2>1. qstate' = [qstate EXCEPT ![c] = "failed"] /\ UNCHANGED <<calleeVars, toCallee>>
    BY <1>6 DEF CallBroken, calleeVars
  <2>2. \A d \in Calls : qstate'[d] = "unused" => qstate[d] = "unused"
    BY <1>0, <2>1 DEF CallerTypeOK
  <2> QED BY <1>5, <2>1, <2>2
<1>7. ASSUME NEW c \in Calls, Cancel(c) \/ CloseRoot(c) \/ CloseDerived(c)
      PROVE  OnePlace' /\ UNCHANGED <<astate, pipelined, flushing, ran>>
  <2>1. CASE Asked(c) /\ GiveUp(c)
    <3>1. /\ toCallee' = Append(toCallee, Msg("finish", qid[c], c)) /\ UNCHANGED calleeVars
          /\ qstate' = [qstate EXCEPT ![c] = "canceled"] /\ qid[c] \in Ids
      BY <2>1 DEF GiveUp, SendToCallee, Asked, calleeVars
    <3>2. Msg("finish", qid[c], c) \in Message /\ ~ IsRequest(Msg("finish", qid[c], c))
      BY <3>1, MessagesTyped, Kinds
    <3>3. \A d \in Calls : qstate'[d] = "unused" => qstate[d] = "unused"
      BY <1>0, <3>1 DEF CallerTypeOK
    <3> QED BY <1>5, <3>1, <3>2, <3>3
  <2>2. CASE UNCHANGED <<qstate, calleeVars, toCallee>>
    BY <1>5, <2>2
  <2> QED BY <1>7, <2>1, <2>2 DEF Cancel, CloseRoot, CloseDerived, calleeVars
<1>8. ASSUME NEW d \in Calls, NEW p \in Calls, HandleReturnReentered(d, p)
      PROVE  OnePlace' /\ UNCHANGED <<astate, pipelined, flushing, ran>>
  <2>1. PICK m \in Range(toCaller) :
          /\ questions[m.id] # None /\ qstate[d] = "unused"
          /\ qstate' = [qstate EXCEPT ![questions[m.id]] = "failed", ![d] = "waiting"]
          /\ toCallee' = toCallee \o
               << IF Asked(p) THEN PipelinedMsg(m.id, d, qid[p]) ELSE Msg("call", m.id, d),
                  Msg("finish", m.id, questions[m.id]) >>
          /\ UNCHANGED calleeVars
    BY <1>8 DEF HandleReturnReentered, calleeVars
  <2> DEFINE r == IF Asked(p) THEN PipelinedMsg(m.id, d, qid[p]) ELSE Msg("call", m.id, d)
             f == Msg("finish", m.id, questions[m.id])
             s == Append(toCallee, r)
  <2>2. m.id \in Ids /\ questions[m.id] \in Calls
    BY <1>0, <2>1, ArrivesTyped DEF CallerTypeOK
  <2>3. /\ r \in Message /\ IsRequest(r) /\ r.call = d
        /\ f \in Message /\ ~ IsRequest(f)
    BY <2>2, MessagesTyped, Kinds DEF Asked
  <2>4. toCallee' = toCallee \o <<r, f>> /\ toCallee \in Seq(Message)
    BY <1>0, <2>1 DEF TypeOK
  <2> HIDE DEF r, f
  <2>5. toCallee' = Append(s, f) /\ s \in Seq(Message)
    BY <2>3, <2>4
  <2> HIDE DEF s
  <2>6. d \notin CallsIn(toCallee) /\ astate[d] = "none"
    BY <2>1 DEF OnePlace
  <2>7. CallsIn(s) = CallsIn(toCallee) \cup {d} /\ RequestedOnce(s)
    BY <2>3, <2>4, <2>6, RequestAppended DEF OnePlace, s
  <2>8. {c \in Calls : IsRequest(f) /\ f.call = c} = {}
    BY <2>3
  <2>9. CallsIn(toCallee') = CallsIn(toCallee) \cup {d} /\ RequestedOnce(toCallee')
    BY <2>3, <2>5, <2>7, <2>8, RequestAppended
  <2>10. /\ qstate'[d] # "unused"
         /\ \A e \in Calls : qstate'[e] = "unused" => qstate[e] = "unused"
    BY <1>0, <2>1 DEF CallerTypeOK
  <2>11. UNCHANGED <<answers, astate, pipelined, flushing, ran>>
    BY <2>1 DEF calleeVars
  <2>12. \A e \in CallsIn(toCallee') : e \in Calls
    BY DEF CallsIn
  <2> QED BY <2>6, <2>9, <2>10, <2>11, <2>12 DEF OnePlace
<1>9. ASSUME CallerHandles PROVE OnePlace' /\ UNCHANGED <<astate, pipelined, flushing, ran>>
  <2>1. CASE HandleReturn
    <3>1. PICK m \in Range(toCaller) :
            /\ questions[m.id] # None
            /\ qstate' = [qstate EXCEPT ![questions[m.id]] = Settled(m.type)]
            /\ toCallee' = Append(toCallee, Msg("finish", m.id, questions[m.id]))
            /\ UNCHANGED calleeVars
      BY <2>1 DEF HandleReturn, SendToCallee, calleeVars
    <3>2. m.id \in Ids /\ questions[m.id] \in Calls
      BY <1>0, <3>1, ArrivesTyped DEF CallerTypeOK
    <3>3. /\ Msg("finish", m.id, questions[m.id]) \in Message
          /\ ~ IsRequest(Msg("finish", m.id, questions[m.id]))
      BY <3>2, MessagesTyped, Kinds
    <3>4. \A d \in Calls : qstate'[d] = "unused" => qstate[d] = "unused"
      BY <1>0, <3>1 DEF CallerTypeOK, Settled
    <3> QED BY <1>5, <3>1, <3>3, <3>4
  <2>2. ASSUME ShutdownCaller PROVE \A d \in Calls : qstate'[d] = "unused" => qstate[d] = "unused"
    BY <2>2 DEF ShutdownCaller, QuestionsFail
  <2>3. CASE ReturnForUnknownQuestion
    <3>1. PICK m \in Range(toCaller) :
            /\ toCallee' = Append(toCallee, Msg("abort", m.id, m.call))
            /\ ShutdownCaller /\ UNCHANGED calleeVars
      BY <2>3 DEF ReturnForUnknownQuestion, SendToCallee, calleeVars
    <3>2. /\ Msg("abort", m.id, m.call) \in Message
          /\ ~ IsRequest(Msg("abort", m.id, m.call))
      BY <1>0, ArrivesTyped, MessagesTyped, Kinds
    <3> QED BY <1>5, <2>2, <3>1, <3>2
  <2>4. CASE CallerAborted
    BY <1>5, <2>2, <2>4 DEF CallerAborted, calleeVars
  <2> QED BY <1>9, <2>1, <2>3, <2>4 DEF CallerHandles
<1> QED BY <1>2, <1>3, <1>4, <1>6, <1>7, <1>8, <1>9

-----------------------------------------------------------------------------
(* A call runs at most once: the callee's side.                            *)

\* What takes the first message off the stream and may enter its call.
LEMMA TakeKeepsOnePlace ==
  ASSUME Inv, OnePlace, NEW m \in Range(toCallee), Arrived(m), UNCHANGED qstate,
         \/ UNCHANGED <<answers, astate>>
         \/ /\ IsRequest(m)
            /\ answers' = [answers EXCEPT ![m.id] = m.call]
            /\ \E st \in AnswerState \ {"none"} : astate' = [astate EXCEPT ![m.call] = st]
         \/ ShutdownCallee
         \/ PopAnswer(m.id) /\ UNCHANGED astate
  PROVE  /\ OnePlace'
         /\ IsRequest(m) => astate[m.call] = "none"
         /\ \A c \in Calls : astate[c] # "none" => astate'[c] # "none"
<1>1. /\ toCallee \in Seq(Message) /\ toCallee # <<>> /\ m = Head(toCallee)
      /\ toCallee' = Tail(toCallee) /\ m.id \in Ids /\ m.call \in Calls
      /\ answers \in [Ids -> Calls \cup {None}] /\ astate \in [Calls -> AnswerState]
  BY ArrivesTyped DEF Inv, TypeOK, Arrived
<1>2. /\ RequestedOnce(toCallee') /\ CallsIn(toCallee') \subseteq CallsIn(toCallee)
      /\ IsRequest(m) => m.call \in CallsIn(toCallee) /\ m.call \notin CallsIn(toCallee')
  BY <1>1, RequestTaken DEF OnePlace
<1>3. /\ CallsIn(toCallee) \subseteq Calls /\ CallsIn(toCallee') \subseteq Calls
      /\ \A c \in CallsIn(toCallee) : qstate[c] # "unused" /\ astate[c] = "none"
      /\ \A c \in Calls : qstate[c] = "unused" => astate[c] = "none"
      /\ \A i \in Ids : answers[i] # None => astate[answers[i]] # "none"
  BY DEF OnePlace, CallsIn
<1>4. IsRequest(m) => astate[m.call] = "none" /\ qstate[m.call] # "unused"
  BY <1>2, <1>3
<1>5. CASE UNCHANGED <<answers, astate>>
  BY <1>2, <1>3, <1>4, <1>5 DEF OnePlace
<1>6. ASSUME IsRequest(m), answers' = [answers EXCEPT ![m.id] = m.call],
             NEW st \in AnswerState \ {"none"}, astate' = [astate EXCEPT ![m.call] = st]
      PROVE  OnePlace' /\ \A c \in Calls : astate[c] # "none" => astate'[c] # "none"
  <2>1. \A c \in Calls : astate'[c] = IF c = m.call THEN st ELSE astate[c]
    BY <1>1, <1>6
  <2>2. \A c \in CallsIn(toCallee') : qstate[c] # "unused" /\ astate'[c] = "none"
    BY <1>2, <1>3, <1>6, <2>1
  <2>3. \A i \in Ids : answers'[i] # None => astate'[answers'[i]] # "none"
    BY <1>1, <1>3, <1>6, <2>1
  <2> QED BY <1>2, <1>3, <1>4, <1>6, <2>1, <2>2, <2>3 DEF OnePlace
<1>7. ASSUME ShutdownCallee
      PROVE  OnePlace' /\ \A c \in Calls : astate[c] # "none" => astate'[c] # "none"
  <2>1. /\ \A i \in Ids : answers'[i] = None
        /\ \A c \in Calls : astate'[c] = IF InTable(c) THEN "closed" ELSE astate[c]
    BY <1>7 DEF ShutdownCallee
  <2>2. \A c \in Calls : InTable(c) => astate[c] # "none"
    BY <1>3, RpcCallsAssumption DEF InTable
  <2>3. \A c \in Calls : astate[c] = "none" <=> astate'[c] = "none"
    BY <2>1, <2>2
  <2> QED BY <1>2, <1>3, <2>1, <2>3 DEF OnePlace
<1>8. ASSUME PopAnswer(m.id), UNCHANGED astate
      PROVE  OnePlace' /\ \A c \in Calls : astate[c] # "none" => astate'[c] # "none"
  BY <1>1, <1>2, <1>3, <1>8 DEF OnePlace, PopAnswer
<1> QED BY <1>4, <1>5, <1>6, <1>7, <1>8

\* Methods that settle and queues that are emptied enter and forget no call.
LEMMA SettleKeepsOnePlace ==
  ASSUME OnePlace, UNCHANGED <<toCallee, qstate, answers>>,
         \A c \in Calls : astate[c] = "none" <=> astate'[c] = "none",
         \A i \in Ids : answers[i] \in Calls \cup {None}
  PROVE  OnePlace'
BY DEF OnePlace, CallsIn

\* What runs and what is queued once, when calls were entered elsewhere.
LEMMA EntriesKeepRunOnce ==
  ASSUME TypeOK, RunOnce, UNCHANGED <<ran, flushing, pipelined>>,
         \A c \in Calls : astate[c] # "none" => astate'[c] # "none"
  PROVE  RunOnce'
<1>1. /\ Range(ran) \subseteq Calls /\ Range(flushing) \subseteq Calls
      /\ \A p \in Calls : Range(pipelined[p]) \subseteq Calls
  BY RangeIsElements DEF TypeOK
<1> QED BY <1>1 DEF RunOnce

\* The call that arrives, or the one delivered from a queue, runs.
LEMMA RunKeepsRunOnce ==
  ASSUME TypeOK, RunOnce, NEW c \in Calls, c \notin Range(ran), ran' = Append(ran, c),
         \/ UNCHANGED flushing /\ c \notin Range(flushing)
         \/ flushing # <<>> /\ c = Head(flushing) /\ flushing' = Tail(flushing),
         \A p \in Calls : c \notin Range(pipelined[p]), UNCHANGED pipelined,
         astate'[c] # "none",
         \A d \in Calls : astate[d] # "none" => astate'[d] # "none"
  PROVE  RunOnce'
<1>1. /\ Range(ran) \subseteq Calls /\ Range(flushing) \subseteq Calls
      /\ \A p \in Calls : Range(pipelined[p]) \subseteq Calls
  BY RangeIsElements DEF TypeOK
<1>2. Range(ran') = Range(ran) \cup {c} /\ IsInjective(ran')
  BY RangeOfAppend DEF TypeOK, RunOnce
<1>3. Range(flushing') \subseteq Range(flushing) /\ c \notin Range(flushing') /\ IsInjective(flushing')
  <2>1. CASE UNCHANGED flushing /\ c \notin Range(flushing)
    BY <2>1 DEF RunOnce
  <2>2. CASE flushing # <<>> /\ c = Head(flushing) /\ flushing' = Tail(flushing)
    <3>1. flushing \in Seq(Calls) /\ IsInjective(flushing)
      BY DEF TypeOK, RunOnce
    <3> QED BY <2>2, <3>1, RangeOfTail
  <2> QED BY <2>1, <2>2
<1> QED BY <1>1, <1>2, <1>3 DEF RunOnce

\* AnswerEntry.queueCall: the call is in no other queue.
LEMMA QueueKeepsRunOnce ==
  ASSUME TypeOK, RunOnce, NEW c \in Calls, NEW p \in Calls, astate[c] = "none",
         QueueCall(p, c), UNCHANGED <<ran, flushing>>, astate'[c] # "none",
         \A d \in Calls : astate[d] # "none" => astate'[d] # "none"
  PROVE  RunOnce'
<1>1. /\ Range(ran) \subseteq Calls /\ Range(flushing) \subseteq Calls
      /\ \A q \in Calls : Range(pipelined[q]) \subseteq Calls
  BY RangeIsElements DEF TypeOK
<1>2. \A q \in Calls : c \notin Range(pipelined[q])
  BY DEF RunOnce
<1>3. c \notin Range(ran) /\ c \notin Range(flushing)
  BY DEF RunOnce
<1>4. /\ Range(Append(pipelined[p], c)) = Range(pipelined[p]) \cup {c}
      /\ IsInjective(Append(pipelined[p], c))
  BY <1>2, RangeOfAppend DEF TypeOK, RunOnce
<1>5. \A q \in Calls : pipelined'[q] = IF q = p THEN Append(pipelined[p], c) ELSE pipelined[q]
  BY DEF QueueCall, TypeOK
<1>6. \A q \in Calls : /\ IsInjective(pipelined'[q])
                       /\ Range(pipelined'[q]) = Range(pipelined[q]) \cup IF q = p THEN {c} ELSE {}
  BY <1>4, <1>5 DEF RunOnce
<1> QED BY <1>1, <1>2, <1>3, <1>6 DEF RunOnce

\* An answer's queue is handed over to be delivered, or to be rejected.
LEMMA EmptyKeepsRunOnce ==
  ASSUME TypeOK, RunOnce, NEW p \in Calls, pipelined' = [pipelined EXCEPT ![p] = <<>>],
         UNCHANGED ran, UNCHANGED flushing \/ (flushing = <<>> /\ flushing' = pipelined[p]),
         \A d \in Calls : astate[d] # "none" => astate'[d] # "none"
  PROVE  RunOnce'
<1>1. /\ Range(ran) \subseteq Calls /\ Range(flushing) \subseteq Calls
      /\ \A q \in Calls : Range(pipelined[q]) \subseteq Calls
  BY RangeIsElements DEF TypeOK
<1>2. \A q \in Calls : /\ IsInjective(pipelined'[q])
                       /\ Range(pipelined'[q]) = IF q = p THEN {} ELSE Range(pipelined[q])
  BY RangeOfEmpty DEF TypeOK, RunOnce
<1>3. /\ IsInjective(flushing')
      /\ Range(flushing') = Range(flushing) \/ Range(flushing') = Range(pipelined[p])
  BY DEF RunOnce
<1> QED BY <1>1, <1>2, <1>3 DEF RunOnce

\* The steps of the callee.
LEMMA CalleeKeepsRunInv ==
  ASSUME Inv, RunInv, CalleeHandles \/ \E c \in Calls : Fulfill(c) \/ Reject(c)
  PROVE  RunInv'
<1>0. /\ TypeOK /\ OnePlace /\ RunOnce
      /\ answers \in [Ids -> Calls \cup {None}] /\ astate \in [Calls -> AnswerState]
      /\ ran \in Seq(Calls) /\ flushing \in Seq(Calls)
      /\ \A i \in Ids : answers[i] \in Calls \cup {None}
  BY DEF Inv, RunInv, TypeOK
<1>1. ASSUME NEW m \in Range(toCallee), Arrived(m), UNCHANGED callerVars,
             UNCHANGED <<ran, flushing, pipelined>>,
             \/ UNCHANGED <<answers, astate>>
             \/ \E st \in AnswerState \ {"none"} : IsRequest(m) /\ NewEntry(m.call, m.id, st)
             \/ ShutdownCallee
             \/ PopAnswer(m.id) /\ UNCHANGED astate
      PROVE  RunInv'
  <2>1. OnePlace' /\ \A c \in Calls : astate[c] # "none" => astate'[c] # "none"
    BY <1>0, <1>1, TakeKeepsOnePlace DEF callerVars, NewEntry
  <2>2. RunOnce'
    BY <1>0, <1>1, <2>1, EntriesKeepRunOnce
  <2> QED BY <2>1, <2>2 DEF RunInv
<1>2. ASSUME NEW m \in Range(toCallee), Arrived(m), IsRequest(m), UNCHANGED callerVars,
             NEW st \in AnswerState \ {"none"}, NewEntry(m.call, m.id, st)
      PROVE  /\ OnePlace' /\ astate[m.call] = "none" /\ astate'[m.call] # "none"
             /\ \A c \in Calls : astate[c] # "none" => astate'[c] # "none"
             /\ m.call \in Calls
             /\ m.call \notin Range(ran) /\ m.call \notin Range(flushing)
             /\ \A p \in Calls : m.call \notin Range(pipelined[p])
  <2>1. /\ OnePlace' /\ astate[m.call] = "none"
        /\ \A c \in Calls : astate[c] # "none" => astate'[c] # "none"
    BY <1>0, <1>2, TakeKeepsOnePlace DEF callerVars, NewEntry
  <2>2. m.call \in Calls
    BY <1>0, ArrivesTyped
  <2>3. astate'[m.call] # "none"
    BY <1>0, <1>2, <2>2 DEF NewEntry
  <2>4. /\ m.call \notin Range(ran) /\ m.call \notin Range(flushing)
        /\ \A p \in Calls : m.call \notin Range(pipelined[p])
    BY <1>0, <2>1 DEF RunOnce
  <2> QED BY <2>1, <2>2, <2>3, <2>4
<1>3. CASE HandleBootstrap
  <2>1. PICK m \in Range(toCallee) :
          /\ Arrived(m) /\ m.type = "bootstrap"
          /\ \/ NewEntry(m.call, m.id, "ok") /\ ran' = Append(ran, m.call)
             \/ NewEntry(m.call, m.id, "err") /\ UNCHANGED ran
             \/ UNCHANGED <<answers, aid, astate, ran>>
          /\ UNCHANGED <<callerVars, pipelined, flushing>>
    BY <1>3 DEF HandleBootstrap
  <2>2. IsRequest(m) /\ {"ok", "err"} \subseteq AnswerState \ {"none"}
    BY <2>1 DEF IsRequest, AnswerState
  <2>3. CASE NewEntry(m.call, m.id, "ok") /\ ran' = Append(ran, m.call)
    BY <1>0, <1>2, <2>1, <2>2, <2>3, RunKeepsRunOnce DEF RunInv
  <2>4. CASE NewEntry(m.call, m.id, "err") /\ UNCHANGED ran
    BY <1>1, <2>1, <2>2, <2>4
  <2>5. CASE UNCHANGED <<answers, aid, astate, ran>>
    BY <1>1, <2>1, <2>5
  <2> QED BY <2>1, <2>3, <2>4, <2>5
<1>4. CASE HandleCallRun
  <2>1. PICK m \in Range(toCallee) :
          /\ Arrived(m) /\ IsCall(m)
          /\ NewEntry(m.call, m.id, "running") /\ ran' = Append(ran, m.call)
          /\ UNCHANGED <<callerVars, pipelined, flushing>>
    BY <1>4 DEF HandleCallRun, NewCall
  <2>2. IsRequest(m) /\ "running" \in AnswerState \ {"none"}
    BY <2>1 DEF IsRequest, AnswerState
  <2> QED BY <1>0, <1>2, <2>1, <2>2, RunKeepsRunOnce DEF RunInv
<1>5. CASE HandleCallOnError
  <2>1. PICK m \in Range(toCallee) :
          /\ Arrived(m) /\ IsCall(m) /\ NewEntry(m.call, m.id, "failing")
          /\ UNCHANGED <<callerVars, pipelined, flushing, ran>>
    BY <1>5 DEF HandleCallOnError, NewCall
  <2>2. IsRequest(m) /\ "failing" \in AnswerState \ {"none"}
    BY <2>1 DEF IsRequest, AnswerState
  <2> QED BY <1>1, <2>1, <2>2
<1>6. CASE HandleCallQueue
  <2>1. PICK m \in Range(toCallee) :
          /\ Arrived(m) /\ IsCall(m) /\ answers[m.on] # None
          /\ \/ NewEntry(m.call, m.id, "queued") /\ QueueCall(answers[m.on], m.call)
             \/ NewEntry(m.call, m.id, "err") /\ UNCHANGED pipelined
          /\ UNCHANGED <<callerVars, flushing, ran>>
    BY <1>6 DEF HandleCallQueue, NewCall
  <2>2. /\ IsRequest(m) /\ "queued" \in AnswerState \ {"none"} /\ "err" \in AnswerState \ {"none"}
        /\ answers[m.on] \in Calls
    BY <1>0, <2>1, ArrivesTyped DEF IsRequest, AnswerState
  <2>3. CASE NewEntry(m.call, m.id, "queued") /\ QueueCall(answers[m.on], m.call)
    BY <1>0, <1>2, <2>1, <2>2, <2>3, QueueKeepsRunOnce DEF RunInv
  <2>4. CASE NewEntry(m.call, m.id, "err") /\ UNCHANGED pipelined
    BY <1>1, <2>1, <2>2, <2>4
  <2> QED BY <2>1, <2>3, <2>4
<1>7. CASE HandleCallUnimplemented \/ HandleCallAbort \/ CalleeAborted \/ HandleFinish
  <2>1. PICK m \in Range(toCallee) :
          /\ Arrived(m) /\ UNCHANGED <<callerVars, ran, flushing, pipelined>>
          /\ \/ UNCHANGED <<answers, astate>>
             \/ ShutdownCallee
             \/ PopAnswer(m.id) /\ UNCHANGED astate
    BY <1>7 DEF HandleCallUnimplemented, HandleCallAbort, CalleeAborted, HandleFinish,
       NewCall, ShutdownCallee, calleeVars
  <2> QED BY <1>1, <2>1
<1>8. CASE FlushNext
  <2> DEFINE c == Head(flushing)
  <2>1. /\ flushing # <<>> /\ flushing' = Tail(flushing) /\ ran' = Append(ran, c)
        /\ astate' = [astate EXCEPT ![c] = IF @ = "queued" THEN "running" ELSE @]
        /\ UNCHANGED <<toCallee, qstate, answers, pipelined>>
    BY <1>8 DEF FlushNext, callerVars
  <2>2. c \in Calls /\ c \in Range(flushing)
    BY <1>0, <2>1, RangeOfTail
  <2>3. astate[c] # "none" /\ c \notin Range(ran) /\ \A p \in Calls : c \notin Range(pipelined[p])
    BY <1>0, <2>2 DEF RunOnce
  <2>4. \A d \in Calls : astate[d] = "none" <=> astate'[d] = "none"
    BY <1>0, <2>1, <2>2, <2>3
  <2> HIDE DEF c
  <2>5. OnePlace'
    BY <1>0, <2>1, <2>4, SettleKeepsOnePlace
  <2>6. c = Head(flushing) /\ astate'[c] # "none"
    BY <2>2, <2>3, <2>4 DEF c
  <2>7. RunOnce'
    BY <1>0, <2>1, <2>2, <2>3, <2>4, <2>6, RunKeepsRunOnce
  <2> QED BY <2>5, <2>7 DEF RunInv
<1>9. ASSUME NEW c \in Calls, NEW st \in AnswerState \ {"none"}, astate[c] # "none",
             astate' = [astate EXCEPT ![c] = st], pipelined' = [pipelined EXCEPT ![c] = <<>>],
             UNCHANGED <<callerVars, answers, ran, toCallee>>,
             UNCHANGED flushing \/ (flushing = <<>> /\ flushing' = pipelined[c])
      PROVE  RunInv'
  <2>1. \A d \in Calls : astate[d] = "none" <=> astate'[d] = "none"
    BY <1>0, <1>9
  <2>2. OnePlace'
    BY <1>0, <1>9, <2>1, SettleKeepsOnePlace DEF callerVars
  <2>3. RunOnce'
    BY <1>0, <1>9, <2>1, EmptyKeepsRunOnce
  <2> QED BY <2>2, <2>3 DEF RunInv
<1>10. ASSUME NEW c \in Calls, Fulfill(c) PROVE RunInv'
  <2>1. "ok" \in AnswerState \ {"none"}
    BY DEF AnswerState
  <2> QED BY <1>9, <1>10, <2>1 DEF Fulfill, StackEmpty
<1>11. ASSUME NEW c \in Calls, NEW rest, astate[c] # "none", RejectEntry(c, rest) PROVE RunInv'
  <2>1. "err" \in AnswerState \ {"none"}
    BY DEF AnswerState
  <2>2. /\ astate' = [astate EXCEPT ![c] = "err"] /\ pipelined' = [pipelined EXCEPT ![c] = <<>>]
        /\ UNCHANGED <<callerVars, answers, ran, toCallee>> /\ UNCHANGED flushing
    BY <1>11 DEF RejectEntry
  <2>3. astate[c] # "none"
    BY <1>11
  <2>4. UNCHANGED flushing \/ (flushing = <<>> /\ flushing' = pipelined[c])
    BY <2>2
  <2> QED BY <1>9, <2>1, <2>2, <2>3, <2>4
<1>12. ASSUME NEW c \in Calls, Reject(c) PROVE RunInv'
  BY <1>11, <1>12 DEF Reject
<1>13. CASE RejectNext
  <2>1. CASE astate[Head(rejecting)] = "queued"
    <3>1. Head(rejecting) \in Calls
      BY <1>0, <1>13, RangeOfTail DEF RejectNext, TypeOK
    <3> QED BY <1>11, <1>13, <2>1, <3>1 DEF RejectNext
  <2>2. CASE astate[Head(rejecting)] # "queued"
    <3>1. UNCHANGED <<callerVars, answers, astate, pipelined, flushing, ran, toCallee>>
      BY <1>13, <2>2 DEF RejectNext
    <3>2. OnePlace'
      BY <1>0, <3>1, SettleKeepsOnePlace DEF callerVars
    <3>3. RunOnce'
      BY <1>0, <3>1, EntriesKeepRunOnce
    <3> QED BY <3>2, <3>3 DEF RunInv
  <2> QED BY <2>1, <2>2
<1> QED
  BY <1>3, <1>4, <1>5, <1>6, <1>7, <1>8, <1>10, <1>12, <1>13 DEF CalleeHandles

\* Each call has one place and runs once, throughout.
LEMMA RunInvAlways == Spec => [](Inv /\ RunInv)
<1>1. Init => RunInv
  <2> SUFFICES ASSUME Init PROVE RunInv
    OBVIOUS
  <2>1. RequestedOnce(toCallee) /\ CallsIn(toCallee) = {}
    BY RangeOfEmpty DEF Init, RequestedOnce, CallsIn
  <2> QED BY <2>1, RangeOfEmpty DEF Init, RunInv, OnePlace, RunOnce
<1>2. Inv /\ RunInv /\ [Next]_vars => RunInv'
  <2> SUFFICES ASSUME Inv, RunInv, [Next]_vars PROVE RunInv'
    OBVIOUS
  <2>1. CASE UNCHANGED vars
    BY <2>1 DEF RunInv, OnePlace, RunOnce, CallsIn, vars
  <2>2. CASE CalleeHandles \/ \E c \in Calls : Fulfill(c) \/ Reject(c)
    BY <2>2, CalleeKeepsRunInv
  <2>3. ASSUME OnePlace', UNCHANGED <<astate, pipelined, flushing, ran>> PROVE RunInv'
    BY <2>3, EntriesKeepRunOnce DEF RunInv, Inv
  <2> QED BY <2>1, <2>2, <2>3, CallerKeepsOnePlace DEF Next, RunInv
<1> QED BY <1>1, <1>2, InvAlways, PTL DEF Spec

\* The callee executes a call at most once, whatever the connection does: a call
\* runs when it arrives or when flushQueue() pops it, and it is in one queue,
\* with its id reused, its question cancelled or the connection shut down.
THEOREM RunsOnce == Spec => []RunsAtMostOnce
<1>1. RunInv => RunsAtMostOnce
  BY DEF RunInv, RunOnce, RunsAtMostOnce
<1> QED BY <1>1, RunInvAlways, PTL

-----------------------------------------------------------------------------
(* A step after which the connection is undisturbed is one of these: the   *)
(* caller makes a call, or receives a Return; the callee enters a call it  *)
(* is sent, forgets an answer, ends a call, or delivers a queued one.      *)

AskStep(c, p, m) ==
  /\ m \in Message /\ IsRequest(m) /\ m.call = c
  /\ qstate[c] = "unused" /\ questions[m.id] = None
  /\ \/ m.type = "bootstrap" /\ p = None
     \/ m.type = "pipelined" /\ p \in Calls /\ Asked(p) /\ m.on = qid[p]
     \/ m.type = "call" /\ p \in Calls /\ qstate[p] = "resolved"
  /\ questions' = [questions EXCEPT ![m.id] = c]
  /\ qstate' = [qstate EXCEPT ![c] = "waiting"]
  /\ made' = Append(made, [through |-> p, call |-> c])
  /\ toCallee' = Append(toCallee, m)
  /\ UNCHANGED <<got, callerOpen, calleeVars, toCaller>>

ReturnStep(m) ==
  /\ toCaller # <<>> /\ m = Head(toCaller) /\ toCaller' = Tail(toCaller) /\ IsReturn(m)
  /\ questions' = [questions EXCEPT ![m.id] = None]
  /\ qstate' = [qstate EXCEPT ![m.call] = Settled(m.type)]
  /\ got' = [got EXCEPT ![m.call] = m.call]
  /\ toCallee' = Append(toCallee, Msg("finish", m.id, m.call))
  /\ UNCHANGED <<made, callerOpen, calleeVars>>

\* The state an entry gets: done with a Return, or unfinished.
EnterStep(m, st) ==
  /\ CalleeIdle /\ Arrived(m) /\ IsRequest(m) /\ NewEntry(m.call, m.id, st)
  /\ \/ /\ st = "ok" /\ toCaller' = Append(toCaller, Msg("results", m.id, m.call))
        /\ m.type = "bootstrap" /\ ran' = Append(ran, m.call) /\ UNCHANGED pipelined
     \/ /\ st = "running" /\ UNCHANGED toCaller
        /\ \/ m.type = "call"
           \/ m.type = "pipelined" /\ answers[m.on] # None /\ Done(answers[m.on])
        /\ ran' = Append(ran, m.call) /\ UNCHANGED pipelined
     \/ /\ st = "failing" /\ UNCHANGED <<toCaller, ran, pipelined>>
     \/ /\ st = "queued" /\ m.type = "pipelined"
        /\ answers[m.on] # None /\ astate[answers[m.on]] \in Unfinished
        /\ QueueCall(answers[m.on], m.call) /\ UNCHANGED <<toCaller, ran>>
     \/ /\ st = "err" /\ toCaller' = Append(toCaller, Msg("exception", m.id, m.call))
        /\ UNCHANGED <<ran, pipelined>>
  /\ UNCHANGED <<callerVars, flushing, calleeOpen>>

ForgetStep(m) ==
  /\ Arrived(m) /\ m.type = "finish" /\ PopAnswer(m.id)
  /\ UNCHANGED <<callerVars, aid, astate, pipelined, flushing, calleeOpen, ran, toCaller>>

EndStep(c, st) ==
  /\ astate[c] \in Unfinished /\ astate' = [astate EXCEPT ![c] = st]
  /\ pipelined' = [pipelined EXCEPT ![c] = <<>>]
  /\ \/ /\ st = "ok" /\ astate[c] = "running" /\ flushing = <<>> /\ flushing' = pipelined[c]
        /\ toCaller' = Append(toCaller, Msg("results", aid[c], c))
     \/ /\ st = "err" /\ UNCHANGED flushing
        /\ toCaller' = Append(toCaller, Msg("exception", aid[c], c))
  /\ UNCHANGED <<callerVars, answers, aid, calleeOpen, ran, toCallee>>

\* The caller only notes a close, or the callee skips a call it has closed.
QuietStep ==
  UNCHANGED <<questions, qid, qstate, got, made, callerOpen, answers, aid, astate, pipelined,
              flushing, calleeOpen, ran, toCallee, toCaller>>

FaultlessStep ==
  \/ \E c \in Calls, p \in Calls \cup {None}, m \in Message : AskStep(c, p, m)
  \/ \E c, p \in Calls : CallBroken(c, p)
  \/ \E m \in Range(toCaller) : ReturnStep(m)
  \/ \E m \in Range(toCallee), st \in {"ok", "running", "failing", "queued", "err"} : EnterStep(m, st)
  \/ \E m \in Range(toCallee) : ForgetStep(m)
  \/ \E c \in Calls, st \in {"ok", "err"} : EndStep(c, st)
  \/ FlushNext
  \/ QuietStep

\* What holds of both sides while the connection is undisturbed.
ConnInv == Inv /\ RunInv /\ IdInv /\ MadeOK /\ ResolvedOK /\ TargetsOK

\* Nothing comes before the first message.
LEMMA NothingBeforeFirst ==
  ASSUME NEW s \in Seq(Message), NEW i, NEW c
  PROVE  ~ FinishedBefore(s, 1, i) /\ ~ RequestedBefore(s, 1, c, i)
BY LenProperties DEF FinishedBefore, RequestedBefore

\* The message that arrives is the first of the stream.
LEMMA FirstArrives ==
  ASSUME TypeOK, NEW m, Arrived(m)
  PROVE  /\ toCallee \in Seq(Message) /\ toCallee # <<>> /\ 1 \in DOMAIN toCallee
         /\ m = toCallee[1] /\ m \in Range(toCallee) /\ m \in Message
         /\ m.id \in Ids /\ m.call \in Calls /\ m.on \in Ids
<1>1. toCallee \in Seq(Message) /\ toCallee # <<>> /\ m = Head(toCallee)
  BY DEF TypeOK, Arrived
<1>2. m = toCallee[1] /\ DOMAIN toCallee = 1..Len(toCallee) /\ Len(toCallee) \in Nat \ {0} /\ m \in Message
  BY <1>1, HeadTailProperties, LenProperties, EmptySeq
<1>3. 1 \in DOMAIN toCallee
  BY <1>2
<1> QED BY <1>1, <1>2, <1>3 DEF Range, Message

\* The request that arrives finds its id free and its target known.
LEMMA RequestArrives ==
  ASSUME ConnInv, NEW m, Arrived(m), IsRequest(m)
  PROVE  /\ answers[m.id] = None /\ questions[m.id] = m.call /\ astate[m.call] = "none"
         /\ m.call \in CallsIn(toCallee)
         /\ \E i \in DOMAIN made :
              /\ made[i].call = m.call
              /\ m.type = "pipelined" => made[i].through # None /\ answers[m.on] = made[i].through
              /\ m.type = "call" => made[i].through # None /\ Done(made[i].through)
              /\ m.type = "bootstrap" => made[i].through = None
<1>1. /\ toCallee \in Seq(Message) /\ 1 \in DOMAIN toCallee
      /\ m = toCallee[1] /\ m \in Range(toCallee) /\ m.call \in Calls
  BY FirstArrives DEF ConnInv, Inv
<1>2. /\ ~ FinishedBefore(toCallee, 1, m.id)
      /\ \A p : ~ RequestedBefore(toCallee, 1, p, m.on)
  BY <1>1, NothingBeforeFirst
<1>3. m.call \in CallsIn(toCallee)
  BY <1>1 DEF CallsIn
<1>4. astate[m.call] = "none"
  BY <1>3 DEF ConnInv, RunInv, OnePlace
<1>5. answers[m.id] = None /\ questions[m.id] = m.call
  BY <1>1, <1>2 DEF ConnInv, IdInv, RequestsOK
<1>6. PICK i \in DOMAIN made : made[i].call = m.call
  BY <1>3 DEF ConnInv, MadeOK
<1>7. TargetOK(toCallee, 1, m, made[i].through)
  BY <1>1, <1>6 DEF ConnInv, TargetsOK
<1> QED BY <1>2, <1>3, <1>4, <1>5, <1>6, <1>7 DEF TargetOK

\* The Return that arrives is for the question under its id.
LEMMA ReturnArrives ==
  ASSUME ConnInv, NEW m \in Range(toCaller), IsReturn(m)
  PROVE  /\ m.id \in Ids /\ m.call \in Calls /\ questions[m.id] = m.call
         /\ answers[m.id] = m.call /\ Done(m.call)
BY ArrivesTyped DEF ConnInv, Inv, IdInv, ReturnsOK

\* Conn.newQuestion sends a request of the call it makes.
LEMMA NewQuestionAsks ==
  ASSUME TypeOK, QuestionTableOK, NEW c \in Calls, NEW p, NEW m \in Message,
         NewQuestion(c, p, m), m.id = IdToUse, IsRequest(m), m.call = c, qstate[c] = "unused",
         UNCHANGED <<got, callerOpen, calleeVars, toCaller>>,
         \/ m.type = "bootstrap" /\ p = None
         \/ m.type = "pipelined" /\ p \in Calls /\ Asked(p) /\ m.on = qid[p]
         \/ m.type = "call" /\ p \in Calls /\ qstate[p] = "resolved"
  PROVE  AskStep(c, p, m)
<1>1. TableInv
  BY DEF TypeOK, TableInv, CallerTypeOK
<1>2. questions[m.id] = None
  BY <1>1, IdToUseIsFree DEF NewQuestion
<1> QED BY <1>2 DEF AskStep, NewQuestion, SendToCallee

\* The caller's steps.  No Abort is in flight, and every Return is for a
\* question: no protocol error is found.
LEMMA CallerStepsFaultless ==
  ASSUME Undisturbed', ConnInv,
         \/ \E c \in Calls : Bootstrap(c) \/ Cancel(c) \/ CloseRoot(c) \/ CloseDerived(c)
         \/ \E c, p \in Calls : \/ PipelineCall(c, p) \/ ImportCall(c, p)
                                \/ CallBroken(c, p) \/ HandleReturnReentered(c, p)
         \/ CallerHandles
  PROVE  FaultlessStep
<1>0. TypeOK /\ QuestionTableOK /\ NoAborts
  BY DEF ConnInv, Inv, IdInv
<1>1. ASSUME NEW c \in Calls, Bootstrap(c) PROVE FaultlessStep
  <2> DEFINE m == Msg("bootstrap", IdToUse, c)
  <2>1. /\ NewQuestion(c, None, m) /\ IdToUse \in Ids /\ qstate[c] = "unused"
        /\ UNCHANGED <<got, callerOpen, calleeVars, toCaller>>
    BY <1>1 DEF Bootstrap, NewQuestion
  <2>2. m \in Message /\ IsRequest(m) /\ m.call = c /\ m.id = IdToUse /\ m.type = "bootstrap"
    BY <2>1, MessagesTyped, Kinds DEF Msg
  <2> HIDE DEF m
  <2>3. AskStep(c, None, m)
    BY <1>0, <2>1, <2>2, NewQuestionAsks
  <2> QED BY <2>2, <2>3 DEF FaultlessStep
<1>2. ASSUME NEW c \in Calls, NEW p \in Calls, PipelineCall(c, p) PROVE FaultlessStep
  <2> DEFINE m == PipelinedMsg(IdToUse, c, qid[p])
  <2>1. /\ NewQuestion(c, p, m) /\ IdToUse \in Ids /\ qid[p] \in Ids
        /\ qstate[c] = "unused" /\ Asked(p)
        /\ UNCHANGED <<got, callerOpen, calleeVars, toCaller>>
    BY <1>2 DEF PipelineCall, NewQuestion, Asked
  <2>2. /\ m \in Message /\ IsRequest(m) /\ m.call = c /\ m.id = IdToUse
        /\ m.type = "pipelined" /\ m.on = qid[p]
    BY <2>1, MessagesTyped, Kinds DEF PipelinedMsg
  <2> HIDE DEF m
  <2>3. AskStep(c, p, m)
    BY <1>0, <2>1, <2>2, NewQuestionAsks
  <2> QED BY <2>2, <2>3 DEF FaultlessStep
<1>3. ASSUME NEW c \in Calls, NEW p \in Calls, ImportCall(c, p) PROVE FaultlessStep
  <2> DEFINE m == Msg("call", IdToUse, c)
  <2>1. /\ NewQuestion(c, p, m) /\ IdToUse \in Ids
        /\ qstate[c] = "unused" /\ qstate[p] = "resolved"
        /\ UNCHANGED <<got, callerOpen, calleeVars, toCaller>>
    BY <1>3 DEF ImportCall, NewQuestion
  <2>2. m \in Message /\ IsRequest(m) /\ m.call = c /\ m.id = IdToUse /\ m.type = "call"
    BY <2>1, MessagesTyped, Kinds DEF Msg
  <2> HIDE DEF m
  <2>3. AskStep(c, p, m)
    BY <1>0, <2>1, <2>2, NewQuestionAsks
  <2> QED BY <2>2, <2>3 DEF FaultlessStep
<1>4. CASE HandleReturn
  <2>1. PICK m \in Range(toCaller) :
          /\ Received(m) /\ IsReturn(m) /\ PopQuestion(questions[m.id])
          /\ questions[m.id] # None
          /\ qstate' = [qstate EXCEPT ![questions[m.id]] = Settled(m.type)]
          /\ got' = [got EXCEPT ![questions[m.id]] = m.call]
          /\ SendToCallee(Msg("finish", m.id, questions[m.id]))
          /\ UNCHANGED <<made, callerOpen, calleeVars>>
    BY <1>4 DEF HandleReturn
  <2>2. questions[m.id] = m.call /\ m.id \in Ids
    BY <2>1, ReturnArrives
  <2>3. qid[m.call] = m.id
    BY <1>0, <2>1, <2>2 DEF QuestionTableOK
  <2>4. ReturnStep(m)
    BY <2>1, <2>2, <2>3 DEF ReturnStep, PopQuestion, SendToCallee, Received
  <2> QED BY <2>4 DEF FaultlessStep
<1>5. ~ ReturnForUnknownQuestion
  <2>1. ASSUME NEW m \in Range(toCaller), IsReturn(m) PROVE questions[m.id] # None
    BY <2>1, ReturnArrives, RpcCallsAssumption
  <2> QED BY <2>1 DEF ReturnForUnknownQuestion
<1>6. ~ CallerAborted
  BY <1>0 DEF NoAborts, CallerAborted
<1>7. ASSUME NEW c \in Calls, Asked(c) PROVE ~ GiveUp(c)
  <2> SUFFICES ASSUME GiveUp(c) PROVE FALSE
    OBVIOUS
  <2>1. qstate \in [Calls -> QuestionState] /\ qstate' = [qstate EXCEPT ![c] = "canceled"]
    BY <1>0 DEF TypeOK, GiveUp
  <2> QED BY <2>1 DEF Undisturbed
<1>8. ASSUME NEW c \in Calls, Cancel(c) \/ CloseRoot(c) \/ CloseDerived(c) PROVE QuietStep
  BY <1>7, <1>8 DEF Cancel, CloseRoot, CloseDerived, QuietStep, calleeVars
<1>9. ASSUME NEW d \in Calls, NEW p \in Calls PROVE ~ HandleReturnReentered(d, p)
  BY DEF HandleReturnReentered, Undisturbed
<1> QED
  BY <1>1, <1>2, <1>3, <1>4, <1>5, <1>6, <1>8, <1>9
  DEF CallerHandles, FaultlessStep

\* The callee's steps.  The id of every Call is free and its target is in the
\* answer table.
LEMMA CalleeStepsFaultless ==
  ASSUME Undisturbed', ConnInv, CalleeHandles \/ \E c \in Calls : Fulfill(c) \/ Reject(c)
  PROVE  FaultlessStep
<1>0. TypeOK /\ NoAborts /\ calleeOpen
  BY DEF ConnInv, Inv, IdInv, NoAborts
<1>1. CASE HandleBootstrap
  <2>1. PICK m \in Range(toCallee) :
          /\ CalleeIdle /\ Arrived(m) /\ m.type = "bootstrap"
          /\ answers[m.id] = None =>
               \/ /\ NewEntry(m.call, m.id, "ok") /\ ran' = Append(ran, m.call)
                  /\ toCaller' = Append(toCaller, Msg("results", m.id, m.call))
               \/ /\ NewEntry(m.call, m.id, "err") /\ UNCHANGED ran
                  /\ toCaller' = Append(toCaller, Msg("exception", m.id, m.call))
          /\ UNCHANGED <<callerVars, pipelined, flushing, calleeOpen>>
    BY <1>1 DEF HandleBootstrap
  <2>2. IsRequest(m)
    BY <2>1 DEF IsRequest
  <2>3. answers[m.id] = None
    BY <2>1, <2>2, RequestArrives
  <2>4. EnterStep(m, "ok") \/ EnterStep(m, "err")
    BY <2>1, <2>2, <2>3 DEF EnterStep
  <2> QED BY <2>4 DEF FaultlessStep
<1>2. CASE HandleCallRun
  <2>1. PICK m \in Range(toCallee) :
          /\ NewCall(m)
          /\ \/ m.type = "call"
             \/ m.type = "pipelined" /\ answers[m.on] # None /\ astate[answers[m.on]] = "ok"
          /\ NewEntry(m.call, m.id, "running") /\ ran' = Append(ran, m.call)
          /\ UNCHANGED <<callerVars, pipelined, flushing, calleeOpen, toCaller>>
    BY <1>2 DEF HandleCallRun
  <2>2. EnterStep(m, "running")
    BY <2>1 DEF EnterStep, NewCall, IsRequest, Done
  <2> QED BY <2>2 DEF FaultlessStep
<1>3. CASE HandleCallOnError
  <2>1. PICK m \in Range(toCallee) :
          /\ NewCall(m) /\ NewEntry(m.call, m.id, "failing")
          /\ UNCHANGED <<callerVars, pipelined, flushing, calleeOpen, ran, toCaller>>
    BY <1>3 DEF HandleCallOnError
  <2>2. EnterStep(m, "failing")
    BY <2>1 DEF EnterStep, NewCall, IsRequest
  <2> QED BY <2>2 DEF FaultlessStep
<1>4. CASE HandleCallQueue
  <2>1. PICK m \in Range(toCallee) :
          /\ NewCall(m) /\ m.type = "pipelined"
          /\ answers[m.on] # None /\ astate[answers[m.on]] \in Unfinished
          /\ \/ /\ NewEntry(m.call, m.id, "queued") /\ QueueCall(answers[m.on], m.call)
                /\ UNCHANGED toCaller
             \/ /\ NewEntry(m.call, m.id, "err") /\ UNCHANGED pipelined
                /\ toCaller' = Append(toCaller, Msg("exception", m.id, m.call))
          /\ UNCHANGED <<callerVars, flushing, calleeOpen, ran>>
    BY <1>4 DEF HandleCallQueue
  <2>2. EnterStep(m, "queued") \/ EnterStep(m, "err")
    BY <2>1 DEF EnterStep, NewCall, IsRequest
  <2> QED BY <2>2 DEF FaultlessStep
<1>5. ~ HandleCallUnimplemented
  BY DEF Undisturbed, HandleCallUnimplemented
<1>6. ~ HandleCallAbort
  <2> SUFFICES ASSUME NEW m \in Range(toCallee), Arrived(m), IsCall(m)
               PROVE  answers[m.id] = None /\ (m.type = "pipelined" => answers[m.on] # None)
    BY DEF HandleCallAbort
  <2>1. IsRequest(m)
    BY DEF IsRequest
  <2> QED BY <2>1, RequestArrives
<1>7. ~ CalleeAborted
  BY <1>0 DEF NoAborts, CalleeAborted
<1>8. CASE HandleFinish
  BY <1>8 DEF HandleFinish, FaultlessStep, ForgetStep
<1>9. CASE FlushNext
  BY <1>9 DEF FaultlessStep
<1>10. ASSUME NEW c \in Calls, Fulfill(c) PROVE FaultlessStep
  <2>1. EndStep(c, "ok")
    BY <1>0, <1>10 DEF Fulfill, EndStep, StackEmpty, Unfinished, Send
  <2> QED BY <2>1 DEF FaultlessStep
<1>11. ASSUME NEW c \in Calls, NEW rest, astate[c] \in Unfinished, RejectEntry(c, rest)
       PROVE  FaultlessStep
  <2>1. EndStep(c, "err")
    BY <1>0, <1>11 DEF RejectEntry, EndStep, Unfinished, Send
  <2> QED BY <2>1 DEF FaultlessStep
<1>12. ASSUME NEW c \in Calls, Reject(c) PROVE FaultlessStep
  BY <1>11, <1>12 DEF Reject, Unfinished
<1>13. CASE RejectNext
  <2>1. Head(rejecting) \in Calls
    BY <1>0, <1>13, RangeOfTail DEF RejectNext, TypeOK
  <2>2. CASE astate[Head(rejecting)] = "queued"
    BY <1>11, <1>13, <2>1, <2>2 DEF RejectNext, Unfinished
  <2>3. CASE astate[Head(rejecting)] # "queued"
    BY <1>13, <2>3 DEF RejectNext, FaultlessStep, QuietStep, callerVars
  <2> QED BY <2>2, <2>3
<1> QED
  BY <1>1, <1>2, <1>3, <1>4, <1>5, <1>6, <1>7, <1>8, <1>9, <1>10, <1>12, <1>13
  DEF CalleeHandles

LEMMA StepsFaultless ==
  ASSUME Undisturbed', ConnInv, [Next]_vars
  PROVE  FaultlessStep
<1>1. CASE UNCHANGED vars
  BY <1>1 DEF vars, QuietStep, FaultlessStep
<1> QED BY <1>1, CallerStepsFaultless, CalleeStepsFaultless DEF Next

-----------------------------------------------------------------------------
(* What is before what, when a message is sent and when one arrives.       *)

\* t is s with the message m sent last, at position n.
Sent(s, t, m, n) ==
  /\ t \in Seq(Message) /\ Range(t) = Range(s) \cup {m}
  /\ DOMAIN t = DOMAIN s \cup {n} /\ n \notin DOMAIN s /\ t[n] = m
  /\ \A k \in DOMAIN s : k \in Int /\ k < n /\ t[k] = s[k] /\ s[k] \in Range(s)
  /\ n \in Int
  /\ \A k \in DOMAIN s : \A c, i :
       /\ FinishedBefore(t, k, i) <=> FinishedBefore(s, k, i)
       /\ RequestedBefore(t, k, c, i) <=> RequestedBefore(s, k, c, i)
  /\ \A c, i :
       /\ FinishedBefore(t, n, i) <=> \E f \in Range(s) : f.type = "finish" /\ f.id = i
       /\ RequestedBefore(t, n, c, i)
            <=> \E r \in Range(s) : IsRequest(r) /\ r.call = c /\ r.id = i

\* t is s without its first message m.
Taken(s, t, m) ==
  /\ t \in Seq(Message) /\ m \in Message /\ m = s[1] /\ 1 \in DOMAIN s
  /\ Range(s) = Range(t) \cup {m}
  /\ \A k \in DOMAIN t :
       k \in Int /\ k + 1 \in DOMAIN s /\ k + 1 # 1 /\ t[k] = s[k + 1] /\ t[k] \in Range(t)
  /\ \A k \in DOMAIN s : k # 1 => k - 1 \in DOMAIN t /\ k = (k - 1) + 1
  /\ \A k \in DOMAIN t : \A c, i :
       /\ FinishedBefore(s, k + 1, i)
            <=> FinishedBefore(t, k, i) \/ (m.type = "finish" /\ m.id = i)
       /\ RequestedBefore(s, k + 1, c, i)
            <=> RequestedBefore(t, k, c, i) \/ (IsRequest(m) /\ m.call = c /\ m.id = i)

LEMMA StreamAppended ==
  ASSUME NEW s \in Seq(Message), NEW m \in Message
  PROVE  Sent(s, Append(s, m), m, Len(s) + 1)
<1> DEFINE t == Append(s, m)
           n == Len(s) + 1
<1>1. /\ t \in Seq(Message) /\ Len(t) = n /\ Len(s) \in Nat
      /\ \A k \in 1..Len(s) : t[k] = s[k]
      /\ t[n] = m
      /\ DOMAIN s = 1..Len(s) /\ DOMAIN t = 1..n
  BY AppendProperties, LenProperties
<1>2. Range(t) = Range(s) \cup {m}
  BY RangeOfAppend
<1>3. \A r : r \in Range(s) <=> \E k \in DOMAIN s : s[k] = r
  BY DEF Range
<1>4. DOMAIN t = DOMAIN s \cup {n} /\ n \notin DOMAIN s /\ n \in Int
  BY <1>1
<1>5. \A k \in DOMAIN s : k \in Int /\ k < n /\ ~(n < k) /\ t[k] = s[k]
  BY <1>1
<1> HIDE DEF t, n
<1>6. ASSUME NEW k \in DOMAIN s, NEW c, NEW i
      PROVE  /\ FinishedBefore(t, k, i) <=> FinishedBefore(s, k, i)
             /\ RequestedBefore(t, k, c, i) <=> RequestedBefore(s, k, c, i)
  BY <1>4, <1>5 DEF FinishedBefore, RequestedBefore
<1>7. ASSUME NEW c, NEW i
      PROVE  /\ FinishedBefore(t, n, i) <=> \E f \in Range(s) : f.type = "finish" /\ f.id = i
             /\ RequestedBefore(t, n, c, i)
                  <=> \E r \in Range(s) : IsRequest(r) /\ r.call = c /\ r.id = i
  <2>1. ~(n < n)
    BY <1>4
  <2> QED BY <1>3, <1>4, <1>5, <2>1 DEF FinishedBefore, RequestedBefore
<1>8. \A k \in DOMAIN s : s[k] \in Range(s)
  BY <1>3
<1>9. Sent(s, t, m, n)
  BY <1>1, <1>2, <1>3, <1>4, <1>5, <1>6, <1>7, <1>8 DEF Sent
<1> QED BY <1>9 DEF t, n

LEMMA StreamTaken ==
  ASSUME NEW s \in Seq(Message), s # <<>>
  PROVE  Taken(s, Tail(s), Head(s))
<1> DEFINE t == Tail(s)
           m == Head(s)
<1>1. /\ t \in Seq(Message) /\ m = s[1] /\ m \in Message
      /\ Len(t) = Len(s) - 1 /\ Len(s) \in Nat \ {0}
      /\ DOMAIN s = 1..Len(s) /\ DOMAIN t = 1..(Len(s) - 1)
      /\ \A k \in 1..(Len(s) - 1) : t[k] = s[k + 1]
  BY HeadTailProperties, EmptySeq, LenProperties
<1>2. Range(s) = Range(t) \cup {m}
  BY RangeOfTail
<1>3. \A k \in DOMAIN t : k \in Int /\ k + 1 \in DOMAIN s /\ k + 1 # 1 /\ t[k] = s[k + 1]
  BY <1>1
<1>4. \A k \in DOMAIN s : k # 1 => k - 1 \in DOMAIN t /\ k = (k - 1) + 1 /\ t[k - 1] = s[k]
  BY <1>1
<1>5. 1 \in DOMAIN s /\ \A k \in DOMAIN s : k \in Int
  BY <1>1
<1>6. \A k \in DOMAIN t : t[k] \in Range(t)
  BY DEF Range
<1> HIDE DEF t, m
<1>7. ASSUME NEW k \in DOMAIN t, NEW c, NEW i
      PROVE  /\ FinishedBefore(s, k + 1, i)
                  <=> FinishedBefore(t, k, i) \/ (m.type = "finish" /\ m.id = i)
             /\ RequestedBefore(s, k + 1, c, i)
                  <=> RequestedBefore(t, k, c, i) \/ (IsRequest(m) /\ m.call = c /\ m.id = i)
  <2>1. k \in Int /\ 1 < k + 1
    BY <1>1
  <2>2. \A j \in DOMAIN t : j \in Int /\ (j < k <=> j + 1 < k + 1)
    BY <1>3, <2>1
  <2>3. \A j \in DOMAIN s : j # 1 /\ j < k + 1 => j - 1 \in DOMAIN t /\ j - 1 < k /\ t[j - 1] = s[j]
    BY <1>4, <1>5, <2>1
  <2>4. \A j \in DOMAIN t : j < k => j + 1 \in DOMAIN s /\ j + 1 < k + 1 /\ t[j] = s[j + 1]
    BY <1>3, <2>2
  <2>5. m = s[1] /\ 1 \in DOMAIN s
    BY <1>1, <1>5
  <2>6. FinishedBefore(s, k + 1, i)
          <=> FinishedBefore(t, k, i) \/ (m.type = "finish" /\ m.id = i)
    BY <2>1, <2>3, <2>4, <2>5 DEF FinishedBefore
  <2>7. RequestedBefore(s, k + 1, c, i)
          <=> RequestedBefore(t, k, c, i) \/ (IsRequest(m) /\ m.call = c /\ m.id = i)
    BY <2>1, <2>3, <2>4, <2>5 DEF RequestedBefore
  <2> QED BY <2>6, <2>7
<1>8. Taken(s, t, m)
  BY <1>1, <1>2, <1>3, <1>4, <1>5, <1>6, <1>7 DEF Taken
<1> QED BY <1>8 DEF t, m

-----------------------------------------------------------------------------
(* Every step keeps the ids in order.                                      *)

\* Conn.newQuestion: the id is in no table, or its Finish goes ahead.
LEMMA AskKeepsIds ==
  ASSUME ConnInv, NEW c \in Calls, NEW p, NEW m, AskStep(c, p, m)
  PROVE  IdInv'
<1> DEFINE s == toCallee
           n == Len(s) + 1
           i == m.id
<1>1. /\ m \in Message /\ IsRequest(m) /\ m.call = c /\ i \in Ids /\ m.type # "finish" /\ m.type # "abort"
      /\ questions[i] = None /\ questions' = [questions EXCEPT ![i] = c]
      /\ toCallee' = Append(s, m) /\ s \in Seq(Message)
      /\ UNCHANGED <<answers, aid, astate, callerOpen, calleeOpen, toCaller>>
      /\ questions \in [Ids -> Calls \cup {None}]
      /\ \A x \in Range(s) : x.id \in Ids /\ x.call \in Calls
      /\ \A x \in Range(toCaller) : x.id \in Ids /\ x.call \in Calls
  <2>1. m \in Message /\ IsRequest(m) /\ m.call = c
    BY DEF AskStep
  <2>2. m.id \in Ids /\ m.type # "finish" /\ m.type # "abort"
    BY <2>1 DEF Message, IsRequest, IsCall
  <2> QED BY <2>1, <2>2, ArrivesTyped DEF AskStep, ConnInv, Inv, TypeOK, calleeVars
<1>2. /\ Range(toCallee') = Range(s) \cup {m}
      /\ DOMAIN toCallee' = DOMAIN s \cup {n} /\ n \notin DOMAIN s /\ toCallee'[n] = m
      /\ \A k \in DOMAIN s : toCallee'[k] = s[k] /\ s[k] \in Range(s)
      /\ \A k \in DOMAIN s : \A x : FinishedBefore(toCallee', k, x) <=> FinishedBefore(s, k, x)
      /\ \A x : FinishedBefore(toCallee', n, x) <=> \E f \in Range(s) : f.type = "finish" /\ f.id = x
  <2>1. Sent(s, toCallee', m, n)
    BY <1>1, StreamAppended
  <2> QED BY <2>1 DEF Sent
<1>3. RunInv /\ IdInv /\ c # None /\ None \notin Calls
  BY RpcCallsAssumption DEF ConnInv
<1>4. \A x \in Ids : questions'[x] = IF x = i THEN c ELSE questions[x]
  BY <1>1
<1>5. astate[c] = "none"
  BY <1>3 DEF RunInv, OnePlace, AskStep
<1> HIDE DEF s, n, i
<1>6. \A x \in Range(toCaller) : IsReturn(x) => x.id # i
  BY <1>1, <1>3 DEF IdInv, ReturnsOK
<1>7. NoAborts'
  BY <1>1, <1>2, <1>3 DEF IdInv, NoAborts, s
<1>8. RequestsOK'
  <2>1. ASSUME NEW j \in DOMAIN s, IsRequest(s[j])
        PROVE  /\ questions'[s[j].id] = s[j].call
               /\ answers'[s[j].id] = None \/ FinishedBefore(toCallee', j, s[j].id)
    <3>1. s[j].id \in Ids /\ s[j].call \in Calls
      BY <1>1, <1>2, <2>1
    <3>2. /\ questions[s[j].id] = s[j].call
          /\ answers[s[j].id] = None \/ FinishedBefore(s, j, s[j].id)
      BY <1>3, <2>1 DEF IdInv, RequestsOK, s
    <3>3. s[j].id # i
      BY <1>1, <1>3, <3>1, <3>2
    <3> QED BY <1>1, <1>2, <1>4, <2>1, <3>1, <3>2, <3>3
  <2>2. questions'[i] = c /\ (answers'[i] = None \/ FinishedBefore(toCallee', n, i))
    BY <1>1, <1>2, <1>3, <1>4 DEF IdInv, TablesOK, s
  <2> QED BY <1>1, <1>2, <2>1, <2>2 DEF RequestsOK, i
<1>9. FinishesOK'
  <2>1. ASSUME NEW f \in Range(toCallee'), f.type = "finish"
        PROVE  answers'[f.id] = f.call /\ questions'[f.id] # f.call /\ Done(f.call)'
    <3>1. f \in Range(s) /\ f.id \in Ids
      BY <1>1, <1>2, <2>1
    <3>2. answers[f.id] = f.call /\ questions[f.id] # f.call /\ Done(f.call)
      BY <1>3, <2>1, <3>1 DEF IdInv, FinishesOK, s
    <3>3. f.call # c
      BY <1>5, <3>2 DEF Done
    <3> QED BY <1>1, <1>4, <3>1, <3>2, <3>3 DEF Done
  <2>2. ASSUME NEW j \in DOMAIN toCallee', NEW k \in DOMAIN toCallee', toCallee'[j].type = "finish",
               toCallee'[k].type = "finish", toCallee'[j].id = toCallee'[k].id
        PROVE  j = k
    <3>1. j \in DOMAIN s /\ k \in DOMAIN s
      BY <1>1, <1>2, <2>2
    <3> QED BY <1>2, <1>3, <2>2, <3>1 DEF IdInv, FinishesOK, s
  <2> QED BY <2>1, <2>2 DEF FinishesOK
<1>10. TablesOK'
  <2>1. ASSUME NEW x \in Ids, questions'[x] # None
        PROVE  answers'[x] = questions'[x]
                 \/ \E r \in Range(toCallee') : IsRequest(r) /\ r.id = x /\ r.call = questions'[x]
    BY <1>1, <1>2, <1>3, <1>4, <2>1 DEF IdInv, TablesOK, s, i
  <2>2. ASSUME NEW x \in Ids, answers'[x] # None
        PROVE  /\ aid'[answers'[x]] = x
               /\ \/ questions'[x] = answers'[x]
                  \/ \E f \in Range(toCallee') : f.type = "finish" /\ f.id = x
    BY <1>1, <1>2, <1>3, <1>4, <2>2 DEF IdInv, TablesOK, s
  <2>3. \A d \in Calls : astate'[d] \in Unfinished => InTable(d)'
    BY <1>1, <1>3 DEF IdInv, TablesOK, InTable
  <2> QED BY <2>1, <2>2, <2>3 DEF TablesOK
<1>11. ReturnsOK'
  BY <1>1, <1>3, <1>4, <1>6 DEF IdInv, ReturnsOK, Done
<1> QED BY <1>7, <1>8, <1>9, <1>10, <1>11 DEF IdInv

\* handleReturnMessage: the question leaves the table, and the Finish it sends
\* is the only one for its id.
LEMMA ReturnKeepsIds ==
  ASSUME ConnInv, NEW m \in Range(toCaller), ReturnStep(m)
  PROVE  IdInv'
<1> DEFINE s == toCallee
           n == Len(s) + 1
           i == m.id
           c == m.call
           f == Msg("finish", i, c)
           u == toCaller
<1>1. /\ i \in Ids /\ c \in Calls /\ questions[i] = c /\ answers[i] = c /\ Done(c) /\ IsReturn(m)
      /\ None \notin Calls /\ RunInv /\ IdInv
  BY ReturnArrives, RpcCallsAssumption DEF ReturnStep, ConnInv
<1>2. /\ f \in Message /\ f.type = "finish" /\ f.id = i /\ f.call = c /\ ~ IsRequest(f)
      /\ questions' = [questions EXCEPT ![i] = None]
      /\ toCallee' = Append(s, f) /\ s \in Seq(Message)
      /\ u # <<>> /\ m = Head(u) /\ toCaller' = Tail(u) /\ u \in Seq(Message)
      /\ UNCHANGED <<answers, aid, astate, callerOpen, calleeOpen>>
      /\ questions \in [Ids -> Calls \cup {None}]
      /\ \A x \in Range(s) : x.id \in Ids /\ x.call \in Calls
      /\ \A x \in Range(toCaller) : x.id \in Ids /\ x.call \in Calls
  <2>1. f \in Message
    BY <1>1, MessagesTyped
  <2>2. f.type = "finish" /\ f.id = i /\ f.call = c /\ ~ IsRequest(f)
    BY DEF Msg, IsRequest, IsCall
  <2> QED BY <2>1, <2>2, ArrivesTyped DEF ReturnStep, ConnInv, Inv, TypeOK, calleeVars
<1>3. /\ Range(toCallee') = Range(s) \cup {f}
      /\ DOMAIN toCallee' = DOMAIN s \cup {n} /\ n \notin DOMAIN s /\ toCallee'[n] = f
      /\ \A k \in DOMAIN s : toCallee'[k] = s[k] /\ s[k] \in Range(s)
      /\ \A k \in DOMAIN s : \A x : FinishedBefore(toCallee', k, x) <=> FinishedBefore(s, k, x)
  <2>1. Sent(s, toCallee', f, n)
    BY <1>2, StreamAppended
  <2> QED BY <2>1 DEF Sent
<1>4. /\ Range(u) = Range(toCaller') \cup {m} /\ m = u[1] /\ 1 \in DOMAIN u
      /\ \A k \in DOMAIN toCaller' :
           k \in Int /\ k + 1 \in DOMAIN u /\ k + 1 # 1 /\ toCaller'[k] = u[k + 1]
  <2>1. Taken(u, toCaller', m)
    BY <1>2, StreamTaken
  <2> QED BY <2>1 DEF Taken
<1>5. \A x \in Ids : questions'[x] = IF x = i THEN None ELSE questions[x]
  BY <1>2
<1> HIDE DEF s, n, i, c, f, u
<1>6. ASSUME NEW r \in Range(s), IsRequest(r) PROVE r.id # i
  <2> SUFFICES ASSUME r.id = i PROVE FALSE
    OBVIOUS
  <2>1. PICK j \in DOMAIN s : s[j] = r
    BY DEF Range
  <2>2. r.call = c
    BY <1>1, <1>6, <2>1 DEF IdInv, RequestsOK, s
  <2>3. c \in CallsIn(toCallee)
    BY <1>1, <1>6, <2>2 DEF CallsIn, s
  <2> QED BY <1>1, <2>3 DEF RunInv, OnePlace, Done
<1>7. ASSUME NEW g \in Range(s), g.type = "finish" PROVE g.id # i
  BY <1>1, <1>7 DEF IdInv, FinishesOK, s
<1>8. NoAborts'
  <2>1. Range(toCaller') \subseteq Range(toCaller) /\ f.type # "abort"
    BY <1>2, <1>4 DEF u
  <2> QED BY <1>1, <1>2, <1>3, <2>1 DEF IdInv, NoAborts, s
<1>9. RequestsOK'
  <2>1. ASSUME NEW j \in DOMAIN s, IsRequest(s[j])
        PROVE  /\ questions'[s[j].id] = s[j].call
               /\ answers'[s[j].id] = None \/ FinishedBefore(toCallee', j, s[j].id)
    <3>1. s[j] \in Range(s) /\ s[j].id \in Ids /\ s[j].id # i
      BY <1>2, <1>3, <1>6, <2>1
    <3>2. /\ questions[s[j].id] = s[j].call
          /\ answers[s[j].id] = None \/ FinishedBefore(s, j, s[j].id)
      BY <1>1, <2>1 DEF IdInv, RequestsOK, s
    <3> QED BY <1>2, <1>3, <1>5, <2>1, <3>1, <3>2
  <2> QED BY <1>2, <1>3, <2>1 DEF RequestsOK
<1>10. FinishesOK'
  <2>1. ASSUME NEW g \in Range(toCallee'), g.type = "finish"
        PROVE  answers'[g.id] = g.call /\ questions'[g.id] # g.call /\ Done(g.call)'
    <3>1. CASE g = f
      <4>1. answers'[i] = c /\ questions'[i] = None /\ c # None
        BY <1>1, <1>2, <1>5
      <4>2. Done(c)'
        BY <1>1, <1>2 DEF Done
      <4> QED BY <1>2, <3>1, <4>1, <4>2
    <3>2. CASE g \in Range(s)
      <4>1. answers[g.id] = g.call /\ questions[g.id] # g.call /\ Done(g.call)
        BY <1>1, <2>1, <3>2 DEF IdInv, FinishesOK, s
      <4>2. g.id \in Ids /\ g.call \in Calls
        BY <1>2, <3>2
      <4> QED BY <1>1, <1>2, <1>5, <4>1, <4>2 DEF Done
    <3> QED BY <1>3, <3>1, <3>2
  <2>2. ASSUME NEW j \in DOMAIN toCallee', NEW k \in DOMAIN toCallee', toCallee'[j].type = "finish",
               toCallee'[k].type = "finish", toCallee'[j].id = toCallee'[k].id
        PROVE  j = k
    <3>1. \A l \in DOMAIN s : s[l].type = "finish" => s[l].id # i
      BY <1>3, <1>7
    <3>2. CASE j \in DOMAIN s /\ k \in DOMAIN s
      BY <1>1, <1>3, <2>2, <3>2 DEF IdInv, FinishesOK, s
    <3> QED BY <1>2, <1>3, <2>2, <3>1, <3>2
  <2> QED BY <2>1, <2>2 DEF FinishesOK
<1>11. TablesOK'
  <2>1. ASSUME NEW x \in Ids, questions'[x] # None
        PROVE  answers'[x] = questions'[x]
                 \/ \E r \in Range(toCallee') : IsRequest(r) /\ r.id = x /\ r.call = questions'[x]
    BY <1>1, <1>2, <1>3, <1>5, <2>1 DEF IdInv, TablesOK, s
  <2>2. ASSUME NEW x \in Ids, answers'[x] # None
        PROVE  /\ aid'[answers'[x]] = x
               /\ \/ questions'[x] = answers'[x]
                  \/ \E g \in Range(toCallee') : g.type = "finish" /\ g.id = x
    BY <1>1, <1>2, <1>3, <1>5, <2>2 DEF IdInv, TablesOK, s
  <2>3. \A d \in Calls : astate'[d] \in Unfinished => InTable(d)'
    BY <1>1, <1>2 DEF IdInv, TablesOK, InTable
  <2> QED BY <2>1, <2>2, <2>3 DEF TablesOK
<1>12. ReturnsOK'
  <2>1. ASSUME NEW k \in DOMAIN toCaller', IsReturn(toCaller'[k])
        PROVE  toCaller'[k] \in Range(toCaller) /\ toCaller'[k].call # c
    <3>1. toCaller'[k] \in Range(toCaller)
      BY <1>4 DEF u, Range
    <3> QED BY <1>1, <1>4, <2>1, <3>1 DEF IdInv, ReturnsOK, u, c
  <2>2. ASSUME NEW r \in Range(toCaller'), IsReturn(r)
        PROVE  questions'[r.id] = r.call /\ answers'[r.id] = r.call /\ Done(r.call)'
    <3>1. PICK k \in DOMAIN toCaller' : toCaller'[k] = r
      BY DEF Range
    <3>2. r \in Range(toCaller) /\ r.call # c
      BY <2>1, <2>2, <3>1
    <3>3. questions[r.id] = r.call /\ answers[r.id] = r.call /\ Done(r.call)
      BY <1>1, <2>2, <3>2 DEF IdInv, ReturnsOK
    <3>4. r.id \in Ids
      BY <1>2, <3>2
    <3> QED BY <1>1, <1>2, <1>5, <3>2, <3>3, <3>4 DEF Done
  <2>3. ASSUME NEW j \in DOMAIN toCaller', NEW k \in DOMAIN toCaller', IsReturn(toCaller'[j]),
               IsReturn(toCaller'[k]), toCaller'[j].call = toCaller'[k].call
        PROVE  j = k
    <3>1. j \in Int /\ k \in Int
      BY <1>4
    <3>2. j + 1 = k + 1
      BY <1>1, <1>4, <2>3 DEF IdInv, ReturnsOK, u
    <3> QED BY <3>1, <3>2
  <2> QED BY <2>2, <2>3 DEF ReturnsOK
<1> QED BY <1>8, <1>9, <1>10, <1>11, <1>12 DEF IdInv

\* handleFinishMessage: the answer it forgets is the one the Finish is for.
LEMMA ForgetKeepsIds ==
  ASSUME ConnInv, NEW m \in Range(toCallee), ForgetStep(m)
  PROVE  IdInv'
<1> DEFINE s == toCallee
           i == m.id
           c == m.call
<1>1. /\ s \in Seq(Message) /\ s # <<>> /\ m = Head(s) /\ toCallee' = Tail(s)
      /\ m.type = "finish" /\ answers' = [answers EXCEPT ![i] = None]
      /\ UNCHANGED <<questions, aid, astate, callerOpen, calleeOpen, toCaller>>
      /\ i \in Ids /\ c \in Calls /\ None \notin Calls /\ IdInv
      /\ answers \in [Ids -> Calls \cup {None}]
      /\ \A x \in Range(s) : x.id \in Ids /\ x.call \in Calls
      /\ \A x \in Range(toCaller) : x.id \in Ids /\ x.call \in Calls
  BY ArrivesTyped, RpcCallsAssumption
  DEF ForgetStep, Arrived, PopAnswer, callerVars, ConnInv, Inv, TypeOK
<1>2. /\ m = s[1] /\ 1 \in DOMAIN s /\ Range(s) = Range(toCallee') \cup {m}
      /\ \A k \in DOMAIN toCallee' :
           k \in Int /\ k + 1 \in DOMAIN s /\ k + 1 # 1 /\ toCallee'[k] = s[k + 1]
      /\ \A k \in DOMAIN toCallee' : \A x :
           FinishedBefore(s, k + 1, x) <=> FinishedBefore(toCallee', k, x) \/ i = x
  <2>1. Taken(s, toCallee', m)
    BY <1>1, StreamTaken
  <2> QED BY <1>1, <2>1 DEF Taken
<1>3. \A x \in Ids : answers'[x] = IF x = i THEN None ELSE answers[x]
  BY <1>1
<1>4. answers[i] = c /\ questions[i] # c /\ Done(c)
  BY <1>1 DEF IdInv, FinishesOK
<1>5. IsRequest(m) = FALSE
  BY <1>1 DEF IsRequest, IsCall
<1> HIDE DEF s, i, c
<1>6. \A k \in DOMAIN toCallee' : toCallee'[k] \in Range(s) /\ toCallee'[k].id \in Ids
  BY <1>1, <1>2 DEF Range
<1>7. ASSUME NEW k \in DOMAIN toCallee', toCallee'[k].type = "finish" PROVE toCallee'[k].id # i
  BY <1>1, <1>2, <1>7 DEF IdInv, FinishesOK, s, i
<1>8. NoAborts'
  BY <1>1, <1>2 DEF IdInv, NoAborts, s
<1>9. RequestsOK'
  <2> SUFFICES ASSUME NEW j \in DOMAIN toCallee', IsRequest(toCallee'[j])
               PROVE  /\ questions'[toCallee'[j].id] = toCallee'[j].call
                      /\ \/ answers'[toCallee'[j].id] = None
                         \/ FinishedBefore(toCallee', j, toCallee'[j].id)
    BY DEF RequestsOK
  <2>1. /\ questions[toCallee'[j].id] = toCallee'[j].call
        /\ \/ answers[toCallee'[j].id] = None
           \/ FinishedBefore(s, j + 1, toCallee'[j].id)
    BY <1>1, <1>2 DEF IdInv, RequestsOK, s
  <2> QED BY <1>1, <1>2, <1>3, <1>6, <2>1
<1>10. FinishesOK'
  <2>1. ASSUME NEW g \in Range(toCallee'), g.type = "finish"
        PROVE  answers'[g.id] = g.call /\ questions'[g.id] # g.call /\ Done(g.call)'
    <3>1. PICK k \in DOMAIN toCallee' : toCallee'[k] = g
      BY DEF Range
    <3>2. g \in Range(s) /\ g.id \in Ids /\ g.id # i
      BY <1>6, <1>7, <2>1, <3>1
    <3>3. answers[g.id] = g.call /\ questions[g.id] # g.call /\ Done(g.call)
      BY <1>1, <2>1, <3>2 DEF IdInv, FinishesOK, s
    <3> QED BY <1>1, <1>3, <3>2, <3>3 DEF Done
  <2>2. ASSUME NEW j \in DOMAIN toCallee', NEW k \in DOMAIN toCallee', toCallee'[j].type = "finish",
               toCallee'[k].type = "finish", toCallee'[j].id = toCallee'[k].id
        PROVE  j = k
    <3>1. j \in Int /\ k \in Int
      BY <1>2
    <3>2. j + 1 = k + 1
      BY <1>1, <1>2, <2>2 DEF IdInv, FinishesOK, s
    <3> QED BY <3>1, <3>2
  <2> QED BY <2>1, <2>2 DEF FinishesOK
<1>11. TablesOK'
  <2>1. ASSUME NEW x \in Ids, questions'[x] # None
        PROVE  answers'[x] = questions'[x]
                 \/ \E r \in Range(toCallee') : IsRequest(r) /\ r.id = x /\ r.call = questions'[x]
    <3>1. \/ answers[x] = questions[x]
          \/ \E r \in Range(s) : IsRequest(r) /\ r.id = x /\ r.call = questions[x]
      BY <1>1, <2>1 DEF IdInv, TablesOK, s
    <3> QED BY <1>1, <1>2, <1>3, <1>4, <1>5, <2>1, <3>1
  <2>2. ASSUME NEW x \in Ids, answers'[x] # None
        PROVE  /\ aid'[answers'[x]] = x
               /\ \/ questions'[x] = answers'[x]
                  \/ \E g \in Range(toCallee') : g.type = "finish" /\ g.id = x
    <3>1. x # i /\ answers'[x] = answers[x]
      BY <1>3, <2>2
    <3>2. /\ aid[answers[x]] = x
          /\ questions[x] = answers[x] \/ \E g \in Range(s) : g.type = "finish" /\ g.id = x
      BY <1>1, <2>2, <3>1 DEF IdInv, TablesOK, s
    <3> QED BY <1>1, <1>2, <3>1, <3>2 DEF i
  <2>3. ASSUME NEW d \in Calls, astate'[d] \in Unfinished PROVE InTable(d)'
    <3>1. aid[d] \in Ids /\ answers[aid[d]] = d
      BY <1>1, <2>3 DEF IdInv, TablesOK, InTable
    <3>2. aid[d] # i
      BY <1>1, <1>4, <2>3, <3>1 DEF Done, Unfinished
    <3> QED BY <1>1, <1>3, <3>1, <3>2 DEF InTable
  <2> QED BY <2>1, <2>2, <2>3 DEF TablesOK
<1>12. ReturnsOK'
  <2>1. ASSUME NEW r \in Range(toCaller), IsReturn(r)
        PROVE  questions[r.id] = r.call /\ answers'[r.id] = r.call /\ Done(r.call)
    <3>1. questions[r.id] = r.call /\ answers[r.id] = r.call /\ Done(r.call) /\ r.id \in Ids
      BY <1>1, <2>1 DEF IdInv, ReturnsOK
    <3>2. r.id # i
      BY <1>4, <3>1
    <3> QED BY <1>3, <3>1, <3>2
  <2> QED BY <1>1, <2>1 DEF IdInv, ReturnsOK, Done
<1> QED BY <1>8, <1>9, <1>10, <1>11, <1>12 DEF IdInv

\* Conn.insertAnswer: the entry gets the id of its question, and the Return that
\* may go out at once is its only one.
LEMMA EnterKeepsIds ==
  ASSUME ConnInv, NEW m \in Range(toCallee),
         NEW st \in {"ok", "running", "failing", "queued", "err"}, EnterStep(m, st)
  PROVE  IdInv'
<1> DEFINE s == toCallee
           i == m.id
           c == m.call
           u == toCaller
           returned == st \in {"ok", "err"}
           r == Msg(IF st = "ok" THEN "results" ELSE "exception", i, c)
           l == Len(u) + 1
<1>1. /\ answers[i] = None /\ questions[i] = c /\ astate[c] = "none" /\ c \in CallsIn(s)
      /\ None \notin Calls /\ IdInv /\ RequestedOnce(s)
  BY RequestArrives, RpcCallsAssumption DEF EnterStep, ConnInv, RunInv, OnePlace
<1>2. /\ s \in Seq(Message) /\ s # <<>> /\ m = Head(s) /\ toCallee' = Tail(s)
      /\ IsRequest(m) /\ m.type # "finish"
      /\ answers' = [answers EXCEPT ![i] = c]
      /\ aid' = [aid EXCEPT ![c] = i]
      /\ astate' = [astate EXCEPT ![c] = st]
      /\ UNCHANGED <<questions, callerOpen, calleeOpen>>
      /\ i \in Ids /\ c \in Calls
      /\ answers \in [Ids -> Calls \cup {None}] /\ aid \in [Calls -> Ids \cup {-1}]
      /\ astate \in [Calls -> AnswerState]
      /\ \A x \in Range(s) : x.id \in Ids /\ x.call \in Calls
      /\ \A x \in Range(u) : x.id \in Ids /\ x.call \in Calls
      /\ IF returned THEN toCaller' = Append(u, r) ELSE toCaller' = u
  BY ArrivesTyped
  DEF EnterStep, Arrived, NewEntry, callerVars, ConnInv, Inv, TypeOK, IsRequest, IsCall
<1>3. /\ m = s[1] /\ 1 \in DOMAIN s /\ Range(s) = Range(toCallee') \cup {m}
      /\ \A k \in DOMAIN toCallee' :
           k \in Int /\ k + 1 \in DOMAIN s /\ k + 1 # 1 /\ toCallee'[k] = s[k + 1]
      /\ \A k \in DOMAIN toCallee' : \A x :
           FinishedBefore(s, k + 1, x) <=> FinishedBefore(toCallee', k, x)
  <2>1. Taken(s, toCallee', m)
    BY <1>2, StreamTaken
  <2> QED BY <1>2, <2>1 DEF Taken
<1>4. r.id = i /\ r.call = c /\ IsReturn(r) /\ r.type # "abort" /\ r \in Message
  <2>1. r \in Message
    BY <1>2, MessagesTyped
  <2> QED BY <2>1 DEF Msg, IsReturn
<1>5. /\ \A x \in Ids : answers'[x] = IF x = i THEN c ELSE answers[x]
      /\ \A d \in Calls : aid'[d] = (IF d = c THEN i ELSE aid[d])
                          /\ astate'[d] = (IF d = c THEN st ELSE astate[d])
  BY <1>2
<1>6. ASSUME returned PROVE ReturnsOK' /\ \A x \in Range(toCaller') : x.type # "abort"
  <2> USE <1>6
  <2>1. /\ Range(toCaller') = Range(u) \cup {r}
        /\ DOMAIN toCaller' = DOMAIN u \cup {l} /\ toCaller'[l] = r
        /\ \A k \in DOMAIN u : toCaller'[k] = u[k] /\ u[k] \in Range(u)
    <3>1. u \in Seq(Message)
      BY DEF ConnInv, Inv, TypeOK
    <3>2. Sent(u, toCaller', r, l)
      BY <1>2, <1>4, <3>1, StreamAppended
    <3> QED BY <3>2 DEF Sent
  <2> HIDE DEF u, r, l, i, c
  <2>2. ASSUME NEW x \in Range(u), IsReturn(x) PROVE x.call # c
    BY <1>1, <2>2 DEF IdInv, ReturnsOK, Done, u
  <2>3. ASSUME NEW x \in Range(toCaller'), IsReturn(x)
        PROVE  questions'[x.id] = x.call /\ answers'[x.id] = x.call /\ Done(x.call)'
    <3>1. CASE x = r
      BY <1>1, <1>2, <1>4, <1>5, <1>6, <3>1 DEF Done
    <3>2. CASE x \in Range(u)
      <4>1. questions[x.id] = x.call /\ answers[x.id] = x.call /\ Done(x.call)
        BY <1>1, <2>3, <3>2 DEF IdInv, ReturnsOK, u
      <4> QED BY <1>1, <1>2, <1>5, <2>2, <2>3, <3>2, <4>1 DEF Done
    <3> QED BY <2>1, <2>3, <3>1, <3>2
  <2>4. ASSUME NEW j \in DOMAIN toCaller', NEW k \in DOMAIN toCaller', IsReturn(toCaller'[j]),
               IsReturn(toCaller'[k]), toCaller'[j].call = toCaller'[k].call
        PROVE  j = k
    <3>1. CASE j \in DOMAIN u /\ k \in DOMAIN u
      BY <1>1, <2>1, <2>4, <3>1 DEF IdInv, ReturnsOK, u
    <3>2. \A x \in DOMAIN u : IsReturn(u[x]) => u[x].call # c
      BY <2>1, <2>2
    <3> QED BY <1>4, <2>1, <2>4, <3>1, <3>2
  <2>5. ReturnsOK'
    BY <2>3, <2>4 DEF ReturnsOK
  <2>6. \A x \in Range(toCaller') : x.type # "abort"
    BY <1>1, <1>4, <2>1 DEF IdInv, NoAborts, u
  <2> QED BY <2>5, <2>6
<1> HIDE DEF s, i, c, u, r, l, returned
<1>7. ReturnsOK' /\ \A x \in Range(toCaller') : x.type # "abort"
  <2>1. CASE ~ returned
    <3>1. ASSUME NEW x \in Range(u), IsReturn(x)
          PROVE  questions'[x.id] = x.call /\ answers'[x.id] = x.call /\ Done(x.call)'
      <4>1. questions[x.id] = x.call /\ answers[x.id] = x.call /\ Done(x.call)
        BY <1>1, <3>1 DEF IdInv, ReturnsOK, u
      <4> QED BY <1>1, <1>2, <1>5, <3>1, <4>1 DEF Done
    <3>2. toCaller' = u
      BY <1>2, <2>1
    <3>3. ReturnsOK'
      BY <1>1, <3>1, <3>2 DEF IdInv, ReturnsOK, u
    <3> QED BY <1>1, <3>2, <3>3 DEF IdInv, NoAborts, u
  <2> QED BY <1>6, <2>1
<1>8. NoAborts'
  BY <1>1, <1>2, <1>3, <1>7 DEF IdInv, NoAborts, s
<1>9. \A k \in DOMAIN toCallee' : toCallee'[k] \in Range(s) /\ toCallee'[k].id \in Ids
  BY <1>2, <1>3 DEF Range
<1>10. RequestsOK'
  <2> SUFFICES ASSUME NEW j \in DOMAIN toCallee', IsRequest(toCallee'[j])
               PROVE  /\ questions'[toCallee'[j].id] = toCallee'[j].call
                      /\ \/ answers'[toCallee'[j].id] = None
                         \/ FinishedBefore(toCallee', j, toCallee'[j].id)
    BY DEF RequestsOK
  <2>1. /\ questions[toCallee'[j].id] = toCallee'[j].call
        /\ \/ answers[toCallee'[j].id] = None
           \/ FinishedBefore(s, j + 1, toCallee'[j].id)
    BY <1>1, <1>3 DEF IdInv, RequestsOK, s
  <2>2. toCallee'[j].call # c
    BY <1>1, <1>2, <1>3 DEF RequestedOnce, c
  <2> QED BY <1>1, <1>2, <1>3, <1>5, <1>9, <2>1, <2>2
<1>11. FinishesOK'
  <2>1. ASSUME NEW g \in Range(toCallee'), g.type = "finish"
        PROVE  answers'[g.id] = g.call /\ questions'[g.id] # g.call /\ Done(g.call)'
    <3>1. g \in Range(s) /\ g.id \in Ids /\ g.call \in Calls
      BY <1>2, <1>3
    <3>2. answers[g.id] = g.call /\ questions[g.id] # g.call /\ Done(g.call)
      BY <1>1, <2>1, <3>1 DEF IdInv, FinishesOK, s
    <3>3. g.call # c /\ g.id # i
      BY <1>1, <3>1, <3>2 DEF Done
    <3> QED BY <1>2, <1>5, <3>1, <3>2, <3>3 DEF Done
  <2>2. ASSUME NEW j \in DOMAIN toCallee', NEW k \in DOMAIN toCallee', toCallee'[j].type = "finish",
               toCallee'[k].type = "finish", toCallee'[j].id = toCallee'[k].id
        PROVE  j = k
    <3>1. j \in Int /\ k \in Int
      BY <1>3
    <3>2. j + 1 = k + 1
      BY <1>1, <1>3, <2>2 DEF IdInv, FinishesOK, s
    <3> QED BY <3>1, <3>2
  <2> QED BY <2>1, <2>2 DEF FinishesOK
<1>12. TablesOK'
  <2>1. ASSUME NEW x \in Ids, questions'[x] # None
        PROVE  answers'[x] = questions'[x]
                 \/ \E q \in Range(toCallee') : IsRequest(q) /\ q.id = x /\ q.call = questions'[x]
    <3>1. \/ answers[x] = questions[x]
          \/ \E q \in Range(s) : IsRequest(q) /\ q.id = x /\ q.call = questions[x]
      BY <1>1, <1>2, <2>1 DEF IdInv, TablesOK, s
    <3>2. CASE x = i
      BY <1>1, <1>2, <1>5, <3>2
    <3>3. CASE x # i
      BY <1>2, <1>3, <1>5, <3>1, <3>3 DEF i
    <3> QED BY <3>2, <3>3
  <2>2. ASSUME NEW x \in Ids, answers'[x] # None
        PROVE  /\ aid'[answers'[x]] = x
               /\ \/ questions'[x] = answers'[x]
                  \/ \E g \in Range(toCallee') : g.type = "finish" /\ g.id = x
    <3>1. CASE x = i
      BY <1>1, <1>2, <1>5, <3>1
    <3>2. CASE x # i
      <4>1. answers'[x] = answers[x] /\ answers[x] \in Calls
        BY <1>2, <1>5, <2>2, <3>2
      <4>2. /\ aid[answers[x]] = x
            /\ questions[x] = answers[x] \/ \E g \in Range(s) : g.type = "finish" /\ g.id = x
        BY <1>1, <2>2, <4>1 DEF IdInv, TablesOK, s
      <4>3. answers[x] # c
        BY <1>1, <2>2, <4>1 DEF ConnInv, RunInv, OnePlace
      <4> QED BY <1>2, <1>3, <1>5, <4>1, <4>2, <4>3
    <3> QED BY <3>1, <3>2
  <2>3. ASSUME NEW d \in Calls, astate'[d] \in Unfinished PROVE InTable(d)'
    <3>1. CASE d = c
      BY <1>2, <1>5, <3>1 DEF InTable
    <3>2. CASE d # c
      <4>1. aid[d] \in Ids /\ answers[aid[d]] = d
        BY <1>1, <1>5, <2>3, <3>2 DEF IdInv, TablesOK, InTable
      <4> QED BY <1>1, <1>5, <3>2, <4>1 DEF InTable
    <3> QED BY <3>1, <3>2
  <2> QED BY <2>1, <2>2, <2>3 DEF TablesOK
<1> QED BY <1>7, <1>8, <1>10, <1>11, <1>12 DEF IdInv

\* AnswerEntry.fulfill and reject: the answer is in the table, its question
\* waits, and no other Return was sent for it.
LEMMA EndKeepsIds ==
  ASSUME ConnInv, NEW c \in Calls, NEW st \in {"ok", "err"}, EndStep(c, st)
  PROVE  IdInv'
<1> DEFINE i == aid[c]
           u == toCaller
           r == Msg(IF st = "ok" THEN "results" ELSE "exception", i, c)
           l == Len(u) + 1
<1>1. /\ astate[c] \in Unfinished /\ astate' = [astate EXCEPT ![c] = st]
      /\ toCaller' = Append(u, r) /\ u \in Seq(Message)
      /\ UNCHANGED <<questions, answers, aid, callerOpen, calleeOpen, toCallee>>
      /\ astate \in [Calls -> AnswerState] /\ IdInv
  BY DEF EndStep, callerVars, ConnInv, Inv, TypeOK
<1>2. i \in Ids /\ answers[i] = c
  BY <1>1 DEF IdInv, TablesOK, InTable
<1>3. questions[i] = c
  <2>1. ASSUME NEW g \in Range(toCallee), g.type = "finish", g.id = i PROVE FALSE
    <3>1. g.call = c /\ Done(c)
      BY <1>1, <1>2, <2>1 DEF IdInv, FinishesOK
    <3> QED BY <1>1, <3>1 DEF Done, Unfinished
  <2> QED BY <1>1, <1>2, <2>1, RpcCallsAssumption DEF IdInv, TablesOK
<1>4. r.id = i /\ r.call = c /\ IsReturn(r) /\ r.type # "abort" /\ r \in Message
  <2>1. r \in Message
    BY <1>2, MessagesTyped
  <2> QED BY <2>1 DEF Msg, IsReturn
<1>5. /\ Range(toCaller') = Range(u) \cup {r}
      /\ DOMAIN toCaller' = DOMAIN u \cup {l} /\ toCaller'[l] = r
      /\ \A k \in DOMAIN u : toCaller'[k] = u[k] /\ u[k] \in Range(u)
  <2>1. Sent(u, toCaller', r, l)
    BY <1>1, <1>4, StreamAppended
  <2> QED BY <2>1 DEF Sent
<1>6. \A d \in Calls : astate'[d] = IF d = c THEN st ELSE astate[d]
  BY <1>1
<1>7. ~ Done(c) /\ \A d : Done(d) => d # c
  BY <1>1 DEF Done, Unfinished
<1> HIDE DEF i, u, r, l
<1>8. ASSUME NEW x \in Range(u), IsReturn(x) PROVE x.call # c
  BY <1>1, <1>7, <1>8 DEF IdInv, ReturnsOK, u
<1>9. \A d \in Calls : Done(d) => Done(d)'
  BY <1>6, <1>7 DEF Done
<1>10. Done(c)'
  BY <1>6 DEF Done
<1>11. ReturnsOK'
  <2>1. ASSUME NEW x \in Range(toCaller'), IsReturn(x)
        PROVE  questions'[x.id] = x.call /\ answers'[x.id] = x.call /\ Done(x.call)'
    <3>1. CASE x = r
      BY <1>1, <1>2, <1>3, <1>4, <1>10, <3>1
    <3>2. CASE x \in Range(u)
      <4>1. x.call \in Calls
        BY <3>2, ArrivesTyped DEF u, ConnInv, Inv
      <4> QED BY <1>1, <1>9, <2>1, <3>2, <4>1 DEF IdInv, ReturnsOK, u
    <3> QED BY <1>5, <3>1, <3>2
  <2>2. ASSUME NEW j \in DOMAIN toCaller', NEW k \in DOMAIN toCaller', IsReturn(toCaller'[j]),
               IsReturn(toCaller'[k]), toCaller'[j].call = toCaller'[k].call
        PROVE  j = k
    <3>1. CASE j \in DOMAIN u /\ k \in DOMAIN u
      BY <1>1, <1>5, <2>2, <3>1 DEF IdInv, ReturnsOK, u
    <3>2. \A x \in DOMAIN u : IsReturn(u[x]) => u[x].call # c
      BY <1>5, <1>8
    <3> QED BY <1>4, <1>5, <2>2, <3>1, <3>2
  <2> QED BY <2>1, <2>2 DEF ReturnsOK
<1>12. NoAborts'
  BY <1>1, <1>4, <1>5 DEF IdInv, NoAborts, u
<1>13. RequestsOK'
  BY <1>1 DEF IdInv, RequestsOK, FinishedBefore
<1>14. FinishesOK'
  <2>1. \A g \in Range(toCallee) : g.call \in Calls
    BY ArrivesTyped DEF ConnInv, Inv
  <2> QED BY <1>1, <1>9, <2>1 DEF IdInv, FinishesOK
<1>15. TablesOK'
  <2>1. \A d \in Calls : astate'[d] \in Unfinished => astate[d] \in Unfinished
    BY <1>1, <1>6
  <2> QED BY <1>1, <2>1 DEF IdInv, TablesOK, InTable
<1> QED BY <1>11, <1>12, <1>13, <1>14, <1>15 DEF IdInv

\* A step that enters no call, ends none, and sends nothing.
LEMMA QuietKeepsIds ==
  ASSUME ConnInv, UNCHANGED <<questions, callerOpen, answers, aid, calleeOpen, toCallee, toCaller>>,
         \A d \in Calls : (Done(d) => Done(d)') /\ (astate'[d] \in Unfinished => astate[d] \in Unfinished)
  PROVE  IdInv'
<1>1. IdInv
  BY DEF ConnInv
<1>2. /\ \A g \in Range(toCallee) : g.call \in Calls
      /\ \A g \in Range(toCaller) : g.call \in Calls
  BY ArrivesTyped DEF ConnInv, Inv
<1>3. NoAborts' /\ RequestsOK'
  BY <1>1 DEF IdInv, NoAborts, RequestsOK, FinishedBefore
<1>4. FinishesOK' /\ ReturnsOK'
  BY <1>1, <1>2 DEF IdInv, FinishesOK, ReturnsOK
<1>5. TablesOK'
  BY <1>1 DEF IdInv, TablesOK, InTable
<1> QED BY <1>3, <1>4, <1>5 DEF IdInv

\* QueueClient.flushQueue delivers a call that is in no other state than queued
\* or being ended.
LEMMA FlushKeepsStates ==
  ASSUME TypeOK, FlushNext
  PROVE  \A d \in Calls : /\ Done(d) => Done(d)'
                          /\ astate'[d] \in Unfinished => astate[d] \in Unfinished
<1>1. /\ Head(flushing) \in Calls /\ astate \in [Calls -> AnswerState]
      /\ astate' = [astate EXCEPT ![Head(flushing)] = IF @ = "queued" THEN "running" ELSE @]
  BY RangeOfTail DEF TypeOK, FlushNext
<1>2. \A d \in Calls : astate'[d] = IF d = Head(flushing) /\ astate[d] = "queued" THEN "running"
                                    ELSE astate[d]
  BY <1>1
<1> QED BY <1>2 DEF Done, Unfinished

LEMMA StepKeepsIds ==
  ASSUME ConnInv, FaultlessStep
  PROVE  IdInv'
<1>0. TypeOK
  BY DEF ConnInv, Inv
<1>1. ASSUME NEW c \in Calls, NEW p \in Calls, CallBroken(c, p) PROVE IdInv'
  BY <1>1, QuietKeepsIds DEF CallBroken, calleeVars, Done
<1>2. CASE FlushNext
  <2>1. UNCHANGED <<questions, callerOpen, answers, aid, calleeOpen, toCallee, toCaller>>
    BY <1>2 DEF FlushNext, callerVars
  <2> QED BY <1>0, <1>2, <2>1, FlushKeepsStates, QuietKeepsIds
<1>3. CASE QuietStep
  BY <1>3, QuietKeepsIds DEF QuietStep, Done
<1> QED
  BY <1>1, <1>2, <1>3, AskKeepsIds, ReturnKeepsIds, EnterKeepsIds, ForgetKeepsIds, EndKeepsIds
  DEF FaultlessStep

-----------------------------------------------------------------------------
(* Every step keeps the targets of the calls in flight.                    *)

Known == MadeOK /\ ResolvedOK /\ TargetsOK

\* The history of the calls made, when one is made.
LEMMA HistoryExtended ==
  ASSUME TypeOK, NEW c \in Calls, NEW p \in Calls \cup {None},
         made' = Append(made, [through |-> p, call |-> c])
  PROVE  LET n == Len(made) + 1
         IN /\ DOMAIN made' = DOMAIN made \cup {n} /\ n \notin DOMAIN made /\ n \in Int
            /\ \A k \in DOMAIN made : made'[k] = made[k] /\ k \in Int /\ k < n
            /\ made'[n].call = c /\ made'[n].through = p
<1> DEFINE r == [through |-> p, call |-> c]
           S == [through : Calls \cup {None}, call : Calls]
<1>1. made \in Seq(S) /\ r \in S /\ made' = Append(made, r)
  BY DEF TypeOK
<1>2. r.call = c /\ r.through = p
  OBVIOUS
<1> HIDE DEF r, S
<1>3. /\ Len(made') = Len(made) + 1 /\ Len(made) \in Nat
      /\ \A k \in 1..Len(made) : made'[k] = made[k]
      /\ made'[Len(made) + 1] = r
      /\ DOMAIN made = 1..Len(made) /\ DOMAIN made' = 1..(Len(made) + 1)
  BY <1>1, AppendProperties, LenProperties
<1> QED BY <1>2, <1>3

\* The fields of the history.
LEMMA HistoryTyped ==
  ASSUME TypeOK
  PROVE  \A i \in DOMAIN made : made[i].call \in Calls /\ made[i].through \in Calls \cup {None}
<1> DEFINE S == [through : Calls \cup {None}, call : Calls]
<1>1. made \in Seq(S)
  BY DEF TypeOK
<1>2. \A i \in DOMAIN made : made[i] \in S
  BY <1>1, LenProperties, ElementOfSeq
<1> QED BY <1>2

\* Question.pipelineCall: the question is in the table and no Finish of it in
\* flight; ImportClient.call: the promise is resolved.
LEMMA AskKeepsKnown ==
  ASSUME ConnInv, NEW c \in Calls, NEW p \in Calls \cup {None}, NEW m \in Message, AskStep(c, p, m)
  PROVE  Known'
<1> DEFINE s == toCallee
           n == Len(s) + 1
           h == Len(made) + 1
<1>0. TypeOK /\ IdInv /\ OnePlace /\ Known /\ None \notin Calls
  BY RpcCallsAssumption DEF ConnInv, Inv, RunInv, Known
<1>1. /\ IsRequest(m) /\ m.call = c /\ s \in Seq(Message) /\ toCallee' = Append(s, m)
      /\ qstate[c] = "unused" /\ qstate' = [qstate EXCEPT ![c] = "waiting"]
      /\ made' = Append(made, [through |-> p, call |-> c])
      /\ UNCHANGED <<got, answers, astate, pipelined, flushing>>
      /\ qstate \in [Calls -> QuestionState]
      /\ \/ m.type = "bootstrap" /\ p = None
         \/ m.type = "pipelined" /\ p \in Calls /\ Asked(p) /\ m.on = qid[p]
         \/ m.type = "call" /\ p \in Calls /\ qstate[p] = "resolved"
  BY <1>0 DEF AskStep, calleeVars, TypeOK
<1>2. Sent(s, toCallee', m, n)
  BY <1>1, StreamAppended
<1>3. /\ DOMAIN made' = DOMAIN made \cup {h}
      /\ \A k \in DOMAIN made : made'[k] = made[k] /\ made[k].call \in Calls
      /\ made'[h].call = c /\ made'[h].through = p
  BY <1>0, <1>1, HistoryExtended, HistoryTyped
<1>4. CallsIn(toCallee') = CallsIn(s) \cup {c}
  <2>1. {d \in Calls : IsRequest(m) /\ m.call = d} = {c}
    BY <1>1
  <2>2. CallsIn(Append(s, m)) = CallsIn(s) \cup {d \in Calls : IsRequest(m) /\ m.call = d}
    BY <1>1, RequestAppended
  <2> QED BY <1>1, <2>1, <2>2
<1> HIDE DEF s, n, h
<1>5. \A i \in DOMAIN made : made[i].call # c
  BY <1>0, <1>1 DEF Known, MadeOK
<1>6. \A d \in Calls : qstate'[d] = IF d = c THEN "waiting" ELSE qstate[d]
  BY <1>1
<1>7. MadeOK'
  <2>1. \A i, j \in DOMAIN made' : made'[i].call = made'[j].call => i = j
    BY <1>0, <1>3, <1>5 DEF Known, MadeOK
  <2>2. \A i \in DOMAIN made' : qstate'[made'[i].call] # "unused"
    BY <1>0, <1>3, <1>6 DEF Known, MadeOK
  <2>3. \A d \in CallsIn(toCallee') : \E i \in DOMAIN made' : made'[i].call = d
    BY <1>0, <1>3, <1>4 DEF Known, MadeOK, s
  <2>4. \A q \in Calls : \A d \in Range(pipelined'[q]) :
          \E i \in DOMAIN made' : made'[i].through = q /\ made'[i].call = d
    <3> SUFFICES ASSUME NEW q \in Calls, NEW d \in Range(pipelined[q])
                 PROVE  \E i \in DOMAIN made' : made'[i].through = q /\ made'[i].call = d
      BY <1>1
    <3>1. PICK i \in DOMAIN made : made[i].through = q /\ made[i].call = d
      BY <1>0 DEF Known, MadeOK
    <3> QED BY <1>3, <3>1
  <2>5. \A d \in Range(flushing') : \E i \in DOMAIN made' : made'[i].call = d
    BY <1>0, <1>1, <1>3 DEF Known, MadeOK
  <2> QED BY <2>1, <2>2, <2>3, <2>4, <2>5 DEF MadeOK
<1>8. ResolvedOK'
  BY <1>0, <1>1, <1>6 DEF Known, ResolvedOK, Done
<1>9. TargetsOK'
  <2> SUFFICES ASSUME NEW j \in DOMAIN toCallee', NEW i \in DOMAIN made',
                      toCallee'[j].call = made'[i].call
               PROVE  TargetOK(toCallee, j, toCallee[j], made[i].through)'
    BY DEF TargetsOK
  <2>1. CASE j \in DOMAIN s /\ i \in DOMAIN made
    <3>1. TargetOK(s, j, s[j], made[i].through)
      BY <1>0, <1>2, <1>3, <2>1 DEF Known, TargetsOK, s, Sent
    <3>2. toCallee'[j] = s[j] /\ made'[i] = made[i]
      BY <1>2, <1>3, <2>1 DEF Sent
    <3>3. \A d, x : /\ FinishedBefore(toCallee', j, x) <=> FinishedBefore(s, j, x)
                    /\ RequestedBefore(toCallee', j, d, x) <=> RequestedBefore(s, j, d, x)
      BY <1>2, <2>1 DEF Sent
    <3> QED BY <1>1, <3>1, <3>2, <3>3 DEF TargetOK, Done
  <2>2. CASE j \in DOMAIN s /\ i = h
    <3>1. toCallee'[j] = s[j] /\ s[j] \in Range(s) /\ s[j].call = c
      BY <1>2, <1>3, <2>2 DEF Sent
    <3>2. c \notin CallsIn(s)
      BY <1>0, <1>1 DEF OnePlace, s
    <3>3. ~ IsRequest(s[j])
      BY <3>1, <3>2 DEF CallsIn
    <3> QED BY <3>1, <3>3 DEF TargetOK, IsRequest, IsCall
  <2>3. CASE j = n /\ i = h
    <3>1. toCallee'[j] = m /\ made'[i].through = p
      BY <1>2, <1>3, <2>3 DEF Sent
    <3>2. CASE m.type = "bootstrap" /\ p = None
      BY <3>1, <3>2 DEF TargetOK
    <3>3. CASE m.type = "call" /\ p \in Calls /\ qstate[p] = "resolved"
      BY <1>0, <1>1, <3>1, <3>3 DEF TargetOK, Known, ResolvedOK, Done
    <3>4. CASE m.type = "pipelined" /\ p \in Calls /\ Asked(p) /\ m.on = qid[p]
      <4>1. m.on \in Ids /\ questions[m.on] = p /\ p # None
        BY <1>0, <3>4 DEF Asked
      <4>2. CASE answers[m.on] = p
        <5>1. \A f \in Range(s) : ~ (f.type = "finish" /\ f.id = m.on)
          BY <1>0, <4>1, <4>2 DEF IdInv, FinishesOK, s
        <5>2. ~ FinishedBefore(toCallee', j, m.on)
          BY <1>2, <2>3, <5>1 DEF Sent
        <5> QED BY <1>1, <3>1, <3>4, <4>1, <4>2, <5>2 DEF TargetOK
      <4>3. CASE answers[m.on] # p
        <5>1. \E r \in Range(s) : IsRequest(r) /\ r.id = m.on /\ r.call = p
          BY <1>0, <4>1, <4>3 DEF IdInv, TablesOK, s
        <5>2. RequestedBefore(toCallee', j, p, m.on)
          BY <1>2, <2>3, <5>1 DEF Sent
        <5> QED BY <3>1, <3>4, <4>1, <5>2 DEF TargetOK
      <4> QED BY <4>2, <4>3
    <3> QED BY <1>1, <3>2, <3>3, <3>4
  <2>4. ~ (j = n /\ i \in DOMAIN made)
    BY <1>1, <1>2, <1>3, <1>5 DEF Sent
  <2> QED BY <1>2, <1>3, <2>1, <2>2, <2>3, <2>4 DEF Sent
<1> QED BY <1>7, <1>8, <1>9 DEF Known

\* handleReturnMessage: the promise it resolves is done.
LEMMA ReturnKeepsKnown ==
  ASSUME ConnInv, NEW m \in Range(toCaller), ReturnStep(m)
  PROVE  Known'
<1> DEFINE s == toCallee
           n == Len(s) + 1
           c == m.call
           f == Msg("finish", m.id, c)
<1>0. TypeOK /\ IdInv /\ OnePlace /\ Known /\ None \notin Calls
  BY RpcCallsAssumption DEF ConnInv, Inv, RunInv, Known
<1>1. /\ m.id \in Ids /\ c \in Calls /\ Done(c)
      /\ s \in Seq(Message) /\ toCallee' = Append(s, f)
      /\ qstate' = [qstate EXCEPT ![c] = Settled(m.type)] /\ got' = [got EXCEPT ![c] = c]
      /\ UNCHANGED <<made, answers, astate, pipelined, flushing>>
      /\ qstate \in [Calls -> QuestionState] /\ got \in [Calls -> Calls \cup {None}]
  BY <1>0, ReturnArrives DEF ReturnStep, calleeVars, TypeOK
<1>2. f \in Message /\ ~ IsRequest(f)
  BY <1>1, MessagesTyped, Kinds
<1>3. Sent(s, toCallee', f, n)
  BY <1>1, <1>2, StreamAppended
<1>4. CallsIn(toCallee') = CallsIn(s)
  <2>1. {d \in Calls : IsRequest(f) /\ f.call = d} = {}
    BY <1>2
  <2>2. CallsIn(Append(s, f)) = CallsIn(s) \cup {d \in Calls : IsRequest(f) /\ f.call = d}
    BY <1>1, <1>2, RequestAppended
  <2> QED BY <1>1, <2>1, <2>2
<1>5. \A d \in Calls : /\ qstate'[d] = (IF d = c THEN Settled(m.type) ELSE qstate[d])
                       /\ got'[d] = (IF d = c THEN c ELSE got[d])
  BY <1>1
<1> HIDE DEF s, n, f, c
<1>6. MadeOK'
  <2>1. \A i \in DOMAIN made : made[i].call \in Calls
    BY <1>0, HistoryTyped
  <2>2. \A i \in DOMAIN made' : qstate'[made'[i].call] # "unused"
    BY <1>0, <1>1, <1>5, <2>1 DEF Known, MadeOK, Settled
  <2> QED BY <1>0, <1>1, <1>4, <2>2 DEF Known, MadeOK, s
<1>7. ResolvedOK'
  BY <1>0, <1>1, <1>5 DEF Known, ResolvedOK, Done
<1>8. TargetsOK'
  <2> SUFFICES ASSUME NEW j \in DOMAIN toCallee', NEW i \in DOMAIN made',
                      toCallee'[j].call = made'[i].call
               PROVE  TargetOK(toCallee, j, toCallee[j], made[i].through)'
    BY DEF TargetsOK
  <2>1. CASE j \in DOMAIN s
    <3>1. TargetOK(s, j, s[j], made[i].through)
      BY <1>0, <1>1, <1>3, <2>1 DEF Known, TargetsOK, s, Sent
    <3>2. toCallee'[j] = s[j]
      BY <1>3, <2>1 DEF Sent
    <3>3. \A d, x : /\ FinishedBefore(toCallee', j, x) <=> FinishedBefore(s, j, x)
                    /\ RequestedBefore(toCallee', j, d, x) <=> RequestedBefore(s, j, d, x)
      BY <1>3, <2>1 DEF Sent
    <3> QED BY <1>1, <3>1, <3>2, <3>3 DEF TargetOK, Done
  <2>2. CASE j = n
    BY <1>2, <1>3, <2>2 DEF TargetOK, Sent, IsRequest, IsCall
  <2> QED BY <1>3, <2>1, <2>2 DEF Sent
<1> QED BY <1>6, <1>7, <1>8 DEF Known

\* The callee's steps leave the history alone: what they queue was made through
\* the promise it is queued on.
LEMMA CalleeKeepsMade ==
  ASSUME ConnInv, UNCHANGED callerVars, CallsIn(toCallee') \subseteq CallsIn(toCallee),
         \A p \in Calls : \A c \in Range(pipelined'[p]) :
           \/ c \in Range(pipelined[p])
           \/ \E i \in DOMAIN made : made[i].through = p /\ made[i].call = c,
         \A c \in Range(flushing') : \E p \in Calls : c \in Range(pipelined[p]) \cup Range(flushing)
  PROVE  MadeOK'
<1>1. MadeOK /\ UNCHANGED <<made, qstate>>
  BY DEF ConnInv, callerVars
<1>2. \A c \in CallsIn(toCallee') : \E i \in DOMAIN made' : made'[i].call = c
  BY <1>1 DEF MadeOK
<1>3. ASSUME NEW p \in Calls, NEW c \in Range(pipelined'[p])
      PROVE  \E i \in DOMAIN made' : made'[i].through = p /\ made'[i].call = c
  BY <1>1 DEF MadeOK
<1>4. ASSUME NEW c \in Range(flushing') PROVE \E i \in DOMAIN made' : made'[i].call = c
  <2>1. PICK p \in Calls : c \in Range(pipelined[p]) \cup Range(flushing)
    OBVIOUS
  <2> QED BY <1>1, <2>1 DEF MadeOK
<1> QED BY <1>1, <1>2, <1>3, <1>4 DEF MadeOK

\* What was done stays done, at the callee.
LEMMA CalleeKeepsResolved ==
  ASSUME ConnInv, UNCHANGED callerVars, \A c \in Calls : Done(c) => Done(c)'
  PROVE  ResolvedOK'
<1>1. ResolvedOK /\ UNCHANGED <<qstate, got>>
  BY DEF ConnInv, callerVars
<1> QED BY <1>1 DEF ResolvedOK

\* When the request of a promise arrives, its answer is under the id the calls
\* pipelined on it name.
LEMMA EnterKeepsKnown ==
  ASSUME ConnInv, NEW m \in Range(toCallee),
         NEW st \in {"ok", "running", "failing", "queued", "err"}, EnterStep(m, st)
  PROVE  Known'
<1> DEFINE s == toCallee
           i == m.id
           c == m.call
<1>0. TypeOK /\ IdInv /\ OnePlace /\ Known /\ None \notin Calls
  BY RpcCallsAssumption DEF ConnInv, Inv, RunInv, Known
<1>1. /\ answers[i] = None /\ questions[i] = c /\ astate[c] = "none"
      /\ \E x \in DOMAIN made :
           made[x].call = c /\ (m.type = "pipelined" => answers[m.on] = made[x].through)
  BY RequestArrives DEF EnterStep
<1>2. /\ s \in Seq(Message) /\ s # <<>> /\ m = Head(s) /\ toCallee' = Tail(s)
      /\ IsRequest(m) /\ m.type # "finish"
      /\ answers' = [answers EXCEPT ![i] = c]
      /\ astate' = [astate EXCEPT ![c] = st]
      /\ UNCHANGED <<callerVars, flushing>>
      /\ \/ UNCHANGED pipelined
         \/ m.type = "pipelined" /\ answers[m.on] # None /\ QueueCall(answers[m.on], c)
      /\ i \in Ids /\ c \in Calls /\ m.on \in Ids
      /\ answers \in [Ids -> Calls \cup {None}] /\ astate \in [Calls -> AnswerState]
      /\ pipelined \in [Calls -> Seq(Calls)]
  BY <1>0, ArrivesTyped
  DEF EnterStep, Arrived, NewEntry, TypeOK, IsRequest, IsCall
<1>3. Taken(s, toCallee', m)
  BY <1>2, StreamTaken
<1>4. CallsIn(toCallee') \subseteq CallsIn(s)
  BY <1>2, RequestTaken
<1>5. /\ \A x \in Ids : answers'[x] = IF x = i THEN c ELSE answers[x]
      /\ \A d \in Calls : astate'[d] = IF d = c THEN st ELSE astate[d]
  BY <1>2
<1> HIDE DEF s, i, c
<1>6. \A d \in Calls : Done(d) => Done(d)'
  BY <1>1, <1>5 DEF Done
<1>7. ASSUME NEW p \in Calls, NEW d \in Range(pipelined'[p])
      PROVE  \/ d \in Range(pipelined[p])
             \/ \E x \in DOMAIN made : made[x].through = p /\ made[x].call = d
  <2>1. CASE UNCHANGED pipelined
    BY <1>7, <2>1
  <2>2. CASE m.type = "pipelined" /\ answers[m.on] # None /\ QueueCall(answers[m.on], c)
    <3>1. answers[m.on] \in Calls
      BY <1>2, <2>2
    <3>2. pipelined'[p] = IF p = answers[m.on] THEN Append(pipelined[p], c) ELSE pipelined[p]
      BY <1>2, <2>2, <3>1 DEF QueueCall
    <3>3. Range(Append(pipelined[p], c)) = Range(pipelined[p]) \cup {c}
      BY <1>2, RangeOfAppend
    <3> QED BY <1>1, <1>7, <2>2, <3>2, <3>3
  <2> QED BY <1>2, <2>1, <2>2
<1>8. MadeOK'
  BY <1>2, <1>4, <1>7, CalleeKeepsMade DEF s
<1>9. ResolvedOK'
  BY <1>2, <1>6, CalleeKeepsResolved
<1>10. TargetsOK'
  <2>1. made' = made
    BY <1>2 DEF callerVars
  <2> SUFFICES ASSUME NEW j \in DOMAIN toCallee', NEW x \in DOMAIN made',
                      toCallee'[j].call = made'[x].call
               PROVE  TargetOK(toCallee, j, toCallee[j], made[x].through)'
    BY DEF TargetsOK
  <2> DEFINE r == toCallee'[j]
             p == made[x].through
  <2>2. r = s[j + 1] /\ j + 1 \in DOMAIN s /\ r.on \in Ids
    <3>1. r = s[j + 1] /\ j + 1 \in DOMAIN s
      BY <1>3 DEF Taken
    <3>2. r \in Range(s)
      BY <3>1 DEF Range
    <3> QED BY <1>0, <3>1, <3>2, ArrivesTyped DEF s
  <2>3. TargetOK(s, j + 1, r, p)
    BY <1>0, <2>1, <2>2 DEF Known, TargetsOK, s
  <2>4. /\ FinishedBefore(s, j + 1, r.on) <=> FinishedBefore(toCallee', j, r.on)
        /\ RequestedBefore(s, j + 1, p, r.on)
             <=> RequestedBefore(toCallee', j, p, r.on) \/ (c = p /\ i = r.on)
    BY <1>2, <1>3 DEF Taken, c, i
  <2>5. p \in Calls \cup {None}
    BY <1>0, <2>1, HistoryTyped
  <2>6. ASSUME r.type = "pipelined"
        PROVE  /\ p # None
               /\ \/ RequestedBefore(toCallee', j, p, r.on)
                  \/ answers'[r.on] = p /\ ~ FinishedBefore(toCallee', j, r.on)
    <3>1. CASE RequestedBefore(toCallee', j, p, r.on)
      BY <2>3, <2>6, <3>1 DEF TargetOK
    <3>2. CASE c = p /\ i = r.on
      <4>1. \A f \in Range(s) : ~ (f.type = "finish" /\ f.id = i)
        BY <1>0, <1>1, <1>2, ArrivesTyped DEF IdInv, FinishesOK, s
      <4>2. ~ FinishedBefore(s, j + 1, i)
        BY <4>1 DEF FinishedBefore, Range
      <4> QED BY <1>2, <1>5, <2>3, <2>4, <2>6, <3>2, <4>2 DEF TargetOK
    <3>3. CASE answers[r.on] = p /\ ~ FinishedBefore(s, j + 1, r.on)
      BY <1>1, <1>5, <2>2, <2>3, <2>4, <2>6, <3>3 DEF TargetOK
    <3> QED BY <2>3, <2>4, <2>6, <3>1, <3>2, <3>3 DEF TargetOK
  <2>7. r.type = "call" => p # None /\ Done(p)'
    BY <1>6, <2>1, <2>3, <2>5 DEF TargetOK
  <2>8. r.type = "bootstrap" => p = None
    BY <2>3 DEF TargetOK
  <2> QED BY <2>1, <2>6, <2>7, <2>8 DEF TargetOK
<1> QED BY <1>8, <1>9, <1>10 DEF Known

\* handleFinishMessage: no call in flight names the answer it forgets.
LEMMA ForgetKeepsKnown ==
  ASSUME ConnInv, NEW m \in Range(toCallee), ForgetStep(m)
  PROVE  Known'
<1> DEFINE s == toCallee
           i == m.id
<1>0. TypeOK /\ Known
  BY DEF ConnInv, Inv, Known
<1>1. /\ s \in Seq(Message) /\ s # <<>> /\ m = Head(s) /\ toCallee' = Tail(s)
      /\ m.type = "finish" /\ ~ IsRequest(m) /\ answers' = [answers EXCEPT ![i] = None]
      /\ UNCHANGED <<callerVars, astate, pipelined, flushing>>
      /\ answers \in [Ids -> Calls \cup {None}]
  BY <1>0 DEF ForgetStep, Arrived, PopAnswer, TypeOK, IsRequest, IsCall
<1>2. Taken(s, toCallee', m)
  BY <1>1, StreamTaken
<1>3. CallsIn(toCallee') \subseteq CallsIn(s)
  BY <1>1, RequestTaken
<1> HIDE DEF s, i
<1>4. MadeOK'
  <2>1. \A p \in Calls : \A c \in Range(pipelined'[p]) : c \in Range(pipelined[p])
    BY <1>1
  <2>2. \A c \in Range(flushing') : c \in Calls /\ c \in Range(flushing)
    BY <1>0, <1>1, RangeIsElements DEF TypeOK
  <2> QED BY <1>1, <1>3, <2>1, <2>2, CalleeKeepsMade DEF s
<1>5. ResolvedOK'
  BY <1>1, CalleeKeepsResolved DEF Done
<1>6. TargetsOK'
  <2>1. made' = made
    BY <1>1 DEF callerVars
  <2> SUFFICES ASSUME NEW j \in DOMAIN toCallee', NEW x \in DOMAIN made',
                      toCallee'[j].call = made'[x].call
               PROVE  TargetOK(toCallee, j, toCallee[j], made[x].through)'
    BY DEF TargetsOK
  <2> DEFINE r == toCallee'[j]
             p == made[x].through
  <2>2. r = s[j + 1] /\ j + 1 \in DOMAIN s /\ r.on \in Ids
    <3>1. r = s[j + 1] /\ j + 1 \in DOMAIN s
      BY <1>2 DEF Taken
    <3>2. r \in Range(s)
      BY <3>1 DEF Range
    <3> QED BY <1>0, <3>1, <3>2, ArrivesTyped DEF s
  <2>3. TargetOK(s, j + 1, r, p)
    BY <1>0, <2>1, <2>2 DEF Known, TargetsOK, s
  <2>4. /\ FinishedBefore(s, j + 1, r.on) <=> FinishedBefore(toCallee', j, r.on) \/ i = r.on
        /\ RequestedBefore(s, j + 1, p, r.on) <=> RequestedBefore(toCallee', j, p, r.on)
    BY <1>1, <1>2 DEF Taken, i
  <2>5. r.on # i => answers'[r.on] = answers[r.on]
    BY <1>1, <2>2
  <2> QED BY <1>1, <2>1, <2>3, <2>4, <2>5 DEF TargetOK, Done
<1> QED BY <1>4, <1>5, <1>6 DEF Known

\* A call ends, or is delivered from a queue, or nothing happens here.
LEMMA SettleKeepsKnown ==
  ASSUME ConnInv, UNCHANGED <<callerVars, answers, toCallee>>,
         \A c \in Calls : Done(c) => Done(c)',
         \A p \in Calls : Range(pipelined'[p]) \subseteq Range(pipelined[p]),
         \/ Range(flushing') \subseteq Range(flushing)
         \/ \E p \in Calls : flushing' = pipelined[p]
  PROVE  Known'
<1>0. TypeOK /\ Known
  BY DEF ConnInv, Inv, Known
<1>1. MadeOK'
  <2>1. Range(flushing) \subseteq Calls
    BY <1>0, RangeIsElements DEF TypeOK
  <2>2. \A c \in Range(flushing') : \E p \in Calls : c \in Range(pipelined[p]) \cup Range(flushing)
    BY <2>1
  <2> QED BY <2>2, CalleeKeepsMade
<1>2. ResolvedOK'
  BY CalleeKeepsResolved
<1>3. TargetsOK'
  <2>1. made' = made /\ toCallee' = toCallee /\ answers' = answers
    BY DEF callerVars
  <2> SUFFICES ASSUME NEW j \in DOMAIN toCallee, NEW x \in DOMAIN made,
                      toCallee[j].call = made[x].call
               PROVE  TargetOK(toCallee, j, toCallee[j], made[x].through)'
    BY <2>1 DEF TargetsOK
  <2>2. TargetOK(toCallee, j, toCallee[j], made[x].through)
    BY <1>0 DEF Known, TargetsOK
  <2>3. made[x].through \in Calls \cup {None}
    BY <1>0, HistoryTyped
  <2> QED BY <2>1, <2>2, <2>3 DEF TargetOK, RequestedBefore, FinishedBefore
<1> QED BY <1>1, <1>2, <1>3 DEF Known

LEMMA StepKeepsKnown ==
  ASSUME ConnInv, FaultlessStep
  PROVE  Known'
<1>0. TypeOK /\ Known
  BY DEF ConnInv, Inv, Known
<1>1. ASSUME NEW c \in Calls, NEW p \in Calls, CallBroken(c, p) PROVE Known'
  <2>1. /\ qstate[c] = "unused" /\ qstate' = [qstate EXCEPT ![c] = "failed"]
        /\ got' = [got EXCEPT ![c] = c]
        /\ UNCHANGED <<made, toCallee, answers, astate, pipelined, flushing>>
    BY <1>1 DEF CallBroken, calleeVars
  <2>2. \A d \in Calls : /\ qstate'[d] = (IF d = c THEN "failed" ELSE qstate[d])
                         /\ got'[d] = (IF d = c THEN c ELSE got[d])
    BY <1>0, <2>1 DEF TypeOK
  <2>3. \A i \in DOMAIN made : made[i].call \in Calls
    BY <1>0, HistoryTyped
  <2>4. MadeOK'
    BY <1>0, <2>1, <2>2, <2>3 DEF Known, MadeOK, CallsIn
  <2>5. ResolvedOK'
    BY <1>0, <2>1, <2>2 DEF Known, ResolvedOK, Done
  <2>6. TargetsOK'
    BY <1>0, <2>1 DEF Known, TargetsOK, TargetOK, Done, FinishedBefore, RequestedBefore
  <2> QED BY <2>4, <2>5, <2>6 DEF Known
<1>2. ASSUME NEW c \in Calls, NEW st \in {"ok", "err"}, EndStep(c, st) PROVE Known'
  <2>1. \A d \in Calls : Done(d) => Done(d)'
    BY <1>0, <1>2 DEF EndStep, Done, TypeOK
  <2>2. \A p \in Calls : Range(pipelined'[p]) \subseteq Range(pipelined[p])
    BY <1>0, <1>2, RangeOfEmpty DEF EndStep, TypeOK
  <2>3. \/ Range(flushing') \subseteq Range(flushing)
        \/ \E p \in Calls : flushing' = pipelined[p]
    BY <1>2 DEF EndStep
  <2> QED BY <1>2, <2>1, <2>2, <2>3, SettleKeepsKnown DEF EndStep
<1>3. CASE FlushNext
  <2>1. \A d \in Calls : Done(d) => Done(d)'
    BY <1>0, <1>3, FlushKeepsStates
  <2>2. Range(flushing') \subseteq Range(flushing)
    BY <1>0, <1>3, RangeOfTail DEF FlushNext, TypeOK
  <2> QED BY <1>3, <2>1, <2>2, SettleKeepsKnown DEF FlushNext
<1>4. CASE QuietStep
  <2>1. MadeOK' /\ ResolvedOK'
    BY <1>0, <1>4 DEF QuietStep, Known, MadeOK, CallsIn, ResolvedOK, Done
  <2>2. TargetsOK'
    BY <1>0, <1>4 DEF QuietStep, Known, TargetsOK, TargetOK, Done, FinishedBefore, RequestedBefore
  <2> QED BY <2>1, <2>2 DEF Known
<1> QED
  BY <1>1, <1>2, <1>3, <1>4, AskKeepsKnown, ReturnKeepsKnown, EnterKeepsKnown, ForgetKeepsKnown
  DEF FaultlessStep

\* A question that was given up stays so, and only the application gives one up.
LEMMA GivenUp ==
  ASSUME Inv, [Next]_vars, NEW c \in Calls
  PROVE  /\ qstate[c] = "canceled" => qstate'[c] = "canceled"
         /\ qstate'[c] = "canceled" => qstate[c] = "canceled" \/ MayCancel = TRUE
<1> DEFINE Kept ==
         /\ qstate[c] = "canceled" => qstate'[c] = "canceled"
         /\ qstate'[c] = "canceled" => qstate[c] = "canceled" \/ MayCancel = TRUE
<1>0. TypeOK /\ QuestionTableOK /\ qstate \in [Calls -> QuestionState]
  BY DEF Inv, TypeOK
<1>1. ASSUME NEW d \in Calls, NEW st, qstate[d] # "canceled", qstate' = [qstate EXCEPT ![d] = st],
             st # "canceled"
      PROVE  Kept
  BY <1>0, <1>1
<1>2. ASSUME NEW d \in Calls, NEW p \in Calls,
             Bootstrap(d) \/ PipelineCall(d, p) \/ ImportCall(d, p) \/ CallBroken(d, p)
      PROVE  Kept
  <2>1. qstate[d] = "unused" /\ \E st \in {"waiting", "failed"} : qstate' = [qstate EXCEPT ![d] = st]
    BY <1>2 DEF Bootstrap, PipelineCall, ImportCall, CallBroken, NewQuestion
  <2> QED BY <1>1, <2>1
<1>3. ASSUME NEW d \in Calls, Cancel(d) \/ CloseRoot(d) \/ CloseDerived(d) PROVE Kept
  <2>1. qstate[d] = "waiting"
    BY <1>0, <1>3, RpcCallsAssumption
    DEF Cancel, CloseRoot, CloseDerived, Asked, QuestionTableOK, TypeOK
  <2>2. MayCancel = TRUE /\ (qstate' = qstate \/ qstate' = [qstate EXCEPT ![d] = "canceled"])
    BY <1>3, RpcCallsAssumption DEF Cancel, CloseRoot, CloseDerived, GiveUp
  <2> QED BY <1>0, <2>1, <2>2
<1>4. ASSUME NEW m \in Range(toCaller), questions[m.id] # None
      PROVE  questions[m.id] \in Calls /\ qstate[questions[m.id]] = "waiting"
  BY <1>0, <1>4, ArrivesTyped DEF QuestionTableOK, TypeOK
<1>5. CASE HandleReturn
  <2>1. PICK m \in Range(toCaller) :
          /\ questions[m.id] # None
          /\ qstate' = [qstate EXCEPT ![questions[m.id]] = Settled(m.type)]
    BY <1>5 DEF HandleReturn
  <2> QED BY <1>1, <1>4, <2>1 DEF Settled
<1>6. ASSUME NEW d \in Calls, NEW p \in Calls, HandleReturnReentered(d, p) PROVE Kept
  <2>1. PICK m \in Range(toCaller) :
          /\ questions[m.id] # None /\ qstate[d] = "unused"
          /\ qstate' = [qstate EXCEPT ![questions[m.id]] = "failed", ![d] = "waiting"]
    BY <1>6 DEF HandleReturnReentered
  <2> QED BY <1>0, <1>4, <2>1
<1>7. CASE ReturnForUnknownQuestion \/ CallerAborted
  <2>1. \A d \in Calls : Asked(d) => qstate[d] = "waiting"
    BY <1>0, RpcCallsAssumption DEF Asked, QuestionTableOK, TypeOK
  <2>2. qstate'[c] = IF Asked(c) THEN "failed" ELSE qstate[c]
    BY <1>7 DEF ReturnForUnknownQuestion, CallerAborted, ShutdownCaller, QuestionsFail
  <2> QED BY <2>1, <2>2
<1>8. CASE UNCHANGED vars \/ CalleeHandles \/ \E d \in Calls : Fulfill(d) \/ Reject(d)
  <2>1. qstate' = qstate
    BY <1>8 DEF CalleeHandles, HandleBootstrap, HandleCallRun,
       HandleCallOnError, HandleCallQueue, HandleCallUnimplemented, HandleCallAbort,
       CalleeAborted, HandleFinish, FlushNext, RejectNext, RejectEntry, Fulfill, Reject,
       callerVars, vars
  <2> QED BY <2>1
<1>9. Kept
  <2>1. ASSUME NEW d \in Calls, Bootstrap(d) PROVE Kept
    BY <1>2, <2>1
  <2>2. CASE CallerHandles
    BY <1>5, <1>7, <2>2 DEF CallerHandles
  <2> QED BY <1>2, <1>3, <1>6, <1>8, <2>1, <2>2 DEF Next
<1> QED BY <1>9

\* What was given up, made in a dispose method or refused remains so.
LEMMA OnceDisturbed ==
  ASSUME Inv, [Next]_vars, Undisturbed'
  PROVE  Undisturbed
<1>1. reentered \subseteq reentered'
  BY DEF Next, vars, Bootstrap, PipelineCall, ImportCall, CallBroken, Cancel, CloseRoot,
     CloseDerived, GiveUp, HandleReturnReentered, CallerHandles, HandleReturn,
     ReturnForUnknownQuestion, CallerAborted, ShutdownCaller, CalleeHandles, HandleBootstrap,
     HandleCallRun, HandleCallOnError, HandleCallQueue, HandleCallUnimplemented,
     HandleCallAbort, CalleeAborted, HandleFinish, FlushNext, RejectNext, RejectEntry,
     Fulfill, Reject, callerVars
<1>2. refused \subseteq refused'
  BY DEF Next, vars, Bootstrap, PipelineCall, ImportCall, CallBroken, Cancel, CloseRoot,
     CloseDerived, GiveUp, HandleReturnReentered, CallerHandles, HandleReturn,
     ReturnForUnknownQuestion, CallerAborted, CalleeHandles, HandleBootstrap,
     HandleCallRun, HandleCallOnError, HandleCallQueue, HandleCallUnimplemented,
     HandleCallAbort, CalleeAborted, ShutdownCallee, HandleFinish, FlushNext, RejectNext,
     RejectEntry, Fulfill, Reject, calleeVars
<1> QED BY <1>1, <1>2, GivenUp DEF Undisturbed

\* What both sides know holds until a question is given up, a call is made in a
\* dispose method, or a call is refused.
LEMMA ConnInvAlways == Spec => [](Undisturbed => ConnInv)
<1>1. Init => ConnInv
  <2> SUFFICES ASSUME Init PROVE ConnInv
    OBVIOUS
  <2>1. RequestedOnce(toCallee) /\ CallsIn(toCallee) = {} /\ Range(toCallee) = {} /\ Range(toCaller) = {}
    BY RangeOfEmpty DEF Init, RequestedOnce, CallsIn
  <2>2. Inv
    BY InitInv
  <2>3. RunInv
    BY <2>1, RangeOfEmpty DEF Init, RunInv, OnePlace, RunOnce
  <2>4. IdInv
    BY <2>1 DEF Init, IdInv, NoAborts, RequestsOK, FinishesOK, TablesOK, ReturnsOK, Unfinished
  <2>5. MadeOK /\ ResolvedOK /\ TargetsOK
    BY <2>1, RangeOfEmpty DEF Init, MadeOK, ResolvedOK, TargetsOK
  <2> QED BY <2>2, <2>3, <2>4, <2>5 DEF ConnInv
<1>2. Inv /\ RunInv /\ Inv' /\ RunInv' /\ (Undisturbed => ConnInv) /\ [Next]_vars
        => (Undisturbed => ConnInv)'
  BY OnceDisturbed, StepsFaultless, StepKeepsIds, StepKeepsKnown DEF ConnInv, Known
<1> QED BY <1>1, <1>2, RunInvAlways, PTL DEF Spec

\* Without cancellation, re-entrance and unknown methods nothing of it happens.
LEMMA NeverDisturbed ==
  ASSUME NoFaults
  PROVE  Spec => []Undisturbed
<1>1. Init => Undisturbed
  BY DEF Init, Undisturbed
<1>2. ASSUME Undisturbed, ConnInv, [Next]_vars PROVE Undisturbed'
  <2>1. \A c \in Calls : qstate'[c] # "canceled"
    BY <1>2, GivenUp DEF ConnInv, NoFaults, Undisturbed
  <2>2. reentered' = reentered
    BY <1>2 DEF NoFaults, Next, vars, Bootstrap, PipelineCall, ImportCall, CallBroken, Cancel,
       CloseRoot, CloseDerived, GiveUp, HandleReturnReentered, CallerHandles, HandleReturn,
       ReturnForUnknownQuestion, CallerAborted, ShutdownCaller, CalleeHandles,
       HandleBootstrap, HandleCallRun, HandleCallOnError, HandleCallQueue,
       HandleCallUnimplemented, HandleCallAbort, CalleeAborted, HandleFinish, FlushNext,
       RejectNext, RejectEntry, Fulfill, Reject, callerVars
  <2>3. CASE HandleBootstrap
    <3>1. PICK m \in Range(toCallee) :
            /\ Arrived(m) /\ m.type = "bootstrap"
            /\ answers[m.id] = None => UNCHANGED refused
      BY <2>3 DEF HandleBootstrap
    <3>2. IsRequest(m)
      BY <3>1 DEF IsRequest
    <3>3. answers[m.id] = None
      BY <1>2, <3>1, <3>2, RequestArrives
    <3> QED BY <1>2, <2>1, <2>2, <3>1, <3>3 DEF Undisturbed
  <2>4. CASE ~ HandleBootstrap
    <3>1. refused' = refused
      BY <1>2, <2>4 DEF NoFaults, Next, vars, Bootstrap, PipelineCall, ImportCall, CallBroken,
         Cancel, CloseRoot, CloseDerived, GiveUp, HandleReturnReentered, CallerHandles,
         HandleReturn, ReturnForUnknownQuestion, CallerAborted, CalleeHandles,
         HandleCallRun, HandleCallOnError, HandleCallQueue, HandleCallUnimplemented,
         HandleCallAbort, CalleeAborted, ShutdownCallee, HandleFinish, FlushNext, RejectNext,
         RejectEntry, Fulfill, Reject, calleeVars
    <3> QED BY <1>2, <2>1, <2>2, <3>1 DEF Undisturbed
  <2> QED BY <2>3, <2>4
<1> QED BY <1>1, <1>2, ConnInvAlways, PTL DEF Spec

\* "A question ID can be reused once ... a matching Return has been received":
\* popQuestion frees the id of a question that was answered, so that no two
\* unanswered questions share it and a Return settles its own question, when
\* the program cancels nothing, disposes of nothing that calls back and calls
\* no unknown method.
THEOREM ReturnsReachTheirQuestion ==
  ASSUME NoFaults
  PROVE  Spec => []OneUnansweredPerId
<1>1. ConnInv => OneUnansweredPerId
  <2> SUFFICES ASSUME ConnInv, NEW b \in Calls, NEW c \in Calls, b # c, qid[b] # -1,
                      qid[b] = qid[c], ReturnOutstanding(b), ReturnOutstanding(c)
               PROVE  FALSE
    BY DEF OneUnansweredPerId
  <2>0. Inv /\ IdInv /\ TypeOK /\ QuestionTableOK /\ None \notin Calls
    BY RpcCallsAssumption DEF ConnInv, Inv
  <2>1. ASSUME NEW d \in Calls, ReturnOutstanding(d)
        PROVE  \E i \in Ids : questions[i] = d
    <3>1. CASE \E m \in Range(toCallee) : m.call = d /\ IsRequest(m)
      <4>1. PICK m \in Range(toCallee) : m.call = d /\ IsRequest(m)
        BY <3>1
      <4>2. PICK j \in DOMAIN toCallee : toCallee[j] = m
        BY DEF Range
      <4>3. questions[m.id] = d /\ m.id \in Ids
        BY <2>0, <4>1, <4>2, ArrivesTyped DEF IdInv, RequestsOK
      <4> QED BY <4>3
    <3>2. CASE astate[d] \in Unfinished
      <4>1. aid[d] \in Ids /\ answers[aid[d]] = d
        BY <2>0, <3>2 DEF IdInv, TablesOK, InTable
      <4>2. ~ \E m \in Range(toCallee) : m.type = "finish" /\ m.id = aid[d]
        BY <2>0, <3>2, <4>1 DEF IdInv, FinishesOK, Done, Unfinished
      <4>3. questions[aid[d]] = d
        BY <2>0, <4>1, <4>2 DEF IdInv, TablesOK
      <4> QED BY <4>1, <4>3
    <3>3. CASE \E m \in Range(toCaller) : m.call = d /\ IsReturn(m)
      BY <2>0, <3>3, ArrivesTyped DEF IdInv, ReturnsOK
    <3> QED BY <2>1, <3>1, <3>2, <3>3 DEF ReturnOutstanding, IsRequest
  <2>2. PICK i \in Ids : questions[i] = b
    BY <2>1
  <2>3. PICK j \in Ids : questions[j] = c
    BY <2>1
  <2>4. qid[b] = i /\ qid[c] = j
    BY <2>0, <2>2, <2>3 DEF QuestionTableOK
  <2> QED BY <2>2, <2>3, <2>4
<1> QED BY <1>1, ConnInvAlways, NeverDisturbed, PTL

\* Two vats running this code abort the connection only after a question was
\* given up, a call was made in a dispose method, or an interface or method was
\* unknown: until then, however the messages cross and the ids are reused, each
\* Return is for a question, and each Call has an id that is free and a target
\* in the table.
THEOREM AbortsOnlyIfDisturbed == Spec => []NoProtocolError
<1>1. (Undisturbed => ConnInv) => NoProtocolError
  BY DEF ConnInv, IdInv, NoAborts, NoProtocolError
<1> QED BY <1>1, ConnInvAlways, PTL

-----------------------------------------------------------------------------
(* What the queues and the Returns hold.                                   *)

LEMMA AskKeepsAnswers ==
  ASSUME ConnInv, AnswersOK, NEW c \in Calls, NEW p \in Calls \cup {None}, NEW m \in Message,
         AskStep(c, p, m)
  PROVE  AnswersOK'
<1>0. TypeOK /\ OnePlace /\ RunOnce
  BY DEF ConnInv, Inv, RunInv
<1>1. /\ qstate[c] = "unused" /\ made' = Append(made, [through |-> p, call |-> c])
      /\ UNCHANGED <<astate, pipelined, flushing, ran, toCaller>>
  BY DEF AskStep, calleeVars
<1>2. /\ DOMAIN made' = DOMAIN made \cup {Len(made) + 1}
      /\ \A k \in DOMAIN made : made'[k] = made[k]
      /\ made'[Len(made) + 1].call = c
  BY <1>0, <1>1, HistoryExtended
<1>3. c \notin Range(flushing)
  BY <1>0, <1>1 DEF OnePlace, RunOnce
<1>4. \A i \in DOMAIN made' : made'[i].call \in Range(flushing') =>
        (made[i].through # None /\ Done(made[i].through))'
  BY <1>1, <1>2, <1>3 DEF AnswersOK, Done
<1> QED BY <1>1, <1>4 DEF AnswersOK

LEMMA ReturnKeepsAnswers ==
  ASSUME ConnInv, AnswersOK, NEW m \in Range(toCaller), ReturnStep(m)
  PROVE  AnswersOK'
<1>1. /\ UNCHANGED <<astate, pipelined, flushing, ran, made>>
      /\ toCaller # <<>> /\ toCaller' = Tail(toCaller) /\ toCaller \in Seq(Message)
  BY DEF ReturnStep, calleeVars, ConnInv, Inv, TypeOK
<1>2. Range(toCaller') \subseteq Range(toCaller)
  BY <1>1, RangeOfTail
<1> QED BY <1>1, <1>2 DEF AnswersOK, Done

\* A call that arrives is queued only on an answer that is not done.
LEMMA EnterKeepsAnswers ==
  ASSUME ConnInv, AnswersOK, NEW m \in Range(toCallee),
         NEW st \in {"ok", "running", "failing", "queued", "err"}, EnterStep(m, st)
  PROVE  AnswersOK'
<1> DEFINE c == m.call
<1>0. TypeOK
  BY DEF ConnInv, Inv
<1>1. /\ astate[c] = "none" /\ m.id \in Ids /\ c \in Calls /\ m.on \in Ids
  BY <1>0, RequestArrives, ArrivesTyped DEF EnterStep
<1>2. /\ astate' = [astate EXCEPT ![c] = st]
      /\ UNCHANGED <<callerVars, flushing>>
      /\ \/ /\ st = "ok" /\ toCaller' = Append(toCaller, Msg("results", m.id, c))
            /\ ran' = Append(ran, c) /\ UNCHANGED pipelined
         \/ /\ st = "running" /\ UNCHANGED toCaller
            /\ ran' = Append(ran, c) /\ UNCHANGED pipelined
         \/ /\ st = "failing" /\ UNCHANGED <<toCaller, ran, pipelined>>
         \/ /\ st = "queued" /\ answers[m.on] # None /\ astate[answers[m.on]] \in Unfinished
            /\ QueueCall(answers[m.on], c) /\ UNCHANGED <<toCaller, ran>>
         \/ /\ st = "err" /\ toCaller' = Append(toCaller, Msg("exception", m.id, c))
            /\ UNCHANGED <<ran, pipelined>>
      /\ astate \in [Calls -> AnswerState] /\ answers \in [Ids -> Calls \cup {None}]
      /\ pipelined \in [Calls -> Seq(Calls)] /\ toCaller \in Seq(Message) /\ ran \in Seq(Calls)
  BY <1>0 DEF EnterStep, NewEntry, TypeOK
<1>3. /\ Msg("results", m.id, c) \in Message /\ Msg("exception", m.id, c) \in Message
      /\ Msg("results", m.id, c).call = c /\ Msg("exception", m.id, c).type # "results"
  BY <1>1, MessagesTyped DEF Msg
<1> HIDE DEF c
<1>4. \A d \in Calls : astate'[d] = IF d = c THEN st ELSE astate[d]
  BY <1>1, <1>2
<1>5. \A d \in Calls : Done(d) => Done(d)'
  BY <1>1, <1>4 DEF Done
<1>6. Range(ran') = Range(ran) \cup IF st \in {"ok", "running"} THEN {c} ELSE {}
  BY <1>1, <1>2, RangeOfAppend
<1>7. ASSUME NEW q \in Calls, pipelined'[q] # <<>> PROVE astate'[q] \in Unfinished
  <2>1. CASE pipelined'[q] = pipelined[q]
    BY <1>1, <1>4, <1>7, <2>1 DEF AnswersOK, Unfinished
  <2>2. CASE pipelined'[q] # pipelined[q]
    <3>1. q = answers[m.on] /\ astate[q] \in Unfinished
      BY <1>1, <1>2, <2>2 DEF QueueCall
    <3> QED BY <1>1, <1>4, <3>1 DEF Unfinished
  <2> QED BY <2>1, <2>2
<1>8. \A i \in DOMAIN made' : made'[i].call \in Range(flushing') =>
        (made[i].through # None /\ Done(made[i].through))'
  BY <1>0, <1>2, <1>5, HistoryTyped DEF AnswersOK, callerVars
<1>9. \A d \in Calls : astate'[d] \in {"running", "ok"} => d \in Range(ran')
  BY <1>4, <1>6 DEF AnswersOK
<1>10. ASSUME NEW x \in Range(toCaller'), x.type = "results" PROVE x.call \in Range(ran')
  <2>1. \/ Range(toCaller') = Range(toCaller)
        \/ st = "ok" /\ Range(toCaller') = Range(toCaller) \cup {Msg("results", m.id, c)}
        \/ Range(toCaller') = Range(toCaller) \cup {Msg("exception", m.id, c)}
    <3>1. /\ Range(Append(toCaller, Msg("results", m.id, c))) = Range(toCaller) \cup {Msg("results", m.id, c)}
          /\ Range(Append(toCaller, Msg("exception", m.id, c)))
               = Range(toCaller) \cup {Msg("exception", m.id, c)}
      BY <1>2, <1>3, RangeOfAppend
    <3> QED BY <1>2, <3>1
  <2> QED BY <1>3, <1>6, <1>10, <2>1 DEF AnswersOK
<1> QED BY <1>7, <1>8, <1>9, <1>10 DEF AnswersOK

\* AnswerEntry.fulfill hands over its own queue; what is rejected queues nothing.
LEMMA EndKeepsAnswers ==
  ASSUME ConnInv, AnswersOK, NEW c \in Calls, NEW st \in {"ok", "err"}, EndStep(c, st)
  PROVE  AnswersOK'
<1>0. TypeOK /\ IdInv /\ MadeOK
  BY DEF ConnInv, Inv
<1>1. /\ astate[c] \in Unfinished /\ astate' = [astate EXCEPT ![c] = st]
      /\ pipelined' = [pipelined EXCEPT ![c] = <<>>]
      /\ \/ /\ st = "ok" /\ astate[c] = "running" /\ flushing' = pipelined[c]
            /\ toCaller' = Append(toCaller, Msg("results", aid[c], c))
         \/ /\ st = "err" /\ UNCHANGED flushing
            /\ toCaller' = Append(toCaller, Msg("exception", aid[c], c))
      /\ UNCHANGED <<callerVars, ran>>
      /\ astate \in [Calls -> AnswerState]
      /\ pipelined \in [Calls -> Seq(Calls)] /\ toCaller \in Seq(Message)
  BY <1>0 DEF EndStep, TypeOK
<1>2. aid[c] \in Ids
  BY <1>0, <1>1 DEF IdInv, TablesOK, InTable
<1>3. /\ Msg("results", aid[c], c) \in Message /\ Msg("exception", aid[c], c) \in Message
      /\ Msg("results", aid[c], c).call = c /\ Msg("exception", aid[c], c).type # "results"
  BY <1>2, MessagesTyped DEF Msg
<1>4. \A d \in Calls : /\ astate'[d] = (IF d = c THEN st ELSE astate[d])
                       /\ pipelined'[d] = (IF d = c THEN <<>> ELSE pipelined[d])
  BY <1>1
<1>5. \A d \in Calls : Done(d) => Done(d)'
  BY <1>4 DEF Done
<1>6. \A q \in Calls : pipelined'[q] # <<>> => astate'[q] \in Unfinished
  BY <1>4 DEF AnswersOK
<1>7. ASSUME NEW i \in DOMAIN made', made'[i].call \in Range(flushing')
      PROVE  (made[i].through # None /\ Done(made[i].through))'
  <2>1. made' = made /\ made[i].through \in Calls \cup {None}
    BY <1>0, <1>1, HistoryTyped DEF callerVars
  <2>2. CASE UNCHANGED flushing
    BY <1>5, <1>7, <2>1, <2>2 DEF AnswersOK
  <2>3. CASE flushing' = pipelined[c]
    <3>1. made[i].through = c
      BY <1>0, <1>7, <2>1, <2>3 DEF MadeOK
    <3>2. c # None /\ Done(c)'
      BY <1>4, RpcCallsAssumption DEF Done
    <3> QED BY <2>1, <3>1, <3>2
  <2> QED BY <1>1, <2>2, <2>3
<1>8. \A d \in Calls : astate'[d] \in {"running", "ok"} => d \in Range(ran')
  BY <1>1, <1>4 DEF AnswersOK
<1>9. ASSUME NEW x \in Range(toCaller'), x.type = "results" PROVE x.call \in Range(ran')
  <2>1. \/ /\ astate[c] = "running"
           /\ Range(toCaller') = Range(toCaller) \cup {Msg("results", aid[c], c)}
        \/ Range(toCaller') = Range(toCaller) \cup {Msg("exception", aid[c], c)}
    <3>1. /\ Range(Append(toCaller, Msg("results", aid[c], c)))
               = Range(toCaller) \cup {Msg("results", aid[c], c)}
          /\ Range(Append(toCaller, Msg("exception", aid[c], c)))
               = Range(toCaller) \cup {Msg("exception", aid[c], c)}
      BY <1>1, <1>3, RangeOfAppend
    <3> QED BY <1>1, <3>1
  <2> QED BY <1>1, <1>3, <1>9, <2>1 DEF AnswersOK
<1> QED BY <1>6, <1>7, <1>8, <1>9 DEF AnswersOK

\* QueueClient.flushQueue: the delivered call runs.
LEMMA FlushKeepsAnswers ==
  ASSUME ConnInv, AnswersOK, FlushNext
  PROVE  AnswersOK'
<1>0. TypeOK
  BY DEF ConnInv, Inv
<1> DEFINE c == Head(flushing)
<1>1. /\ c \in Calls /\ Range(flushing') \subseteq Range(flushing)
      /\ Range(ran') = Range(ran) \cup {c}
      /\ astate' = [astate EXCEPT ![c] = IF @ = "queued" THEN "running" ELSE @]
      /\ UNCHANGED <<callerVars, pipelined, toCaller>>
      /\ astate \in [Calls -> AnswerState]
  BY <1>0, RangeOfTail, RangeOfAppend DEF FlushNext, TypeOK
<1> HIDE DEF c
<1>2. \A d \in Calls : astate'[d] = IF d = c /\ astate[d] = "queued" THEN "running" ELSE astate[d]
  BY <1>1
<1>3. \A d \in Calls : Done(d) => Done(d)'
  BY <1>2 DEF Done
<1>4. \A q \in Calls : pipelined'[q] # <<>> => astate'[q] \in Unfinished
  BY <1>1, <1>2 DEF AnswersOK, Unfinished
<1>5. \A i \in DOMAIN made' : made'[i].call \in Range(flushing') =>
        (made[i].through # None /\ Done(made[i].through))'
  BY <1>0, <1>1, <1>3, HistoryTyped DEF AnswersOK, callerVars
<1>6. \A d \in Calls : astate'[d] \in {"running", "ok"} => d \in Range(ran')
  BY <1>1, <1>2 DEF AnswersOK
<1> QED BY <1>1, <1>4, <1>5, <1>6 DEF AnswersOK

LEMMA StepKeepsAnswers ==
  ASSUME ConnInv, AnswersOK, FaultlessStep
  PROVE  AnswersOK'
<1>1. ASSUME UNCHANGED <<made, astate, pipelined, flushing, ran, toCaller>> PROVE AnswersOK'
  BY <1>1 DEF AnswersOK, Done
<1>2. ASSUME NEW c \in Calls, NEW p \in Calls, CallBroken(c, p) PROVE AnswersOK'
  BY <1>1, <1>2 DEF CallBroken, calleeVars
<1>3. ASSUME NEW m \in Range(toCallee), ForgetStep(m) PROVE AnswersOK'
  BY <1>1, <1>3 DEF ForgetStep, callerVars
<1>4. CASE QuietStep
  BY <1>1, <1>4 DEF QuietStep
<1> QED
  BY <1>2, <1>3, <1>4, AskKeepsAnswers, ReturnKeepsAnswers, EnterKeepsAnswers, EndKeepsAnswers,
     FlushKeepsAnswers DEF FaultlessStep

-----------------------------------------------------------------------------
(* Calls made through one promise stay in order.                           *)

\* Two calls in order are two, each made once and through that promise.
LEMMA InOrderFacts ==
  ASSUME ConnInv, NEW c \in Calls, NEW d \in Calls, NEW p, MadeInOrder(c, d, p)
  PROVE  /\ c # d /\ qstate[c] # "unused" /\ qstate[d] # "unused"
         /\ \A i \in DOMAIN made : made[i].call \in {c, d} => made[i].through = p
<1>1. MadeOK /\ DOMAIN made \subseteq Int
  <2>1. made \in Seq([through : Calls \cup {None}, call : Calls])
    BY DEF ConnInv, Inv, TypeOK
  <2>2. DOMAIN made \subseteq Int
    BY <2>1, LenProperties
  <2> QED BY <2>2 DEF ConnInv
<1>2. PICK a \in DOMAIN made, b \in DOMAIN made :
        /\ a < b /\ made[a].call = c /\ made[a].through = p
        /\ made[b].call = d /\ made[b].through = p
  BY DEF MadeInOrder
<1>3. c # d
  <2>1. a # b
    BY <1>1, <1>2
  <2> QED BY <1>1, <1>2, <2>1 DEF MadeOK
<1> QED BY <1>1, <1>2, <1>3 DEF MadeOK

\* While the first is on its way the second is behind it, and has not run.
LEMMA OnItsWay ==
  ASSUME ConnInv, NEW c \in Calls, NEW d \in Calls, NEW p, Ordered(c, d, p), c \in CallsIn(toCallee)
  PROVE  /\ d \in CallsIn(toCallee) /\ astate[d] = "none" /\ d \notin Range(ran)
         /\ \A q \in Calls : d \notin Range(pipelined[q])
<1>1. toCallee \in Seq(Message) /\ OnePlace /\ RunOnce
  BY DEF ConnInv, Inv, TypeOK, RunInv
<1>2. PICK m \in Range(toCallee) : IsRequest(m) /\ m.call = c
  BY DEF CallsIn
<1>3. PICK j \in DOMAIN toCallee : toCallee[j] = m
  BY DEF Range
<1>4. PICK k \in DOMAIN toCallee : IsRequest(toCallee[k]) /\ toCallee[k].call = d
  BY <1>2, <1>3 DEF Ordered, Ahead, RequestedAfter
<1>5. toCallee[k] \in Range(toCallee)
  BY DEF Range
<1>6. d \in CallsIn(toCallee)
  BY <1>4, <1>5 DEF CallsIn
<1>7. astate[d] = "none"
  BY <1>1, <1>6 DEF OnePlace
<1> QED BY <1>1, <1>6, <1>7 DEF RunOnce

\* What is sent goes behind, what is taken was in front.
LEMMA SentKeepsAhead ==
  ASSUME NEW s, NEW t, NEW m, NEW n, Sent(s, t, m, n), NEW c, NEW d, Ahead(s, c, d),
         ~ (IsRequest(m) /\ m.call = c)
  PROVE  Ahead(t, c, d)
<1> SUFFICES ASSUME NEW j \in DOMAIN t, IsRequest(t[j]), t[j].call = c
             PROVE  RequestedAfter(t, j, d)
  BY DEF Ahead
<1>1. j \in DOMAIN s /\ s[j] = t[j]
  BY DEF Sent
<1>2. RequestedAfter(s, j, d)
  BY <1>1 DEF Ahead
<1> QED BY <1>2 DEF RequestedAfter, Sent

LEMMA TakenKeepsAhead ==
  ASSUME NEW s, NEW t, NEW m, Taken(s, t, m), NEW c, NEW d, Ahead(s, c, d),
         DOMAIN s \subseteq Nat \ {0}
  PROVE  Ahead(t, c, d)
<1> SUFFICES ASSUME NEW j \in DOMAIN t, IsRequest(t[j]), t[j].call = c
             PROVE  RequestedAfter(t, j, d)
  BY DEF Ahead
<1>1. j + 1 \in DOMAIN s /\ s[j + 1] = t[j] /\ j \in Nat
  <2>1. j + 1 \in DOMAIN s /\ s[j + 1] = t[j] /\ j \in Int /\ j + 1 # 1 /\ j + 1 \in Nat \ {0}
    BY DEF Taken
  <2> QED BY <2>1
<1>2. PICK k \in DOMAIN s : k > j + 1 /\ IsRequest(s[k]) /\ s[k].call = d
  BY <1>1 DEF Ahead, RequestedAfter
<1>3. k \in Nat /\ k # 1
  BY <1>1, <1>2
<1>4. k - 1 \in DOMAIN t /\ (k - 1) + 1 = k
  BY <1>3 DEF Taken
<1>5. t[k - 1] = s[k] /\ k - 1 > j
  BY <1>1, <1>2, <1>3, <1>4 DEF Taken
<1> QED BY <1>2, <1>4, <1>5 DEF RequestedAfter

\* A step that makes no call and delivers none, and sends or takes no request.
LEMMA FinishKeepsOrder ==
  ASSUME ConnInv, OrderOK, UNCHANGED <<made, pipelined, flushing, ran>>,
         \/ toCallee' = toCallee
         \/ \E m \in Message : ~ IsRequest(m) /\ toCallee' = Append(toCallee, m)
         \/ toCallee # <<>> /\ toCallee' = Tail(toCallee)
  PROVE  OrderOK'
<1> SUFFICES ASSUME NEW c \in Calls, NEW d \in Calls, NEW p \in Calls \cup {None},
                    MadeInOrder(c, d, p), Ordered(c, d, p)
             PROVE  Ordered(c, d, p)'
  BY DEF OrderOK, MadeInOrder
<1>0. toCallee \in Seq(Message) /\ DOMAIN toCallee \subseteq Nat \ {0}
  BY LenProperties DEF ConnInv, Inv, TypeOK
<1>1. CASE toCallee' = toCallee
  BY <1>1 DEF Ordered, Ahead, RequestedAfter
<1>2. CASE \E m \in Message : ~ IsRequest(m) /\ toCallee' = Append(toCallee, m)
  <2>1. PICK m \in Message : ~ IsRequest(m) /\ toCallee' = Append(toCallee, m)
    BY <1>2
  <2>2. Sent(toCallee, toCallee', m, Len(toCallee) + 1)
    BY <1>0, <2>1, StreamAppended
  <2>3. Ahead(toCallee', c, d)
    BY <2>1, <2>2, SentKeepsAhead DEF Ordered
  <2> QED BY <2>3 DEF Ordered
<1>3. CASE toCallee # <<>> /\ toCallee' = Tail(toCallee)
  <2>1. Taken(toCallee, toCallee', Head(toCallee))
    BY <1>0, <1>3, StreamTaken
  <2>2. Ahead(toCallee', c, d)
    BY <1>0, <2>1, TakenKeepsAhead DEF Ordered
  <2> QED BY <2>2 DEF Ordered
<1> QED BY <1>1, <1>2, <1>3

\* Conn.newQuestion: a new call goes behind all the others.
LEMMA AskKeepsOrder ==
  ASSUME ConnInv, OrderOK, NEW e \in Calls, NEW q \in Calls \cup {None}, NEW m \in Message,
         AskStep(e, q, m)
  PROVE  OrderOK'
<1> DEFINE n == Len(toCallee) + 1
<1>0. TypeOK /\ OnePlace /\ RunOnce /\ toCallee \in Seq(Message)
  BY DEF ConnInv, Inv, RunInv, TypeOK
<1>1. /\ qstate[e] = "unused" /\ IsRequest(m) /\ m.call = e
      /\ made' = Append(made, [through |-> q, call |-> e]) /\ toCallee' = Append(toCallee, m)
      /\ UNCHANGED <<pipelined, flushing, ran>>
  BY DEF AskStep, calleeVars
<1>2. Sent(toCallee, toCallee', m, n)
  BY <1>0, <1>1, StreamAppended
<1>3. /\ DOMAIN made' = DOMAIN made \cup {Len(made) + 1} /\ Len(made) + 1 \in Int
      /\ \A k \in DOMAIN made : made'[k] = made[k] /\ k \in Int /\ k < Len(made) + 1
      /\ made'[Len(made) + 1].call = e /\ made'[Len(made) + 1].through = q
  BY <1>0, <1>1, HistoryExtended
<1>4. astate[e] = "none"
  BY <1>0, <1>1 DEF OnePlace
<1>5. \A d \in Calls : d # e => \A i \in DOMAIN made' : made'[i].call = d => i \in DOMAIN made
  BY <1>3
<1>6. \A i \in DOMAIN made : made[i].call # e
  BY <1>1 DEF ConnInv, MadeOK
<1> HIDE DEF n
<1> SUFFICES ASSUME NEW c \in Calls, NEW d \in Calls, NEW p \in Calls \cup {None},
                    MadeInOrder(c, d, p)'
             PROVE  Ordered(c, d, p)'
  BY DEF OrderOK
<1>7. PICK a \in DOMAIN made', b \in DOMAIN made' :
        /\ a < b /\ made'[a].call = c /\ made'[a].through = p
        /\ made'[b].call = d /\ made'[b].through = p
  BY DEF MadeInOrder
<1>8. a \in DOMAIN made
  BY <1>3, <1>7
<1>9. c # e
  BY <1>3, <1>6, <1>7, <1>8
<1>10. CASE d # e
  <2>1. b \in DOMAIN made
    BY <1>5, <1>7, <1>10
  <2>2. MadeInOrder(c, d, p)
    BY <1>3, <1>7, <1>8, <2>1 DEF MadeInOrder
  <2>3. Ordered(c, d, p)
    BY <2>2 DEF OrderOK
  <2>4. Ahead(toCallee', c, d)
    BY <1>1, <1>2, <1>9, <2>3, SentKeepsAhead DEF Ordered
  <2> QED BY <1>1, <2>3, <2>4 DEF Ordered
<1>11. CASE d = e
  <2>1. Ahead(toCallee', c, d)
    <3> SUFFICES ASSUME NEW j \in DOMAIN toCallee', toCallee'[j].call = c
                 PROVE  RequestedAfter(toCallee', j, d)
      BY DEF Ahead
    <3>1. j # n /\ toCallee'[n] = m /\ n \in DOMAIN toCallee'
      BY <1>1, <1>2, <1>9 DEF Sent
    <3>2. n > j
      BY <1>2, <3>1 DEF Sent
    <3> QED BY <1>1, <1>11, <3>1, <3>2 DEF RequestedAfter
  <2>2. d \notin Range(ran) /\ d \notin Range(flushing) /\ \A r \in Calls : d \notin Range(pipelined[r])
    BY <1>0, <1>4, <1>11 DEF RunOnce
  <2>3. /\ \A k \in DOMAIN flushing : flushing[k] # d
        /\ \A r \in Calls : \A k \in DOMAIN pipelined[r] : pipelined[r][k] # d
    BY <2>2 DEF Range
  <2>4. p # None => p \in Calls
    OBVIOUS
  <2> QED BY <1>1, <2>1, <2>2, <2>3, <2>4 DEF Ordered
<1> QED BY <1>10, <1>11

\* A call that arrives while nothing is delivered: it runs when the promise is
\* done, and then no other waits in its queue.
LEMMA EnterKeepsOrder ==
  ASSUME ConnInv, OrderOK, AnswersOK, NEW m \in Range(toCallee),
         NEW st \in {"ok", "running", "failing", "queued", "err"}, EnterStep(m, st)
  PROVE  OrderOK'
<1> DEFINE e == m.call
           q == answers[m.on]
<1>0. /\ TypeOK /\ OnePlace /\ RunOnce /\ toCallee \in Seq(Message)
      /\ DOMAIN toCallee \subseteq Nat \ {0} /\ None \notin Calls
  BY LenProperties, RpcCallsAssumption DEF ConnInv, Inv, RunInv, TypeOK
<1>1. /\ astate[e] = "none" /\ e \in CallsIn(toCallee) /\ e \in Calls /\ m.on \in Ids
      /\ \E i \in DOMAIN made :
           /\ made[i].call = e
           /\ m.type = "pipelined" => made[i].through # None /\ q = made[i].through
           /\ m.type = "call" => made[i].through # None /\ Done(made[i].through)
           /\ m.type = "bootstrap" => made[i].through = None
  BY <1>0, RequestArrives, ArrivesTyped DEF EnterStep
<1>2. /\ toCallee # <<>> /\ m = Head(toCallee) /\ toCallee' = Tail(toCallee)
      /\ flushing = <<>> /\ UNCHANGED <<made, flushing>>
      /\ \/ /\ ran' = Append(ran, e) /\ UNCHANGED pipelined
            /\ \/ m.type \in {"bootstrap", "call"}
               \/ m.type = "pipelined" /\ q # None /\ Done(q)
         \/ UNCHANGED <<ran, pipelined>>
         \/ /\ m.type = "pipelined" /\ q # None /\ QueueCall(q, e) /\ UNCHANGED ran
      /\ pipelined \in [Calls -> Seq(Calls)] /\ ran \in Seq(Calls)
      /\ answers \in [Ids -> Calls \cup {None}]
  BY <1>0 DEF EnterStep, CalleeIdle, Arrived, callerVars, TypeOK
<1>3. Taken(toCallee, toCallee', m)
  BY <1>0, <1>2, StreamTaken
<1> HIDE DEF e, q
<1> SUFFICES ASSUME NEW c \in Calls, NEW d \in Calls, NEW p \in Calls \cup {None},
                    MadeInOrder(c, d, p), Ordered(c, d, p)
             PROVE  Ordered(c, d, p)'
  BY <1>2 DEF OrderOK, MadeInOrder
<1>4. Ahead(toCallee', c, d)
  BY <1>0, <1>3, TakenKeepsAhead DEF Ordered
<1>5. c \notin Range(flushing') /\ \A j \in DOMAIN flushing' : flushing'[j] # c
  BY <1>2, RangeOfEmpty DEF Range
<1>6. ASSUME p # None
      PROVE  /\ c \in Range(pipelined'[p]) => d \notin Range(ran')
             /\ \A j, k \in DOMAIN pipelined'[p] :
                  pipelined'[p][j] = c /\ pipelined'[p][k] = d => j < k
  <2>1. p \in Calls /\ pipelined[p] \in Seq(Calls)
    BY <1>2, <1>6
  <2>2. CASE ran' = Append(ran, e) /\ UNCHANGED pipelined
    <3>1. ASSUME c \in Range(pipelined[p]) PROVE d # e
      <4>1. astate[p] \in Unfinished
        <5>1. pipelined[p] # <<>>
          BY <3>1, RangeOfEmpty
        <5> QED BY <2>1, <5>1 DEF AnswersOK
      <4>2. ~ Done(p)
        BY <4>1 DEF Done, Unfinished
      <4>3. ASSUME d = e PROVE FALSE
        <5>1. \A i \in DOMAIN made : made[i].call = e => made[i].through = p
          BY <4>3, InOrderFacts
        <5>2. /\ m.type = "pipelined" => q = p
              /\ m.type = "call" => Done(p)
              /\ m.type # "bootstrap"
          BY <1>1, <1>6, <5>1
        <5>3. \/ m.type \in {"bootstrap", "call"}
              \/ m.type = "pipelined" /\ q # None /\ Done(q)
          <6>1. ran' # ran
            BY <1>2, <2>2, AppendProperties
          <6> QED BY <1>2, <6>1
        <5> QED BY <4>2, <5>2, <5>3
      <4> QED BY <4>3
    <3>2. Range(ran') = Range(ran) \cup {e}
      BY <1>1, <1>2, <2>2, RangeOfAppend
    <3> QED BY <2>2, <3>1, <3>2, <1>6 DEF Ordered
  <2>3. CASE UNCHANGED <<ran, pipelined>>
    BY <1>6, <2>3 DEF Ordered
  <2>4. CASE m.type = "pipelined" /\ q # None /\ QueueCall(q, e) /\ UNCHANGED ran
    <3>1. q \in Calls
      BY <1>1, <1>2, <2>4 DEF q
    <3>2. pipelined'[p] = IF p = q THEN Append(pipelined[p], e) ELSE pipelined[p]
      BY <1>2, <2>1, <2>4, <3>1 DEF QueueCall
    <3>3. CASE p # q
      BY <1>6, <2>4, <3>2, <3>3 DEF Ordered
    <3>4. CASE p = q
      <4> DEFINE s == pipelined[p]
                 t == pipelined'[p]
                 n == Len(s) + 1
      <4>1. t = Append(s, e)
        BY <3>2, <3>4
      <4>2. Range(t) = Range(s) \cup {e}
        BY <1>1, <2>1, <4>1, RangeOfAppend
      <4>3. /\ DOMAIN t = DOMAIN s \cup {n} /\ n \notin DOMAIN s /\ n \in Int /\ t[n] = e
            /\ \A k \in DOMAIN s : k \in Int /\ k < n /\ t[k] = s[k] /\ s[k] \in Range(s)
        <5>1. s \in Seq(Calls) /\ e \in Calls
          BY <1>1, <2>1
        <5> HIDE DEF s, t
        <5>2. DOMAIN t = DOMAIN s \cup {Len(s) + 1} /\ Len(s) + 1 \notin DOMAIN s
          BY <4>1, <5>1, PositionsOfAppend
        <5>3. Len(s) + 1 \in Int /\ t[Len(s) + 1] = e
          BY <4>1, <5>1, PositionsOfAppend
        <5>4. \A k \in DOMAIN s : k \in Int /\ k < Len(s) + 1 /\ t[k] = s[k] /\ s[k] \in Range(s)
          <6>1. \A k \in DOMAIN s : k \in Int /\ k < Len(s) + 1
            BY <4>1, <5>1, PositionsOfAppend
          <6>2. \A k \in DOMAIN s : t[k] = s[k]
            BY <4>1, <5>1, PositionsOfAppend
          <6>3. \A k \in DOMAIN s : s[k] \in Range(s)
            BY DEF Range
          <6> QED BY <6>1, <6>2, <6>3
        <5> QED BY <5>2, <5>3, <5>4
      <4>4. c = e => d \notin Range(ran) /\ d \notin Range(s)
        BY <1>1, <2>1, OnItsWay
      <4>5. c # d
        BY InOrderFacts
      <4>6. /\ c \in Range(s) => d \notin Range(ran)
            /\ \A j, k \in DOMAIN s : s[j] = c /\ s[k] = d => j < k
        BY <1>6 DEF Ordered
      <4> HIDE DEF s, t, n
      <4>7. c \in Range(t) => d \notin Range(ran')
        BY <2>4, <4>2, <4>4, <4>6
      <4>8. ASSUME NEW j \in DOMAIN t, NEW k \in DOMAIN t, t[j] = c, t[k] = d PROVE j < k
        <5>1. CASE j \in DOMAIN s /\ k \in DOMAIN s
          BY <4>3, <4>6, <4>8, <5>1
        <5>2. CASE j = n /\ k \in DOMAIN s
          BY <4>3, <4>4, <4>8, <5>2
        <5>3. CASE j \in DOMAIN s /\ k = n
          BY <4>3, <5>3
        <5>4. CASE j = n /\ k = n
          BY <4>5, <4>8, <5>4
        <5> QED BY <4>3, <5>1, <5>2, <5>3, <5>4
      <4> QED BY <4>7, <4>8 DEF t
    <3> QED BY <3>3, <3>4
  <2> QED BY <1>2, <2>2, <2>3, <2>4
<1> QED BY <1>4, <1>5, <1>6 DEF Ordered

\* AnswerEntry.fulfill: its queue is what is delivered; reject() drops one.
LEMMA EndKeepsOrder ==
  ASSUME ConnInv, OrderOK, NEW e \in Calls, NEW st \in {"ok", "err"}, EndStep(e, st)
  PROVE  OrderOK'
<1>1. /\ \A q \in Calls : pipelined'[q] = IF q = e THEN <<>> ELSE pipelined[q]
      /\ flushing' = flushing \/ flushing' = pipelined[e]
      /\ UNCHANGED <<made, ran, toCallee>>
      /\ MadeOK /\ None \notin Calls
  BY RpcCallsAssumption DEF EndStep, callerVars, ConnInv, Inv, TypeOK
<1> SUFFICES ASSUME NEW c \in Calls, NEW d \in Calls, NEW p \in Calls \cup {None},
                    MadeInOrder(c, d, p), Ordered(c, d, p)
             PROVE  Ordered(c, d, p)'
  BY <1>1 DEF OrderOK, MadeInOrder
<1>2. Ahead(toCallee', c, d)
  BY <1>1 DEF Ordered
<1>3. /\ c \in Range(flushing') => d \notin Range(ran')
      /\ \A j, k \in DOMAIN flushing' : flushing'[j] = c /\ flushing'[k] = d => j < k
  <2>1. CASE flushing' = flushing
    BY <1>1, <2>1 DEF Ordered
  <2>2. CASE flushing' = pipelined[e]
    <3>1. c \in Range(pipelined[e]) => p = e
      BY <1>1, InOrderFacts DEF MadeOK
    <3>2. \A j \in DOMAIN pipelined[e] : pipelined[e][j] = c => c \in Range(pipelined[e])
      BY DEF Range
    <3>3. p = e => p # None
      BY <1>1
    <3> QED BY <1>1, <2>2, <3>1, <3>2, <3>3 DEF Ordered
  <2> QED BY <1>1, <2>1, <2>2
<1>4. ASSUME p # None
      PROVE  /\ c \in Range(pipelined'[p]) => d \notin Range(ran')
             /\ \A j, k \in DOMAIN pipelined'[p] :
                  pipelined'[p][j] = c /\ pipelined'[p][k] = d => j < k
  <2>1. CASE p = e
    <3>1. pipelined'[p] = <<>> /\ c \notin Range(<<>>) /\ DOMAIN <<>> = {}
      BY <1>1, <2>1, RangeOfEmpty
    <3> QED BY <3>1
  <2>2. CASE p # e
    BY <1>1, <1>4, <2>2 DEF Ordered
  <2> QED BY <2>1, <2>2
<1> QED BY <1>2, <1>3, <1>4 DEF Ordered

\* QueueClient.flushQueue delivers the first.  What waits in a queue was made
\* through a promise that is not done, what is delivered through one that is.
LEMMA FlushKeepsOrder ==
  ASSUME ConnInv, OrderOK, AnswersOK, FlushNext
  PROVE  OrderOK'
<1> DEFINE h == Head(flushing)
           s == flushing
           t == flushing'
<1>1. /\ s \in Seq(Calls) /\ s # <<>> /\ t = Tail(s)
      /\ ran' = Append(ran, h) /\ ran \in Seq(Calls)
      /\ UNCHANGED <<made, pipelined, toCallee>>
  BY DEF FlushNext, callerVars, ConnInv, Inv, TypeOK
<1>2. /\ h \in Calls /\ h \in Range(s) /\ Range(t) \subseteq Range(s)
      /\ Range(ran') = Range(ran) \cup {h}
  BY <1>1, RangeOfTail, RangeOfAppend
<1>3. /\ 1 \in DOMAIN s /\ s[1] = h
      /\ \A k \in DOMAIN s : k \in Int /\ ~ (k < 1)
      /\ \A k \in DOMAIN t :
           k \in Int /\ k + 1 \in DOMAIN s /\ 1 < k + 1 /\ t[k] = s[k + 1] /\ t[k] \in Range(s)
  <2> HIDE DEF s, t
  <2> QED BY <1>1, PositionsOfTail DEF s
<1> HIDE DEF h, s, t
<1> SUFFICES ASSUME NEW c \in Calls, NEW d \in Calls, NEW p \in Calls \cup {None},
                    MadeInOrder(c, d, p), Ordered(c, d, p)
             PROVE  Ordered(c, d, p)'
  BY <1>1 DEF OrderOK, MadeInOrder
<1>4. Ahead(toCallee', c, d)
  BY <1>1 DEF Ordered
<1>5. /\ c \in Range(s) => d \notin Range(ran)
      /\ \A j, k \in DOMAIN s : s[j] = c /\ s[k] = d => j < k
  BY DEF Ordered, s
<1>6. c \in Range(t) => d \notin Range(ran')
  <2> SUFFICES ASSUME c \in Range(t), d = h PROVE FALSE
    BY <1>2, <1>5
  <2>1. PICK k \in DOMAIN t : t[k] = c
    BY DEF Range
  <2>2. k + 1 \in DOMAIN s /\ s[k + 1] = c
    BY <1>3, <2>1
  <2>3. k + 1 < 1
    BY <1>3, <1>5, <2>2
  <2> QED BY <1>3, <2>2, <2>3
<1>7. \A j, k \in DOMAIN t : t[j] = c /\ t[k] = d => j < k
  <2> SUFFICES ASSUME NEW j \in DOMAIN t, NEW k \in DOMAIN t, t[j] = c, t[k] = d PROVE j < k
    OBVIOUS
  <2>1. j \in Int /\ k \in Int /\ j + 1 < k + 1
    BY <1>3, <1>5
  <2> QED BY <2>1
<1>8. ASSUME p # None
      PROVE  /\ c \in Range(pipelined'[p]) => d \notin Range(ran')
             /\ \A j, k \in DOMAIN pipelined'[p] :
                  pipelined'[p][j] = c /\ pipelined'[p][k] = d => j < k
  <2>1. ASSUME c \in Range(pipelined[p]), d = h PROVE FALSE
    <3>1. p \in Calls /\ pipelined[p] # <<>>
      BY <1>8, <2>1, RangeOfEmpty
    <3>2. astate[p] \in Unfinished
      BY <3>1 DEF AnswersOK
    <3>3. PICK i \in DOMAIN made : made[i].call = d /\ made[i].through = p
      BY DEF MadeInOrder
    <3>4. Done(p)
      BY <1>2, <2>1, <3>3 DEF AnswersOK, s
    <3> QED BY <3>2, <3>4 DEF Done, Unfinished
  <2>2. /\ c \in Range(pipelined[p]) => d \notin Range(ran)
        /\ \A j, k \in DOMAIN pipelined[p] : pipelined[p][j] = c /\ pipelined[p][k] = d => j < k
    BY <1>8 DEF Ordered
  <2> QED BY <1>1, <1>2, <2>1, <2>2
<1> QED BY <1>4, <1>6, <1>7, <1>8 DEF Ordered, t

LEMMA StepKeepsOrder ==
  ASSUME ConnInv, OrderOK, AnswersOK, FaultlessStep
  PROVE  OrderOK'
<1>0. TypeOK
  BY DEF ConnInv, Inv
<1>1. ASSUME NEW c \in Calls, NEW p \in Calls, CallBroken(c, p) PROVE OrderOK'
  BY <1>1, FinishKeepsOrder DEF CallBroken, calleeVars
<1>2. ASSUME NEW m \in Range(toCaller), ReturnStep(m) PROVE OrderOK'
  <2>1. m.id \in Ids /\ m.call \in Calls
    BY <1>0, ArrivesTyped
  <2> DEFINE f == Msg("finish", m.id, m.call)
  <2>2. f \in Message /\ ~ IsRequest(f)
    BY <2>1, MessagesTyped, Kinds
  <2>3. UNCHANGED <<made, pipelined, flushing, ran>> /\ toCallee' = Append(toCallee, f)
    BY <1>2 DEF ReturnStep, calleeVars
  <2> HIDE DEF f
  <2> QED BY <2>2, <2>3, FinishKeepsOrder
<1>3. ASSUME NEW m \in Range(toCallee), ForgetStep(m) PROVE OrderOK'
  BY <1>3, FinishKeepsOrder DEF ForgetStep, Arrived, callerVars
<1>4. CASE QuietStep
  BY <1>4, FinishKeepsOrder DEF QuietStep
<1> QED
  BY <1>1, <1>2, <1>3, <1>4, AskKeepsOrder, EnterKeepsOrder, EndKeepsOrder, FlushKeepsOrder
  DEF FaultlessStep

-----------------------------------------------------------------------------
(* The connection implements CallService.                                  *)

ServingInv == ConnInv /\ OrderOK /\ AnswersOK

LEMMA ServingInvAlways ==
  ASSUME NoFaults
  PROVE  Spec => []ServingInv
<1>1. Init => OrderOK /\ AnswersOK
  BY RangeOfEmpty DEF Init, OrderOK, MadeInOrder, AnswersOK
<1>2. Undisturbed' /\ ConnInv /\ OrderOK /\ AnswersOK /\ [Next]_vars => OrderOK' /\ AnswersOK'
  BY StepsFaultless, StepKeepsAnswers, StepKeepsOrder
<1> QED BY <1>1, <1>2, ConnInvAlways, NeverDisturbed, PTL DEF Spec, ServingInv

\* What the caller sees of a call.
Seen(c) ==
  CASE qstate[c] = "unused" -> "idle"
    [] qstate[c] = "waiting" -> "open"
    [] qstate[c] = "resolved" -> "ok"
    [] OTHER -> "failed"

\* No question is settled with the results of another.
LEMMA StatusIsSeen == TypeOK /\ ResolvedOK => Status = [c \in Calls |-> Seen(c)]
<1> SUFFICES ASSUME TypeOK, ResolvedOK PROVE Status = [c \in Calls |-> Seen(c)]
  OBVIOUS
<1>1. ASSUME NEW c \in Calls
      PROVE  (CASE qstate[c] = "unused" -> "idle"
                [] qstate[c] = "waiting" -> "open"
                [] qstate[c] = "resolved" /\ got[c] = c -> "ok"
                [] qstate[c] = "resolved" /\ got[c] # c -> "stolen"
                [] qstate[c] \in {"failed", "canceled"} -> "failed") = Seen(c)
  <2>1. qstate[c] \in QuestionState /\ (qstate[c] = "resolved" => got[c] = c)
    BY DEF ResolvedOK, TypeOK
  <2> QED BY <2>1 DEF QuestionState, Seen
<1> QED BY <1>1 DEF Status

\* A step that leaves the questions alone, or changes one of them.
LEMMA StatusChanges ==
  ASSUME TypeOK, ResolvedOK, TypeOK', ResolvedOK'
  PROVE  /\ \A c \in Calls : Status[c] = Seen(c)
         /\ UNCHANGED qstate => UNCHANGED Status
         /\ \A c \in Calls : \A x : qstate' = [qstate EXCEPT ![c] = x] =>
              /\ x = "waiting" => Status' = [Status EXCEPT ![c] = "open"]
              /\ x = "resolved" => Status' = [Status EXCEPT ![c] = "ok"]
              /\ x = "failed" => Status' = [Status EXCEPT ![c] = "failed"]
<1>1. Status = [c \in Calls |-> Seen(c)]
  BY StatusIsSeen
<1>2. (TypeOK /\ ResolvedOK => Status = [c \in Calls |-> Seen(c)])'
  BY StatusIsSeen, PTL
<1>3. Status' = [c \in Calls |-> Seen(c)']
  BY <1>2
<1>4. UNCHANGED qstate => UNCHANGED Status
  BY <1>1, <1>3 DEF Seen
<1>5. ASSUME NEW c \in Calls, NEW x, qstate' = [qstate EXCEPT ![c] = x], NEW y,
             \/ x = "waiting" /\ y = "open"
             \/ x = "resolved" /\ y = "ok"
             \/ x = "failed" /\ y = "failed"
      PROVE  Status' = [Status EXCEPT ![c] = y]
  <2>1. qstate'[c] = x /\ \A d \in Calls \ {c} : qstate'[d] = qstate[d]
    BY <1>5 DEF TypeOK
  <2>2. Seen(c)' = y /\ \A d \in Calls \ {c} : Seen(d)' = Seen(d)
    BY <1>5, <2>1 DEF Seen
  <2>3. \A d \in Calls : Seen(d)' = IF d = c THEN y ELSE Seen(d)
    BY <2>2
  <2> QED BY <1>1, <1>3, <2>3
<1> QED BY <1>1, <1>4, <1>5

\* The callee runs a call: none made later through its promise has run.
LEMMA RunServes ==
  ASSUME ServingInv, NEW e \in Calls, e \notin Range(ran),
         e \in CallsIn(toCallee) \cup Range(flushing),
         ran' = Append(ran, e), UNCHANGED <<Status, made>>
  PROVE  Service!Next
<1>0. TypeOK /\ ConnInv /\ OrderOK /\ MadeOK
  BY DEF ServingInv, ConnInv, Inv
<1>1. PICK i \in DOMAIN made : made[i].call = e
  BY <1>0 DEF MadeOK
<1>2. ASSUME NEW j \in DOMAIN made, j > i, made[j].through = made[i].through
      PROVE  made[j].call \notin Range(ran)
  <2> DEFINE d == made[j].call
             p == made[i].through
  <2>1. d \in Calls /\ p \in Calls \cup {None}
    BY <1>0, HistoryTyped
  <2>2. i < j
    <3>1. made \in Seq([through : Calls \cup {None}, call : Calls])
      BY <1>0 DEF TypeOK
    <3>2. i \in Int /\ j \in Int
      BY <3>1, LenProperties
    <3> QED BY <1>2, <3>2
  <2>3. MadeInOrder(e, d, p)
    BY <1>1, <1>2, <2>2 DEF MadeInOrder
  <2> HIDE DEF d, p
  <2>4. Ordered(e, d, p)
    BY <1>0, <2>1, <2>3 DEF OrderOK
  <2>5. CASE e \in CallsIn(toCallee)
    BY <1>0, <2>1, <2>4, <2>5, OnItsWay DEF d
  <2>6. CASE e \in Range(flushing)
    BY <2>4, <2>6 DEF Ordered, d
  <2> QED BY <2>5, <2>6
<1>3. Service!InOrder(i)
  BY <1>2 DEF Service!InOrder, Service!Range, Range
<1>4. Service!Run(i)
  BY <1>1, <1>3 DEF Service!Run, Service!Range, Range
<1> QED BY <1>4 DEF Service!Next

\* A Return settles the question it is for: with its own results, which the
\* callee has by then, or with a failure.
LEMMA ReturnServes ==
  ASSUME ServingInv, TypeOK', ResolvedOK', NEW m \in Range(toCaller), ReturnStep(m)
  PROVE  Service!Next
<1> DEFINE c == m.call
<1>0. TypeOK /\ ConnInv /\ ResolvedOK /\ QuestionTableOK /\ None \notin Calls
  BY RpcCallsAssumption DEF ServingInv, ConnInv, Inv
<1>1. /\ IsReturn(m) /\ qstate' = [qstate EXCEPT ![c] = Settled(m.type)]
      /\ UNCHANGED <<made, ran>>
  BY DEF ReturnStep, calleeVars
<1>2. m.id \in Ids /\ c \in Calls /\ questions[m.id] = c
  BY <1>0, <1>1, ReturnArrives
<1>3. qstate[c] = "waiting"
  BY <1>0, <1>2 DEF QuestionTableOK
<1>4. Status[c] = "open" /\ Status = [d \in Calls |-> Seen(d)]
  BY <1>0, <1>2, <1>3, StatusChanges, StatusIsSeen DEF Seen
<1>5. CASE m.type = "results"
  <2>1. Status' = [Status EXCEPT ![c] = "ok"]
    <3>1. Settled(m.type) = "resolved"
      BY <1>5 DEF Settled
    <3> HIDE DEF c
    <3> QED BY <1>0, <1>1, <1>2, <3>1, StatusChanges
  <2>2. c \in Range(ran)
    BY <1>5 DEF ServingInv, AnswersOK
  <2>3. Service!Succeed(c)
    BY <1>1, <1>4, <2>1, <2>2 DEF Service!Succeed, Service!Range, Range
  <2> QED BY <1>2, <2>3 DEF Service!Next
<1>6. CASE m.type # "results"
  <2>1. Status' = [Status EXCEPT ![c] = "failed"]
    <3>1. Settled(m.type) = "failed"
      BY <1>6 DEF Settled
    <3> HIDE DEF c
    <3> QED BY <1>0, <1>1, <1>2, <3>1, StatusChanges
  <2>2. Status' = [d \in Calls |-> IF d \in {c} THEN "failed" ELSE Status[d]]
    BY <1>4, <2>1
  <2>3. Service!Fail({c})
    BY <1>1, <1>4, <2>2 DEF Service!Fail
  <2> QED BY <1>2, <2>3 DEF Service!Next
<1> QED BY <1>5, <1>6

LEMMA StepServes ==
  ASSUME ServingInv, TypeOK', ResolvedOK', FaultlessStep
  PROVE  [Service!Next]_<<Status, made, ran>>
<1>0. TypeOK /\ ConnInv /\ ResolvedOK /\ OnePlace /\ RunOnce
  BY DEF ServingInv, ConnInv, Inv, RunInv
<1>1. ASSUME NEW c \in Calls, NEW p \in Calls \cup {None}, NEW m \in Message, AskStep(c, p, m)
      PROVE  Service!Next
  <2>1. /\ qstate[c] = "unused" /\ qstate' = [qstate EXCEPT ![c] = "waiting"]
        /\ made' = Append(made, [through |-> p, call |-> c]) /\ UNCHANGED ran
    BY <1>1 DEF AskStep, calleeVars
  <2>2. Status[c] = "idle" /\ Status' = [Status EXCEPT ![c] = "open"]
    BY <1>0, <2>1, StatusChanges DEF Seen
  <2>3. Service!Make(c, p)
    BY <2>1, <2>2 DEF Service!Make
  <2> QED BY <2>3 DEF Service!Next
<1>2. ASSUME NEW c \in Calls, NEW p \in Calls, CallBroken(c, p) PROVE Service!Next
  <2>1. /\ qstate[c] = "unused" /\ qstate' = [qstate EXCEPT ![c] = "failed"]
        /\ UNCHANGED <<made, ran>>
    BY <1>2 DEF CallBroken, calleeVars
  <2>2. Status[c] = "idle" /\ Status' = [Status EXCEPT ![c] = "failed"]
    BY <1>0, <2>1, StatusChanges DEF Seen
  <2>3. Service!MakeFails(c)
    BY <2>1, <2>2 DEF Service!MakeFails
  <2> QED BY <2>3 DEF Service!Next
<1>3. ASSUME UNCHANGED <<qstate, made, ran>> PROVE UNCHANGED <<Status, made, ran>>
  BY <1>0, <1>3, StatusChanges
<1>4. ASSUME NEW m \in Range(toCallee), NEW st \in {"ok", "running", "failing", "queued", "err"},
             EnterStep(m, st)
      PROVE  [Service!Next]_<<Status, made, ran>>
  <2>1. UNCHANGED <<qstate, made>> /\ (ran' = Append(ran, m.call) \/ UNCHANGED ran)
    BY <1>4 DEF EnterStep, callerVars
  <2>2. m.call \in CallsIn(toCallee) /\ astate[m.call] = "none" /\ m.call \in Calls
    BY <1>0, <1>4, RequestArrives, ArrivesTyped DEF EnterStep
  <2>3. m.call \notin Range(ran)
    BY <1>0, <2>2 DEF RunOnce
  <2>4. UNCHANGED Status
    BY <1>0, <2>1, StatusChanges
  <2> QED BY <2>1, <2>2, <2>3, <2>4, RunServes
<1>5. CASE FlushNext
  <2>1. /\ UNCHANGED <<qstate, made>> /\ ran' = Append(ran, Head(flushing))
        /\ flushing \in Seq(Calls) /\ flushing # <<>>
    BY <1>0, <1>5 DEF FlushNext, callerVars, TypeOK
  <2>2. Head(flushing) \in Calls /\ Head(flushing) \in Range(flushing)
    BY <2>1, RangeOfTail
  <2>3. Head(flushing) \notin Range(ran)
    BY <1>0, <2>2 DEF RunOnce
  <2>4. UNCHANGED Status
    BY <1>0, <2>1, StatusChanges
  <2> QED BY <2>1, <2>2, <2>3, <2>4, RunServes
<1>6. ASSUME NEW m \in Range(toCallee), ForgetStep(m) PROVE UNCHANGED <<Status, made, ran>>
  BY <1>3, <1>6 DEF ForgetStep, callerVars
<1>7. ASSUME NEW c \in Calls, NEW st \in {"ok", "err"}, EndStep(c, st)
      PROVE  UNCHANGED <<Status, made, ran>>
  BY <1>3, <1>7 DEF EndStep, callerVars
<1>8. CASE QuietStep
  BY <1>3, <1>8 DEF QuietStep
<1>9. ASSUME NEW m \in Range(toCaller), ReturnStep(m) PROVE Service!Next
  BY <1>9, ReturnServes
<1> QED BY <1>1, <1>2, <1>4, <1>5, <1>6, <1>7, <1>8, <1>9 DEF FaultlessStep

\* E-order: without cancellation, re-entrance and unknown methods, the tables,
\* the ids, the messages and the queues of the two vats give the application
\* what CallService describes.  Each call runs at most once, calls made through
\* one promise run in the order they were made, whether they went out before
\* or after it was resolved, and a call succeeds only with its own results.
THEOREM ConnectionIsCallService ==
  ASSUME NoFaults
  PROVE  Spec => ImplementsCallService
<1>1. Init => Service!Init
  <2> SUFFICES ASSUME Init PROVE Service!Init
    OBVIOUS
  <2>1. TypeOK /\ ResolvedOK
    BY InitInv DEF Init, ResolvedOK, Inv
  <2>2. Status = [c \in Calls |-> "idle"]
    <3>1. Status = [c \in Calls |-> Seen(c)] /\ \A c \in Calls : Seen(c) = "idle"
      BY <2>1, StatusIsSeen DEF Init, Seen
    <3> QED BY <3>1
  <2> QED BY <2>2 DEF Init, Service!Init
<1>2. Undisturbed' /\ ServingInv /\ ServingInv' /\ [Next]_vars => [Service!Next]_<<Status, made, ran>>
  BY StepsFaultless, StepServes DEF ServingInv, ConnInv, Inv
<1> QED
  BY <1>1, <1>2, ServingInvAlways, NeverDisturbed, PTL DEF Spec, ImplementsCallService, Service!Spec, Service!vars
-----------------------------------------------------------------------------
(***************************************************************************)
(* With every fault: what the order of requests and Finishes on the stream *)
(* to the callee guarantees.  A Finish goes ahead of the next request with *)
(* its id, and a pipelined Call finds the answer of its promise, except    *)
(* where a call was made in a dispose method or was refused.               *)
(***************************************************************************)

\* The request of c under id i, and a Finish of id i.
Request(m, i, c) == IsRequest(m) /\ m.id = i /\ m.call = c

Finish(m, i) == m.type = "finish" /\ m.id = i

\* With the answer a under id i, the callee has the entry of p there when it
\* has handled the messages of s before position k: the request is among them
\* and no Finish follows it, or the entry is there already and stays.
Reaches(s, k, a, p, i) ==
  \/ \E j \in DOMAIN s :
       /\ j < k /\ Request(s[j], i, p)
       /\ \A l \in DOMAIN s : j < l /\ l < k => ~ Finish(s[l], i)
  \/ a = p /\ \A l \in DOMAIN s : l < k => ~ Finish(s[l], i)

\* FinishBeforeReuse of a stream s, with the calls R made in a dispose method.
Follows(s, R) ==
  \A j, k \in DOMAIN s :
    /\ j < k
    /\ IsRequest(s[j]) /\ s[k].type = "finish"
    /\ s[j].id = s[k].id /\ s[j].call # s[k].call
    => \/ \E l \in DOMAIN s : j < l /\ l < k /\ Request(s[l], s[k].id, s[k].call)
       \/ k = j + 1 /\ s[j].call \in R

\* The last request with the id of a question in the table q is its own.
LastAsked(s, q) ==
  \A i \in Ids : \A j \in DOMAIN s :
    q[i] # None /\ IsRequest(s[j]) /\ s[j].id = i /\ s[j].call # q[i] =>
      \E l \in DOMAIN s : j < l /\ Request(s[l], i, q[i])

\* The questions in the table reach the callee, but for those in X; and so do
\* the promises, as made in D, that the pipelined calls of the stream name.
QuestionsReach(s, q, a, X) ==
  \A i \in Ids : q[i] # None /\ q[i] \notin X => Reaches(s, Len(s) + 1, a[i], q[i], i)

TargetsReach(s, a, X, D) ==
  \A k \in DOMAIN s : s[k].type = "pipelined" =>
    \E p \in Calls : /\ [through |-> p, call |-> s[k].call] \in D
                     /\ p \in X \/ Reaches(s, k, a[s[k].on], p, s[k].on)

StreamInv ==
  /\ Follows(toCallee, reentered)
  /\ LastAsked(toCallee, questions)
  /\ calleeOpen => /\ QuestionsReach(toCallee, questions, answers, reentered \cup refused)
                   /\ TargetsReach(toCallee, answers, reentered \cup refused, Range(made))

\* What the callee has at a position does not depend on what is sent later.
LEMMA ReachSent ==
  ASSUME NEW s \in Seq(Message), NEW m \in Message, NEW a, NEW p, NEW i
  PROVE  LET t == Append(s, m)
             n == Len(s) + 1
         IN /\ \A k \in DOMAIN s \cup {n} : Reaches(s, k, a, p, i) => Reaches(t, k, a, p, i)
            /\ Reaches(s, n, a, p, i) /\ ~ Finish(m, i) => Reaches(t, Len(t) + 1, a, p, i)
            /\ Request(m, i, p) => Reaches(t, Len(t) + 1, a, p, i)
<1> DEFINE t == Append(s, m)
           n == Len(s) + 1
           e == Len(t) + 1
<1>1. /\ t \in Seq(Message) /\ Len(t) = n /\ Len(s) \in Nat /\ n \in Int
      /\ \A k \in DOMAIN s : t[k] = s[k] /\ k \in Int /\ k < n /\ ~(n < k) /\ k \in DOMAIN t
      /\ t[n] = m /\ n \in DOMAIN t
      /\ DOMAIN t = DOMAIN s \cup {n}
      /\ e = n + 1
  BY AppendProperties, LenProperties
<1>2. /\ \A k \in DOMAIN s \cup {n} : ~(n < k)
      /\ \A k \in DOMAIN t : k < e
      /\ \A k \in DOMAIN t : ~(n < k)
  BY <1>1
<1> HIDE DEF t, n, e
<1>3. ASSUME NEW k \in DOMAIN s \cup {n}, Reaches(s, k, a, p, i) PROVE Reaches(t, k, a, p, i)
  BY <1>1, <1>2, <1>3 DEF Reaches
<1>4. ASSUME Reaches(s, n, a, p, i), ~ Finish(m, i) PROVE Reaches(t, e, a, p, i)
  BY <1>1, <1>2, <1>4 DEF Reaches
<1>5. ASSUME Request(m, i, p) PROVE Reaches(t, e, a, p, i)
  BY <1>1, <1>2, <1>5 DEF Reaches
<1> QED BY <1>3, <1>4, <1>5 DEF t, n, e

\* The positions of a stream whose first message is taken.
LEMMA PositionsTaken ==
  ASSUME NEW s \in Seq(Message), s # <<>>, NEW t, t = Tail(s)
  PROVE  /\ t \in Seq(Message) /\ Head(s) = s[1] /\ 1 \in DOMAIN s /\ Head(s) \in Message
         /\ Len(t) + 1 = (Len(s) + 1) - 1 /\ Len(s) + 1 \in Int
         /\ \A k \in DOMAIN s : k \in Int /\ (k # 1 => k - 1 \in DOMAIN t /\ t[k - 1] = s[k] /\ 1 < k)
         /\ \A k \in DOMAIN t : k \in Int /\ k + 1 \in DOMAIN s /\ s[k + 1] = t[k] /\ 1 < k + 1
BY HeadTailProperties, EmptySeq, LenProperties

\* What the callee had at a position it has one position earlier when it has
\* handled the first message as it should.
LEMMA ReachTaken ==
  ASSUME NEW s \in Seq(Message), s # <<>>, NEW a, NEW b, NEW p, NEW i, NEW k \in Int, k > 1,
         Reaches(s, k, a, p, i),
         Request(Head(s), i, p) => b = p,
         a = p /\ ~ Finish(Head(s), i) => b = p
  PROVE  Reaches(Tail(s), k - 1, b, p, i)
<1> DEFINE t == Tail(s)
           h == k - 1
<1>1. /\ Head(s) = s[1] /\ 1 \in DOMAIN s /\ 1 < k
      /\ \A j \in DOMAIN s : j \in Int /\ (j # 1 => j - 1 \in DOMAIN t /\ t[j - 1] = s[j] /\ 1 < j)
      /\ \A j \in DOMAIN t : j \in Int /\ j + 1 \in DOMAIN s /\ s[j + 1] = t[j] /\ 1 < j + 1
  BY PositionsTaken
<1>2. \A j \in DOMAIN t : j < h => j + 1 < k
  BY <1>1
<1>3. \A j \in DOMAIN s : j < k => j - 1 < h
  BY <1>1
<1>4. \A j \in DOMAIN s, l \in DOMAIN t : j - 1 < l => j < l + 1
  BY <1>1
<1> HIDE DEF t, h
<1>5. ASSUME a = p, \A l \in DOMAIN s : l < k => ~ Finish(s[l], i)
      PROVE  Reaches(t, h, b, p, i)
  BY <1>1, <1>2, <1>5 DEF Reaches
<1>6. ASSUME NEW j \in DOMAIN s, j < k, Request(s[j], i, p),
             \A l \in DOMAIN s : j < l /\ l < k => ~ Finish(s[l], i)
      PROVE  Reaches(t, h, b, p, i)
  <2>2. CASE j = 1
    <3>1. b = p /\ \A l \in DOMAIN t : l < h => ~ Finish(t[l], i)
      BY <1>1, <1>2, <1>6, <2>2
    <3> QED BY <3>1 DEF Reaches
  <2>3. CASE j # 1
    <3>1. j - 1 \in DOMAIN t /\ j - 1 < h /\ Request(t[j - 1], i, p)
      BY <1>1, <1>3, <1>6, <2>3
    <3>2. \A l \in DOMAIN t : j - 1 < l /\ l < h => ~ Finish(t[l], i)
      BY <1>1, <1>2, <1>4, <1>6
    <3> QED BY <3>1, <3>2 DEF Reaches
  <2> QED BY <2>2, <2>3
<1>7. Reaches(t, h, b, p, i)
  BY <1>5, <1>6 DEF Reaches
<1> QED BY <1>7 DEF t, h

\* A message is sent: a Finish of the question under its id has no other request
\* between them.
LEMMA FollowsSent ==
  ASSUME NEW s \in Seq(Message), NEW m \in Message, NEW R, NEW R2, Follows(s, R), R \subseteq R2,
         m.type = "finish" =>
           \A j \in DOMAIN s : IsRequest(s[j]) /\ s[j].id = m.id /\ s[j].call # m.call =>
             \/ \E l \in DOMAIN s : j < l /\ Request(s[l], m.id, m.call)
             \/ j = Len(s) /\ s[j].call \in R2
  PROVE  Follows(Append(s, m), R2)
<1> DEFINE t == Append(s, m)
           n == Len(s) + 1
<1>1. /\ \A k \in DOMAIN s : t[k] = s[k] /\ k \in Int /\ k < n /\ ~(n < k) /\ k \in DOMAIN t
      /\ t[n] = m /\ n \in DOMAIN t /\ ~(n < n)
      /\ DOMAIN t = DOMAIN s \cup {n}
  BY AppendProperties, LenProperties
<1> HIDE DEF t
<1> SUFFICES ASSUME NEW j \in DOMAIN t, NEW k \in DOMAIN t, j < k,
                    IsRequest(t[j]), t[k].type = "finish", t[j].id = t[k].id, t[j].call # t[k].call
             PROVE  \/ \E l \in DOMAIN t : j < l /\ l < k /\ Request(t[l], t[k].id, t[k].call)
                    \/ k = j + 1 /\ t[j].call \in R2
  BY DEF Follows, t
<1>2. j \in DOMAIN s
  BY <1>1
<1>3. CASE k \in DOMAIN s
  BY <1>1, <1>2, <1>3 DEF Follows
<1>4. CASE k = n
  BY <1>1, <1>2, <1>4
<1> QED BY <1>1, <1>3, <1>4

LEMMA LastAskedSent ==
  ASSUME NEW s \in Seq(Message), NEW m \in Message, NEW q, NEW r, LastAsked(s, q),
         \A i \in Ids : r[i] = None \/ r[i] = q[i] \/ Request(m, i, r[i]),
         IsRequest(m) => r[m.id] = m.call
  PROVE  LastAsked(Append(s, m), r)
<1> DEFINE t == Append(s, m)
           n == Len(s) + 1
<1>1. /\ \A k \in DOMAIN s : t[k] = s[k] /\ k \in Int /\ k < n /\ k \in DOMAIN t
      /\ t[n] = m /\ n \in DOMAIN t
      /\ DOMAIN t = DOMAIN s \cup {n}
  BY AppendProperties, LenProperties
<1> HIDE DEF t, n
<1> SUFFICES ASSUME NEW i \in Ids, NEW j \in DOMAIN t,
                    r[i] # None, IsRequest(t[j]), t[j].id = i, t[j].call # r[i]
             PROVE  \E l \in DOMAIN t : j < l /\ Request(t[l], i, r[i])
  BY DEF LastAsked, t
<1>2. j \in DOMAIN s
  BY <1>1
<1>3. CASE r[i] = q[i]
  <2>1. PICK l \in DOMAIN s : j < l /\ Request(s[l], i, q[i])
    BY <1>1, <1>2, <1>3 DEF LastAsked
  <2> QED BY <1>1, <1>3, <2>1
<1>4. CASE Request(m, i, r[i])
  BY <1>1, <1>2, <1>4
<1> QED BY <1>3, <1>4

LEMMA QuestionsReachSent ==
  ASSUME NEW s \in Seq(Message), NEW m \in Message, NEW q, NEW r, NEW a, NEW X, NEW Y,
         QuestionsReach(s, q, a, X), X \subseteq Y,
         \A i \in Ids : \/ r[i] = None \/ r[i] \in Y \/ Request(m, i, r[i])
                        \/ r[i] = q[i] /\ ~ Finish(m, i)
  PROVE  QuestionsReach(Append(s, m), r, a, Y)
<1> SUFFICES ASSUME NEW i \in Ids, r[i] # None, r[i] \notin Y
             PROVE  Reaches(Append(s, m), Len(Append(s, m)) + 1, a[i], r[i], i)
  BY DEF QuestionsReach
<1>1. CASE Request(m, i, r[i])
  BY <1>1, ReachSent
<1>2. CASE r[i] = q[i] /\ ~ Finish(m, i)
  <2>1. Reaches(s, Len(s) + 1, a[i], q[i], i)
    BY <1>2 DEF QuestionsReach
  <2> QED BY <1>2, <2>1, ReachSent
<1> QED BY <1>1, <1>2

LEMMA TargetsReachSent ==
  ASSUME NEW s \in Seq(Message), NEW m \in Message, NEW a, NEW X, NEW Y, NEW D, NEW E,
         TargetsReach(s, a, X, D), X \subseteq Y, D \subseteq E,
         m.type = "pipelined" =>
           \E p \in Calls : /\ [through |-> p, call |-> m.call] \in E
                            /\ p \in Y \/ Reaches(s, Len(s) + 1, a[m.on], p, m.on)
  PROVE  TargetsReach(Append(s, m), a, Y, E)
<1> DEFINE t == Append(s, m)
           n == Len(s) + 1
<1>1. /\ \A k \in DOMAIN s : t[k] = s[k]
      /\ t[n] = m
      /\ DOMAIN t = DOMAIN s \cup {n}
  BY AppendProperties, LenProperties
<1>2. \A k \in DOMAIN s \cup {n} : \A p, i : Reaches(s, k, a[i], p, i) => Reaches(t, k, a[i], p, i)
  BY ReachSent
<1> HIDE DEF t, n
<1> SUFFICES ASSUME NEW k \in DOMAIN t, t[k].type = "pipelined"
             PROVE  \E p \in Calls : /\ [through |-> p, call |-> t[k].call] \in E
                                     /\ p \in Y \/ Reaches(t, k, a[t[k].on], p, t[k].on)
  BY DEF TargetsReach, t
<1>3. CASE k \in DOMAIN s
  <2>1. PICK p \in Calls : /\ [through |-> p, call |-> s[k].call] \in D
                           /\ p \in X \/ Reaches(s, k, a[s[k].on], p, s[k].on)
    BY <1>1, <1>3 DEF TargetsReach
  <2> QED BY <1>1, <1>2, <1>3, <2>1
<1>4. CASE k = n
  BY <1>1, <1>2, <1>4 DEF n
<1> QED BY <1>1, <1>3, <1>4

\* The first message is taken.
LEMMA OrderTaken ==
  ASSUME NEW s \in Seq(Message), s # <<>>, NEW R, NEW q
  PROVE  /\ Follows(s, R) => Follows(Tail(s), R)
         /\ LastAsked(s, q) => LastAsked(Tail(s), q)
<1> DEFINE t == Tail(s)
<1>1. /\ \A j \in DOMAIN s : j \in Int /\ (j # 1 => j - 1 \in DOMAIN t /\ t[j - 1] = s[j] /\ 1 < j)
      /\ \A j \in DOMAIN t : j \in Int /\ j + 1 \in DOMAIN s /\ s[j + 1] = t[j] /\ 1 < j + 1
  BY PositionsTaken
<1> HIDE DEF t
<1>2. ASSUME Follows(s, R) PROVE Follows(t, R)
  <2> SUFFICES ASSUME NEW j \in DOMAIN t, NEW k \in DOMAIN t, j < k,
                      IsRequest(t[j]), t[k].type = "finish", t[j].id = t[k].id, t[j].call # t[k].call
               PROVE  \/ \E l \in DOMAIN t : j < l /\ l < k /\ Request(t[l], t[k].id, t[k].call)
                      \/ k = j + 1 /\ t[j].call \in R
    BY DEF Follows
  <2>1. \/ \E l \in DOMAIN s : j + 1 < l /\ l < k + 1 /\ Request(s[l], t[k].id, t[k].call)
        \/ k + 1 = (j + 1) + 1 /\ t[j].call \in R
    <3>1. /\ j + 1 \in DOMAIN s /\ k + 1 \in DOMAIN s /\ j + 1 < k + 1
          /\ s[j + 1] = t[j] /\ s[k + 1] = t[k]
      BY <1>1
    <3> QED BY <1>2, <3>1 DEF Follows
  <2>2. CASE \E l \in DOMAIN s : j + 1 < l /\ l < k + 1 /\ Request(s[l], t[k].id, t[k].call)
    <3>1. PICK l \in DOMAIN s : j + 1 < l /\ l < k + 1 /\ Request(s[l], t[k].id, t[k].call)
      BY <2>2
    <3>2. l \in Int /\ j \in Int /\ k \in Int /\ 1 < j + 1
      BY <1>1
    <3>3. l # 1 /\ j < l - 1 /\ l - 1 < k
      BY <3>1, <3>2
    <3>4. l - 1 \in DOMAIN t /\ t[l - 1] = s[l]
      BY <1>1, <3>3
    <3> QED BY <3>1, <3>3, <3>4
  <2>3. CASE k + 1 = (j + 1) + 1 /\ t[j].call \in R
    BY <1>1, <2>3
  <2> QED BY <2>1, <2>2, <2>3
<1>3. ASSUME LastAsked(s, q) PROVE LastAsked(t, q)
  <2> SUFFICES ASSUME NEW i \in Ids, NEW j \in DOMAIN t,
                      q[i] # None, IsRequest(t[j]), t[j].id = i, t[j].call # q[i]
               PROVE  \E l \in DOMAIN t : j < l /\ Request(t[l], i, q[i])
    BY DEF LastAsked
  <2>1. PICK l \in DOMAIN s : j + 1 < l /\ Request(s[l], i, q[i])
    BY <1>1, <1>3 DEF LastAsked
  <2>2. l \in Int /\ j \in Int /\ 1 < j + 1
    BY <1>1
  <2>3. l # 1 /\ j < l - 1
    BY <2>1, <2>2
  <2>4. l - 1 \in DOMAIN t /\ t[l - 1] = s[l]
    BY <1>1, <2>3
  <2> QED BY <2>1, <2>3, <2>4
<1> QED BY <1>2, <1>3 DEF t

\* The callee handled it: it made the entry, unless it refused the call, and
\* forgot one only for a Finish.
LEMMA ReachesTaken ==
  ASSUME NEW s \in Seq(Message), s # <<>>, NEW q, NEW a, NEW b, NEW X, NEW Y, NEW D,
         QuestionsReach(s, q, a, X), TargetsReach(s, a, X, D), X \subseteq Y,
         \A i \in Ids : q[i] \in Calls \cup {None},
         IsRequest(Head(s)) => b[Head(s).id] = Head(s).call \/ Head(s).call \in Y,
         \A i \in Ids : a[i] \in Calls /\ ~ Finish(Head(s), i) => b[i] = a[i]
  PROVE  QuestionsReach(Tail(s), q, b, Y) /\ TargetsReach(Tail(s), b, Y, D)
<1> DEFINE t == Tail(s)
<1>1. /\ t \in Seq(Message) /\ Head(s) \in Message /\ 1 \in DOMAIN s
      /\ Len(t) + 1 = (Len(s) + 1) - 1 /\ Len(s) + 1 \in Int
      /\ \A k \in DOMAIN t : k \in Int /\ k + 1 \in DOMAIN s /\ s[k + 1] = t[k] /\ 1 < k + 1
                             /\ t[k] \in Message
      /\ Len(s) \in Nat /\ DOMAIN s = 1..Len(s)
  BY PositionsTaken, LenProperties, ElementOfSeq
<1>2. ASSUME NEW k \in Int, k > 1, NEW i \in Ids, NEW p \in Calls, p \notin Y,
             Reaches(s, k, a[i], p, i)
      PROVE  Reaches(t, k - 1, b[i], p, i)
  <2>1. Request(Head(s), i, p) => b[i] = p
    BY <1>2 DEF Request
  <2>2. a[i] = p /\ ~ Finish(Head(s), i) => b[i] = p
    BY <1>2
  <2> QED BY <1>2, <2>1, <2>2, ReachTaken
<1> HIDE DEF t
<1>3. QuestionsReach(t, q, b, Y)
  <2> SUFFICES ASSUME NEW i \in Ids, q[i] # None, q[i] \notin Y
               PROVE  Reaches(t, Len(t) + 1, b[i], q[i], i)
    BY DEF QuestionsReach
  <2>1. Reaches(s, Len(s) + 1, a[i], q[i], i)
    BY DEF QuestionsReach
  <2>2. Len(s) + 1 > 1 /\ q[i] \in Calls
    BY <1>1
  <2> QED BY <1>1, <1>2, <2>1, <2>2
<1>4. TargetsReach(t, b, Y, D)
  <2> SUFFICES ASSUME NEW k \in DOMAIN t, t[k].type = "pipelined"
               PROVE  \E p \in Calls : /\ [through |-> p, call |-> t[k].call] \in D
                                       /\ p \in Y \/ Reaches(t, k, b[t[k].on], p, t[k].on)
    BY DEF TargetsReach
  <2>1. PICK p \in Calls : /\ [through |-> p, call |-> t[k].call] \in D
                           /\ p \in X \/ Reaches(s, k + 1, a[t[k].on], p, t[k].on)
    BY <1>1 DEF TargetsReach
  <2>2. t[k].on \in Ids /\ k + 1 \in Int /\ k + 1 > 1 /\ (k + 1) - 1 = k
    BY <1>1 DEF Message
  <2> QED BY <1>2, <2>1, <2>2
<1> QED BY <1>3, <1>4 DEF t

-----------------------------------------------------------------------------
(* Every step keeps the stream in order.                                   *)

\* A step that sends no request and no Finish, and takes no message: questions
\* may leave the table, and a vat may shut down.
LEMMA SilentKeepsStream ==
  ASSUME TypeOK, StreamInv,
         \/ toCallee' = toCallee
         \/ \E m \in Message : /\ ~ IsRequest(m) /\ m.type # "finish"
                               /\ toCallee' = Append(toCallee, m),
         \A i \in Ids : questions'[i] = None \/ questions'[i] = questions[i],
         calleeOpen' => calleeOpen /\ answers' = answers,
         UNCHANGED <<reentered, refused, made>>
  PROVE  StreamInv'
<1>1. CASE toCallee' = toCallee
  <2>1. LastAsked(toCallee, questions')
    BY DEF StreamInv, LastAsked
  <2>2. calleeOpen' => QuestionsReach(toCallee, questions', answers, reentered \cup refused)
    BY DEF StreamInv, QuestionsReach
  <2> QED BY <1>1, <2>1, <2>2 DEF StreamInv
<1>2. ASSUME NEW m \in Message, ~ IsRequest(m), m.type # "finish", toCallee' = Append(toCallee, m)
      PROVE  StreamInv'
  <2>0. toCallee \in Seq(Message)
    BY DEF TypeOK
  <2>1. Follows(toCallee', reentered)
    BY <1>2, <2>0, FollowsSent DEF StreamInv
  <2>2. LastAsked(toCallee', questions')
    BY <1>2, <2>0, LastAskedSent DEF StreamInv
  <2> DEFINE X == reentered \cup refused
  <2>3. calleeOpen' => QuestionsReach(toCallee', questions', answers, X)
    <3>1. \A i \in Ids : questions'[i] = None \/ (questions'[i] = questions[i] /\ ~ Finish(m, i))
      BY <1>2 DEF Finish
    <3>2. calleeOpen' => QuestionsReach(toCallee, questions, answers, X)
      BY DEF StreamInv
    <3> HIDE DEF X
    <3> QED BY <1>2, <2>0, <3>1, <3>2, QuestionsReachSent
  <2>4. calleeOpen' => TargetsReach(toCallee', answers, X, Range(made))
    <3>1. m.type # "pipelined"
      BY <1>2 DEF IsRequest, IsCall
    <3>2. calleeOpen' => TargetsReach(toCallee, answers, X, Range(made))
      BY DEF StreamInv
    <3> HIDE DEF X
    <3> QED BY <1>2, <2>0, <3>1, <3>2, TargetsReachSent
  <2> QED BY <2>1, <2>2, <2>3, <2>4 DEF StreamInv
<1> QED BY <1>1, <1>2

\* The history of the calls made, as a set.
LEMMA MadeAppended ==
  ASSUME TypeOK, NEW c \in Calls, NEW p \in Calls \cup {None},
         made' = Append(made, [through |-> p, call |-> c])
  PROVE  Range(made') = Range(made) \cup {[through |-> p, call |-> c]}
<1> DEFINE S == [through : Calls \cup {None}, call : Calls]
<1>1. made \in Seq(S) /\ [through |-> p, call |-> c] \in S
  BY DEF TypeOK
<1>2. PICK r \in S : r = [through |-> p, call |-> c]
  BY <1>1
<1> HIDE DEF S
<1>3. Range(Append(made, r)) = Range(made) \cup {r}
  BY <1>1, <1>2, RangeOfAppend
<1> QED BY <1>2, <1>3

\* Conn.newQuestion: the request is the last with its id, and a pipelined call
\* names the id of a question in the table.
LEMMA AskKeepsStream ==
  ASSUME TypeOK, StreamInv, NEW c \in Calls, NEW p \in Calls \cup {None}, NEW m \in Message,
         NewQuestion(c, p, m), IsRequest(m), m.call = c, m.id = IdToUse,
         m.type = "pipelined" => p \in Calls /\ Asked(p) /\ m.on = qid[p],
         UNCHANGED <<answers, calleeOpen, reentered, refused>>
  PROVE  StreamInv'
<1> DEFINE X == reentered \cup refused
<1>0. /\ toCallee \in Seq(Message) /\ toCallee' = Append(toCallee, m)
      /\ questions \in [Ids -> Calls \cup {None}] /\ m.id \in Ids
      /\ questions' = [questions EXCEPT ![m.id] = c]
      /\ Range(made') = Range(made) \cup {[through |-> p, call |-> c]}
  BY MadeAppended DEF TypeOK, NewQuestion, SendToCallee
<1>1. m.type # "finish"
  BY DEF IsRequest, IsCall
<1>2. Follows(toCallee', reentered)
  BY <1>0, <1>1, FollowsSent DEF StreamInv
<1>3. \A i \in Ids : \/ questions'[i] = questions[i] /\ ~ Finish(m, i)
                     \/ Request(m, i, questions'[i])
  BY <1>0, <1>1 DEF Request, Finish
<1>4. LastAsked(toCallee', questions')
  <2>1. questions'[m.id] = m.call
    BY <1>0
  <2> QED BY <1>0, <1>3, <2>1, LastAskedSent DEF StreamInv
<1>5. ASSUME calleeOpen
      PROVE  /\ QuestionsReach(toCallee', questions', answers, X)
             /\ TargetsReach(toCallee', answers, X, Range(made'))
  <2>1. /\ QuestionsReach(toCallee, questions, answers, X)
        /\ TargetsReach(toCallee, answers, X, Range(made))
    BY <1>5 DEF StreamInv
  <2>2. m.type = "pipelined" =>
          /\ p \in Calls /\ [through |-> p, call |-> m.call] \in Range(made')
          /\ p \in X \/ Reaches(toCallee, Len(toCallee) + 1, answers[m.on], p, m.on)
    <3> SUFFICES ASSUME m.type = "pipelined"
                 PROVE  p \in X \/ Reaches(toCallee, Len(toCallee) + 1, answers[m.on], p, m.on)
      BY <1>0
    <3>1. m.on \in Ids /\ questions[m.on] = p /\ p # None
      BY RpcCallsAssumption DEF Asked
    <3> QED BY <2>1, <3>1 DEF QuestionsReach
  <2>3. Range(made) \subseteq Range(made')
    BY <1>0
  <2> HIDE DEF X
  <2>4. QuestionsReach(toCallee', questions', answers, X)
    BY <1>0, <1>3, <2>1, QuestionsReachSent
  <2>5. TargetsReach(toCallee', answers, X, Range(made'))
    BY <1>0, <2>1, <2>2, <2>3, TargetsReachSent
  <2> QED BY <2>4, <2>5
<1> QED BY <1>2, <1>4, <1>5 DEF StreamInv

\* A question is finished: by Return, cancel or close.
LEMMA FinishKeepsStream ==
  ASSUME TypeOK, StreamInv, NEW i \in Ids, NEW b \in Calls, questions[i] = b,
         toCallee' = Append(toCallee, Msg("finish", i, b)),
         questions' = [questions EXCEPT ![i] = None],
         UNCHANGED <<answers, calleeOpen, reentered, refused, made>>
  PROVE  StreamInv'
<1> DEFINE X == reentered \cup refused
<1>0. PICK m \in Message :
        /\ m.type = "finish" /\ m.id = i /\ m.call = b /\ ~ IsRequest(m)
        /\ toCallee' = Append(toCallee, m)
        /\ toCallee \in Seq(Message) /\ questions \in [Ids -> Calls \cup {None}]
  <2>1. Msg("finish", i, b) \in Message /\ ~ IsRequest(Msg("finish", i, b))
    BY MessagesTyped, Kinds
  <2>2. /\ Msg("finish", i, b).type = "finish" /\ Msg("finish", i, b).id = i
        /\ Msg("finish", i, b).call = b
    BY DEF Msg
  <2> QED BY <2>1, <2>2 DEF TypeOK
<1>1. Follows(toCallee', reentered)
  <2>1. \A j \in DOMAIN toCallee :
          IsRequest(toCallee[j]) /\ toCallee[j].id = m.id /\ toCallee[j].call # m.call =>
            \E l \in DOMAIN toCallee : j < l /\ Request(toCallee[l], m.id, m.call)
    BY <1>0, RpcCallsAssumption DEF StreamInv, LastAsked
  <2> QED BY <1>0, <2>1, FollowsSent DEF StreamInv
<1>2. \A j \in Ids : questions'[j] = None \/ (questions'[j] = questions[j] /\ ~ Finish(m, j))
  BY <1>0 DEF Finish
<1>a. PICK r : r = questions'
  OBVIOUS
<1>b. \A j \in Ids : r[j] = None \/ (r[j] = questions[j] /\ ~ Finish(m, j))
  BY <1>2, <1>a
<1>3. LastAsked(toCallee', questions')
  <2>1. LastAsked(Append(toCallee, m), r)
    BY <1>0, <1>b, LastAskedSent DEF StreamInv
  <2> QED BY <1>0, <1>a, <2>1
<1>4. ASSUME calleeOpen
      PROVE  /\ QuestionsReach(toCallee', questions', answers, X)
             /\ TargetsReach(toCallee', answers, X, Range(made))
  <2>1. /\ QuestionsReach(toCallee, questions, answers, X)
        /\ TargetsReach(toCallee, answers, X, Range(made))
    BY <1>4 DEF StreamInv
  <2> HIDE DEF X
  <2>2. QuestionsReach(toCallee', questions', answers, X)
    <3>1. QuestionsReach(Append(toCallee, m), r, answers, X)
      BY <1>0, <1>b, <2>1, QuestionsReachSent
    <3> QED BY <1>0, <1>a, <3>1
  <2>3. TargetsReach(toCallee', answers, X, Range(made))
    BY <1>0, <2>1, TargetsReachSent
  <2> QED BY <2>2, <2>3
<1> QED BY <1>1, <1>3, <1>4 DEF StreamInv

\* A dispose method makes call d while the Return of c is handled: its request
\* goes out under the id of c, just before the Finish of c.
LEMMA ReenterKeepsStream ==
  ASSUME TypeOK, StreamInv, NEW i \in Ids, NEW c \in Calls, NEW d \in Calls, NEW p \in Calls,
         questions[i] = c, NEW m \in Message, IsRequest(m), m.id = i, m.call = d,
         m.type = "pipelined" => Asked(p) /\ m.on = qid[p],
         toCallee' = Append(Append(toCallee, m), Msg("finish", i, c)),
         questions' = [questions EXCEPT ![i] = d],
         made' = Append(made, [through |-> p, call |-> d]),
         reentered' = reentered \cup {d},
         UNCHANGED <<answers, calleeOpen, refused>>
  PROVE  StreamInv'
<1> DEFINE X == reentered \cup refused
           Y == reentered' \cup refused
<1>a. PICK f \in Message :
        /\ f.type = "finish" /\ f.id = i /\ f.call = c /\ ~ IsRequest(f)
        /\ toCallee' = Append(Append(toCallee, m), f)
  <2>1. Msg("finish", i, c) \in Message /\ ~ IsRequest(Msg("finish", i, c))
    BY MessagesTyped, Kinds
  <2>2. /\ Msg("finish", i, c).type = "finish" /\ Msg("finish", i, c).id = i
        /\ Msg("finish", i, c).call = c
    BY DEF Msg
  <2> QED BY <2>1, <2>2
<1>b. toCallee \in Seq(Message) /\ questions \in [Ids -> Calls \cup {None}]
  BY DEF TypeOK
<1>c. PICK t \in Seq(Message) : t = Append(toCallee, m)
  BY <1>b, AppendProperties
<1>r. PICK r : r = questions'
  OBVIOUS
<1>u. PICK u : u = reentered'
  OBVIOUS
<1>d. Range(made') = Range(made) \cup {[through |-> p, call |-> d]}
  BY MadeAppended
<1>e. m.type # "finish"
  BY DEF IsRequest, IsCall
<1>0. /\ f.type = "finish" /\ f.id = i /\ f.call = c /\ ~ IsRequest(f)
      /\ toCallee \in Seq(Message) /\ questions \in [Ids -> Calls \cup {None}]
      /\ t = Append(toCallee, m) /\ toCallee' = Append(t, f)
      /\ Range(made') = Range(made) \cup {[through |-> p, call |-> d]}
      /\ m.type # "finish"
      /\ reentered \subseteq reentered' /\ X \subseteq Y /\ d \in Y
  BY <1>a, <1>b, <1>c, <1>d, <1>e
<1>1. /\ Len(t) = Len(toCallee) + 1 /\ Len(toCallee) \in Nat
      /\ DOMAIN t = DOMAIN toCallee \cup {Len(t)} /\ t[Len(t)] = m
      /\ \A j \in DOMAIN toCallee : t[j] = toCallee[j]
  BY <1>0, AppendProperties, LenProperties
<1>2. Follows(t, reentered')
  BY <1>0, FollowsSent DEF StreamInv
<1>3. LastAsked(t, questions')
  <2>1. \A j \in Ids : questions'[j] = questions[j] \/ Request(m, j, questions'[j])
    BY <1>0 DEF Request
  <2>2. questions'[m.id] = m.call
    BY <1>0
  <2> QED BY <1>0, <2>1, <2>2, LastAskedSent DEF StreamInv
<1>4. \A j \in Ids : questions'[j] \in Y \/ (questions'[j] = questions[j] /\ ~ Finish(m, j) /\ ~ Finish(f, j))
  BY <1>0 DEF Finish
<1>5. m.type = "pipelined" => m.on \in Ids /\ questions[m.on] = p /\ p # None
  BY RpcCallsAssumption DEF Asked
<1>6. \A j \in DOMAIN t : IsRequest(t[j]) /\ t[j].id = f.id /\ t[j].call # f.call =>
        \/ \E l \in DOMAIN t : j < l /\ Request(t[l], f.id, f.call)
        \/ j = Len(t) /\ t[j].call \in reentered'
  <2> SUFFICES ASSUME NEW j \in DOMAIN t, IsRequest(t[j]), t[j].id = i, t[j].call # c
               PROVE  \/ \E l \in DOMAIN t : j < l /\ Request(t[l], i, c)
                      \/ j = Len(t) /\ t[j].call \in reentered'
    BY <1>0
  <2>1. CASE j \in DOMAIN toCallee
    <3>1. PICK l \in DOMAIN toCallee : j < l /\ Request(toCallee[l], i, c)
      BY <1>1, <2>1, RpcCallsAssumption DEF StreamInv, LastAsked
    <3> QED BY <1>1, <3>1
  <2>2. CASE j = Len(t)
    BY <1>0, <1>1, <2>2
  <2> QED BY <1>1, <2>1, <2>2
<1>7. Follows(toCallee', reentered')
  <2>1. /\ \A j \in DOMAIN t : IsRequest(t[j]) /\ t[j].id = f.id /\ t[j].call # f.call =>
              \/ \E l \in DOMAIN t : j < l /\ Request(t[l], f.id, f.call)
              \/ j = Len(t) /\ t[j].call \in u
        /\ Follows(t, u)
    BY <1>2, <1>6, <1>u
  <2>2. Follows(Append(t, f), u)
    BY <2>1, FollowsSent
  <2> QED BY <1>0, <1>u, <2>2
<1>8. LastAsked(toCallee', questions')
  <2>1. \A j \in Ids : questions'[j] = questions'[j]
    OBVIOUS
  <2> QED BY <1>0, <1>3, <2>1, LastAskedSent
<1>9. ASSUME calleeOpen
      PROVE  /\ QuestionsReach(toCallee', questions', answers, Y)
             /\ TargetsReach(toCallee', answers, Y, Range(made'))
  <2>1. /\ QuestionsReach(toCallee, questions, answers, X)
        /\ TargetsReach(toCallee, answers, X, Range(made))
    BY <1>9 DEF StreamInv
  <2>2. m.type = "pipelined" =>
          /\ [through |-> p, call |-> m.call] \in Range(made')
          /\ p \in Y \/ Reaches(toCallee, Len(toCallee) + 1, answers[m.on], p, m.on)
    BY <1>0, <1>5, <2>1 DEF QuestionsReach
  <2>3. Range(made) \subseteq Range(made') /\ Y \subseteq Y
    BY <1>0
  <2> HIDE DEF X, Y
  <2>4. QuestionsReach(t, questions', answers, Y)
    BY <1>0, <1>4, <2>1, QuestionsReachSent
  <2>5. QuestionsReach(toCallee', questions', answers, Y)
    <3>1. /\ \A j \in Ids : r[j] \in Y \/ (r[j] = r[j] /\ ~ Finish(f, j))
          /\ QuestionsReach(t, r, answers, Y)
      BY <1>4, <1>r, <2>4
    <3>2. QuestionsReach(Append(t, f), r, answers, Y)
      BY <2>3, <3>1, QuestionsReachSent
    <3> QED BY <1>0, <1>r, <3>2
  <2>6. TargetsReach(t, answers, Y, Range(made'))
    BY <1>0, <2>1, <2>2, <2>3, TargetsReachSent
  <2>7. TargetsReach(toCallee', answers, Y, Range(made'))
    <3>0. PICK E : E = Range(made')
      OBVIOUS
    <3>1. TargetsReach(t, answers, Y, E) /\ E \subseteq E /\ Y \subseteq Y
      BY <2>6, <3>0
    <3>2. f.type # "pipelined"
      BY <1>0
    <3>3. TargetsReach(Append(t, f), answers, Y, E)
      BY <3>1, <3>2, TargetsReachSent
    <3> QED BY <1>0, <3>0, <3>3
  <2> QED BY <2>5, <2>7
<1> QED BY <1>7, <1>8, <1>9 DEF StreamInv

\* The callee takes a message: a request makes its entry or is refused, and only
\* a Finish forgets one.
LEMMA TakeKeepsStream ==
  ASSUME TypeOK, StreamInv, NEW m \in Range(toCallee), Arrived(m),
         UNCHANGED <<questions, reentered, made>>, refused \subseteq refused',
         calleeOpen' =>
           /\ calleeOpen
           /\ IsRequest(m) => answers'[m.id] = m.call \/ m.call \in refused'
           /\ \A i \in Ids : answers[i] \in Calls /\ ~ Finish(m, i) => answers'[i] = answers[i]
  PROVE  StreamInv'
<1> DEFINE X == reentered \cup refused
           Y == reentered \cup refused'
<1>0. /\ toCallee \in Seq(Message) /\ toCallee # <<>> /\ m = Head(toCallee)
      /\ toCallee' = Tail(toCallee) /\ X \subseteq Y
      /\ \A i \in Ids : questions[i] \in Calls \cup {None}
  BY DEF TypeOK, Arrived
<1>1. Follows(toCallee', reentered) /\ LastAsked(toCallee', questions)
  BY <1>0, OrderTaken DEF StreamInv
<1>2. ASSUME calleeOpen'
      PROVE  /\ QuestionsReach(toCallee', questions, answers', Y)
             /\ TargetsReach(toCallee', answers', Y, Range(made))
  <2>1. /\ QuestionsReach(toCallee, questions, answers, X)
        /\ TargetsReach(toCallee, answers, X, Range(made))
    BY <1>2 DEF StreamInv
  <2>2. IsRequest(m) => answers'[m.id] = m.call \/ m.call \in Y
    BY <1>2
  <2>3. \A i \in Ids : answers[i] \in Calls /\ ~ Finish(m, i) => answers'[i] = answers[i]
    BY <1>2
  <2> HIDE DEF X, Y
  <2> QED BY <1>0, <2>1, <2>2, <2>3, ReachesTaken
<1> QED BY <1>1, <1>2 DEF StreamInv


\* The steps of the caller.
LEMMA CallerKeepsStream ==
  ASSUME Inv, StreamInv,
         \/ \E c \in Calls : Bootstrap(c) \/ Cancel(c) \/ CloseRoot(c) \/ CloseDerived(c)
         \/ \E c, p \in Calls : \/ PipelineCall(c, p) \/ ImportCall(c, p)
                                \/ CallBroken(c, p) \/ HandleReturnReentered(c, p)
         \/ CallerHandles
  PROVE  StreamInv'
<1>0. TypeOK /\ QuestionTableOK /\ questions \in [Ids -> Calls \cup {None}]
  BY DEF Inv, TypeOK
<1>1. ASSUME NEW c \in Calls, Bootstrap(c) PROVE StreamInv'
  <2>1. /\ NewQuestion(c, None, Msg("bootstrap", IdToUse, c)) /\ IdToUse \in Ids
        /\ UNCHANGED <<answers, calleeOpen, reentered, refused>>
    BY <1>1 DEF Bootstrap, NewQuestion, calleeVars
  <2>2. PICK m \in Message : /\ m = Msg("bootstrap", IdToUse, c) /\ IsRequest(m)
                             /\ m.call = c /\ m.id = IdToUse /\ m.type = "bootstrap"
    BY <2>1, MessagesTyped, Kinds DEF Msg
  <2> QED BY <1>0, <2>1, <2>2, AskKeepsStream
<1>2. ASSUME NEW c \in Calls, NEW p \in Calls, PipelineCall(c, p) PROVE StreamInv'
  <2>1. /\ NewQuestion(c, p, PipelinedMsg(IdToUse, c, qid[p])) /\ IdToUse \in Ids
        /\ Asked(p) /\ qid[p] \in Ids
        /\ UNCHANGED <<answers, calleeOpen, reentered, refused>>
    BY <1>2 DEF PipelineCall, NewQuestion, Asked, calleeVars
  <2>2. PICK m \in Message : /\ m = PipelinedMsg(IdToUse, c, qid[p]) /\ IsRequest(m)
                             /\ m.call = c /\ m.id = IdToUse /\ m.on = qid[p]
    BY <2>1, MessagesTyped, Kinds DEF PipelinedMsg
  <2> QED BY <1>0, <2>1, <2>2, AskKeepsStream
<1>3. ASSUME NEW c \in Calls, NEW p \in Calls, ImportCall(c, p) PROVE StreamInv'
  <2>1. /\ NewQuestion(c, p, Msg("call", IdToUse, c)) /\ IdToUse \in Ids
        /\ UNCHANGED <<answers, calleeOpen, reentered, refused>>
    BY <1>3 DEF ImportCall, NewQuestion, calleeVars
  <2>2. PICK m \in Message : /\ m = Msg("call", IdToUse, c) /\ IsRequest(m)
                             /\ m.call = c /\ m.id = IdToUse /\ m.type = "call"
    BY <2>1, MessagesTyped, Kinds DEF Msg
  <2> QED BY <1>0, <2>1, <2>2, AskKeepsStream
<1>4. ASSUME UNCHANGED <<questions, toCallee, answers, calleeOpen, reentered, refused, made>>
      PROVE  StreamInv'
  BY <1>0, <1>4, SilentKeepsStream
<1>5. ASSUME NEW c \in Calls, NEW p \in Calls, CallBroken(c, p) PROVE StreamInv'
  BY <1>4, <1>5 DEF CallBroken, calleeVars
<1>6. ASSUME NEW c \in Calls, Cancel(c) \/ CloseRoot(c) \/ CloseDerived(c) PROVE StreamInv'
  <2>1. CASE Asked(c) /\ GiveUp(c)
    <3>1. /\ qid[c] \in Ids /\ questions[qid[c]] = c
          /\ toCallee' = Append(toCallee, Msg("finish", qid[c], c))
          /\ questions' = [questions EXCEPT ![qid[c]] = None]
          /\ UNCHANGED <<answers, calleeOpen, reentered, refused, made>>
      BY <2>1 DEF Asked, GiveUp, SendToCallee, PopQuestion, calleeVars
    <3> QED BY <1>0, <3>1, FinishKeepsStream
  <2>2. CASE UNCHANGED <<questions, toCallee, made, reentered, calleeVars>>
    BY <1>4, <2>2 DEF calleeVars
  <2> QED BY <1>6, <2>1, <2>2 DEF Cancel, CloseRoot, CloseDerived
<1>7. ASSUME NEW d \in Calls, NEW p \in Calls, HandleReturnReentered(d, p) PROVE StreamInv'
  <2>1. PICK n \in Range(toCaller) :
          /\ questions[n.id] # None
          /\ questions' = [questions EXCEPT ![n.id] = d]
          /\ made' = Append(made, [through |-> p, call |-> d])
          /\ reentered' = reentered \cup {d}
          /\ toCallee' = toCallee \o
               << IF Asked(p) THEN PipelinedMsg(n.id, d, qid[p]) ELSE Msg("call", n.id, d),
                  Msg("finish", n.id, questions[n.id]) >>
          /\ UNCHANGED calleeVars
    BY <1>7 DEF HandleReturnReentered
  <2>2. PICK i \in Ids, c \in Calls : i = n.id /\ c = questions[i]
    BY <1>0, <2>1, ArrivesTyped
  <2>3. PICK m : m = IF Asked(p) THEN PipelinedMsg(i, d, qid[p]) ELSE Msg("call", i, d)
    OBVIOUS
  <2>4. /\ m \in Message /\ IsRequest(m) /\ m.id = i /\ m.call = d
        /\ m.type = "pipelined" => Asked(p) /\ m.on = qid[p]
    <3>1. CASE Asked(p)
      <4>1. qid[p] \in Ids /\ m = PipelinedMsg(i, d, qid[p])
        BY <2>3, <3>1 DEF Asked
      <4>2. m \in Message /\ IsRequest(m)
        BY <4>1, MessagesTyped, Kinds
      <4> QED BY <3>1, <4>1, <4>2 DEF PipelinedMsg
    <3>2. CASE ~ Asked(p)
      <4>1. m = Msg("call", i, d)
        BY <2>3, <3>2
      <4>2. m \in Message /\ IsRequest(m)
        BY <4>1, MessagesTyped, Kinds
      <4> QED BY <4>1, <4>2 DEF Msg
    <3> QED BY <3>1, <3>2
  <2>5. PICK f \in Message : f = Msg("finish", i, c)
    BY MessagesTyped
  <2>6. toCallee' = Append(Append(toCallee, m), f)
    <3>1. toCallee \in Seq(Message) /\ toCallee' = toCallee \o <<m, f>>
      BY <1>0, <2>1, <2>2, <2>3, <2>5 DEF TypeOK
    <3> QED BY <2>4, <3>1
  <2>7. UNCHANGED <<answers, calleeOpen, refused>>
    BY <2>1 DEF calleeVars
  <2>8. /\ questions[i] = c /\ questions' = [questions EXCEPT ![i] = d]
        /\ toCallee' = Append(Append(toCallee, m), Msg("finish", i, c))
    BY <2>1, <2>2, <2>5, <2>6
  <2> QED BY <1>0, <2>1, <2>4, <2>7, <2>8, ReenterKeepsStream
<1>8. ASSUME NEW n \in Range(toCaller), ShutdownCaller, UNCHANGED calleeVars,
             \/ toCallee' = toCallee
             \/ toCallee' = Append(toCallee, Msg("abort", n.id, n.call))
      PROVE  StreamInv'
  <2>1. PICK m \in Message : /\ m = Msg("abort", n.id, n.call)
                             /\ ~ IsRequest(m) /\ m.type # "finish"
    <3>1. n.id \in Ids /\ n.call \in Calls
      BY <1>0, ArrivesTyped
    <3>2. Msg("abort", n.id, n.call) \in Message /\ ~ IsRequest(Msg("abort", n.id, n.call))
      BY <3>1, MessagesTyped, Kinds
    <3> QED BY <3>2 DEF Msg
  <2>2. /\ \A i \in Ids : questions'[i] = None
        /\ UNCHANGED <<answers, calleeOpen, reentered, refused, made>>
    BY <1>8 DEF ShutdownCaller, calleeVars
  <2>3. \/ toCallee' = toCallee
        \/ \E k \in Message : /\ ~ IsRequest(k) /\ k.type # "finish"
                              /\ toCallee' = Append(toCallee, k)
    BY <1>8, <2>1
  <2> QED BY <1>0, <2>2, <2>3, SilentKeepsStream
<1>9. CASE CallerHandles
  <2>1. CASE HandleReturn
    <3>1. PICK n \in Range(toCaller) :
            /\ questions[n.id] # None
            /\ PopQuestion(questions[n.id])
            /\ toCallee' = Append(toCallee, Msg("finish", n.id, questions[n.id]))
            /\ UNCHANGED <<answers, calleeOpen, reentered, refused, made>>
      BY <2>1 DEF HandleReturn, SendToCallee, calleeVars
    <3>2. PICK i \in Ids, c \in Calls : i = n.id /\ c = questions[i]
      BY <1>0, <3>1, ArrivesTyped
    <3>3. qid[c] = i
      BY <1>0, <3>1, <3>2 DEF QuestionTableOK
    <3>4. questions' = [questions EXCEPT ![i] = None]
      BY <3>1, <3>2, <3>3 DEF PopQuestion
    <3> QED BY <1>0, <3>1, <3>2, <3>4, FinishKeepsStream
  <2>2. CASE ReturnForUnknownQuestion
    BY <1>8, <2>2 DEF ReturnForUnknownQuestion, SendToCallee
  <2>3. CASE CallerAborted
    BY <1>8, <2>3 DEF CallerAborted
  <2> QED BY <1>9, <2>1, <2>2, <2>3 DEF CallerHandles
<1> QED BY <1>1, <1>2, <1>3, <1>5, <1>6, <1>7, <1>9

\* The steps of the callee.
LEMMA CalleeKeepsStream ==
  ASSUME Inv, StreamInv, CalleeHandles \/ \E c \in Calls : Fulfill(c) \/ Reject(c)
  PROVE  StreamInv'
<1>0. TypeOK /\ answers \in [Ids -> Calls \cup {None}] /\ None \notin Calls
  BY RpcCallsAssumption DEF Inv, TypeOK
<1>1. ASSUME NEW m \in Range(toCallee), Arrived(m), UNCHANGED callerVars, calleeOpen,
             \/ /\ answers[m.id] = None /\ answers' = [answers EXCEPT ![m.id] = m.call]
                /\ UNCHANGED refused
             \/ UNCHANGED answers /\ refused' = refused \cup {m.call}
             \/ ~ IsRequest(m) /\ m.type = "finish" /\ PopAnswer(m.id) /\ UNCHANGED refused
             \/ ShutdownCallee
      PROVE  StreamInv'
  <2>1. UNCHANGED <<questions, reentered, made>> /\ refused \subseteq refused'
    BY <1>1 DEF callerVars, ShutdownCallee
  <2>2. m.id \in Ids
    BY <1>0, ArrivesTyped
  <2>3. IsRequest(m) /\ calleeOpen' => answers'[m.id] = m.call \/ m.call \in refused'
    BY <1>0, <1>1, <2>2 DEF ShutdownCallee
  <2>4. ASSUME NEW i \in Ids, calleeOpen', answers[i] \in Calls, ~ Finish(m, i)
        PROVE  answers'[i] = answers[i]
    BY <1>0, <1>1, <2>2, <2>4 DEF ShutdownCallee, PopAnswer, Finish
  <2> QED BY <1>0, <1>1, <2>1, <2>3, <2>4, TakeKeepsStream
<1>2. CASE HandleBootstrap
  <2>1. PICK m \in Range(toCallee) :
          /\ Arrived(m) /\ UNCHANGED callerVars /\ calleeOpen
          /\ \/ /\ answers[m.id] = None /\ answers' = [answers EXCEPT ![m.id] = m.call]
                /\ UNCHANGED refused
             \/ UNCHANGED answers /\ refused' = refused \cup {m.call}
    BY <1>2 DEF HandleBootstrap, NewEntry, CalleeIdle
  <2> QED BY <1>1, <2>1
<1>3. CASE HandleCallRun \/ HandleCallOnError \/ HandleCallQueue
  <2>1. PICK m \in Range(toCallee) :
          /\ NewCall(m) /\ UNCHANGED <<callerVars, refused>>
          /\ answers' = [answers EXCEPT ![m.id] = m.call]
    BY <1>3 DEF HandleCallRun, HandleCallOnError, HandleCallQueue, NewEntry
  <2> QED BY <1>1, <2>1 DEF NewCall, CalleeIdle
<1>4. CASE HandleCallUnimplemented
  BY <1>1, <1>4 DEF HandleCallUnimplemented, NewCall, CalleeIdle
<1>5. CASE HandleCallAbort \/ CalleeAborted
  <2>1. PICK m \in Range(toCallee) :
          CalleeIdle /\ Arrived(m) /\ UNCHANGED callerVars /\ ShutdownCallee
    BY <1>5 DEF HandleCallAbort, CalleeAborted
  <2> QED BY <1>1, <2>1 DEF CalleeIdle
<1>6. CASE HandleFinish
  <2>1. PICK m \in Range(toCallee) :
          /\ CalleeIdle /\ Arrived(m) /\ m.type = "finish" /\ PopAnswer(m.id)
          /\ UNCHANGED <<callerVars, refused>>
    BY <1>6 DEF HandleFinish
  <2> QED BY <1>1, <2>1 DEF CalleeIdle, IsRequest, IsCall
<1>7. ASSUME UNCHANGED <<callerVars, toCallee, answers, calleeOpen, refused>>
      PROVE  StreamInv'
  BY <1>0, <1>7, SilentKeepsStream DEF callerVars
<1>8. CASE \/ FlushNext \/ RejectNext
           \/ \E c \in Calls : Fulfill(c) \/ Reject(c)
  BY <1>7, <1>8 DEF FlushNext, RejectNext, Fulfill, Reject, RejectEntry
<1> QED BY <1>2, <1>3, <1>4, <1>5, <1>6, <1>8 DEF CalleeHandles

\* The stream is in order throughout.
LEMMA StreamInvAlways == Spec => [](Inv /\ StreamInv)
<1>1. Init => StreamInv
  <2> SUFFICES ASSUME Init PROVE StreamInv
    OBVIOUS
  <2>1. toCallee = <<>> /\ DOMAIN toCallee = {} /\ \A i \in Ids : questions[i] = None
    BY DEF Init
  <2> QED BY <2>1 DEF StreamInv, Follows, LastAsked, QuestionsReach, TargetsReach
<1>2. Inv /\ StreamInv /\ [Next]_vars => StreamInv'
  <2> SUFFICES ASSUME Inv, StreamInv, [Next]_vars PROVE StreamInv'
    OBVIOUS
  <2>1. CASE UNCHANGED vars
    BY <2>1 DEF StreamInv, vars
  <2>2. CASE CalleeHandles \/ \E c \in Calls : Fulfill(c) \/ Reject(c)
    BY <2>2, CalleeKeepsStream
  <2> QED BY <2>1, <2>2, CallerKeepsStream DEF Next
<1> QED BY <1>1, <1>2, InvAlways, PTL DEF Spec

\* "A question ID can be reused once ... a matching Finish has been sent": with
\* every fault, a Finish in flight comes before the next request with its id,
\* whether a Return, a cancel or a close made popQuestion free it; the only
\* request ahead of it is that of a call which a dispose method makes while
\* handleReturnMessage runs, and it is just ahead.
THEOREM FinishGoesAhead == Spec => []FinishBeforeReuse
<1>1. Inv /\ StreamInv => FinishBeforeReuse
  <2> SUFFICES ASSUME Inv, StreamInv, NEW j \in DOMAIN toCallee, NEW k \in DOMAIN toCallee,
                      j < k, IsRequest(toCallee[j]), toCallee[k].type = "finish",
                      toCallee[j].id = toCallee[k].id, toCallee[j].call # toCallee[k].call,
                      ~ (k = j + 1 /\ toCallee[j].call \in reentered)
               PROVE  \E l \in (j + 1)..(k - 1) :
                        /\ IsRequest(toCallee[l])
                        /\ toCallee[l].id = toCallee[k].id
                        /\ toCallee[l].call = toCallee[k].call
    BY DEF FinishBeforeReuse
  <2>1. PICK l \in DOMAIN toCallee :
          j < l /\ l < k /\ Request(toCallee[l], toCallee[k].id, toCallee[k].call)
    BY DEF StreamInv, Follows
  <2>2. toCallee \in Seq(Message)
    BY DEF Inv, TypeOK
  <2>3. l \in Int /\ j \in Int /\ k \in Int
    BY <2>2, LenProperties
  <2>4. l \in (j + 1)..(k - 1)
    BY <2>1, <2>3
  <2> QED BY <2>1, <2>4 DEF Request
<1> QED BY <1>1, StreamInvAlways, PTL

\* A promised answer stays valid "until a Finish message is sent": with every
\* fault, the answer routeCallMessage finds under the id of a pipelined Call is
\* that of the question the call was made on, which was asked before it and is
\* finished after it; unless that question was made in a dispose method, or was
\* refused for an unknown interface or method or an id in use.
THEOREM TargetIsKnown == Spec => []PipelineTargetKnown
<1>1. Inv /\ StreamInv => PipelineTargetKnown
  <2> SUFFICES ASSUME Inv, StreamInv, NEW m \in Range(toCallee),
                      m = Head(toCallee), m.type = "pipelined", CalleeIdle
               PROVE  \E p \in Calls :
                        /\ [through |-> p, call |-> m.call] \in Range(made)
                        /\ answers[m.on] = p \/ p \in reentered \cup refused
    BY DEF PipelineTargetKnown
  <2>1. toCallee \in Seq(Message) /\ toCallee # <<>>
    BY RangeOfEmpty DEF Inv, TypeOK
  <2>2. /\ m = toCallee[1] /\ 1 \in DOMAIN toCallee
        /\ \A j \in DOMAIN toCallee : ~ (j < 1)
    BY <2>1, PositionsTaken
  <2>3. TargetsReach(toCallee, answers, reentered \cup refused, Range(made))
    BY DEF StreamInv, CalleeIdle
  <2>4. PICK p \in Calls :
          /\ [through |-> p, call |-> m.call] \in Range(made)
          /\ p \in reentered \cup refused \/ Reaches(toCallee, 1, answers[m.on], p, m.on)
    BY <2>2, <2>3 DEF TargetsReach
  <2>5. Reaches(toCallee, 1, answers[m.on], p, m.on) => answers[m.on] = p
    BY <2>2 DEF Reaches
  <2> QED BY <2>4, <2>5
<1> QED BY <1>1, StreamInvAlways, PTL
=============================================================================
