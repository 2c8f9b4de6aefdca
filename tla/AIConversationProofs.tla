-------------------------- MODULE AIConversationProofs --------------------------
(* What holds of the streaming answers for any number of conversations and     *)
(* requests, whatever fails and however often; and of the memory of a           *)
(* conversation after any writebacks, wherever they break off.                 *)
EXTENDS AIConversation, AIMemory, FiniteSetTheorems, TLAPS

-----------------------------------------------------------------------------
(* The inductive invariant.                                                    *)

\* From the claim to the end of the handler a request may write its rows.
Started(r) == stream[r].pc \in Alive \ {"checked"}

\* is_generating stands for the stream that set it: nobody else clears it.
HolderIsRecorded ==
    \A r \in Requests :
        stream[r].pc \in Streaming => conversation[Target[r]].generating

\* A request that may still store its answer, or whose answer can be read, has
\* question and conversation, unless the conversation was deleted under it.
StartedIsWhole ==
    \A r \in Requests :
        (Started(r) \/ answer[r].row = "live") /\ r \notin cut =>
            question[r] = "live" /\ conversation[Target[r]].row = "live"

IInv == TypeOK /\ OneStream /\ HolderIsRecorded /\ StartedIsWhole

\* The local state of a request.
State == [pc : PCs, msg : Message, started : BOOLEAN, gone : BOOLEAN,
          error : {"none", "cancelled", "failed"}]

-----------------------------------------------------------------------------
(* What the helpers do.                                                        *)

\* A fault is counted.
LEMMA FaultType ==
    ASSUME TypeOK, NEW k \in FaultKinds, Fault(k)
    PROVE  faults' \in [FaultKinds -> Nat]
BY DEF TypeOK, Fault

\* The events of the runtime change one field of the message.
LEMMA MemoryType ==
    ASSUME TypeOK, NEW r \in Requests
    PROVE  /\ Memory(r) \in Message
           /\ \A s \in Statuses : [Memory(r) EXCEPT !.status = s] \in Message
           /\ \A t \in Traces : [Memory(r) EXCEPT !.trace = t] \in Message
BY DEF TypeOK, Memory, Message

\* Save writes the row of its own message only.
LEMMA StoredType ==
    ASSUME TypeOK, NEW r \in Requests, NEW msg \in Message,
           Stored(r, msg) \/ answer' = answer
    PROVE  /\ answer' \in [Requests -> [row : Rows, msg : Message]]
           /\ \A s \in Requests : s # r => answer'[s] = answer[s]
BY DEF TypeOK, Stored, Rows

\* An event that fails ends the stream, or is dropped while an error is reported.
LEMMA BrokenMoves ==
    ASSUME NEW s \in State, NEW next \in PCs, NEW e \in {"cancelled", "failed"}
    PROVE  /\ Broken(s, next, e) \in State
           /\ Broken(s, next, e).pc = IF s.pc \in Reporting THEN next ELSE "finishing"
BY DEF Broken, State, PCs

\* A step of request r that leaves the conversations alone, and with which r
\* neither begins to stream nor gets hold of rows it did not have.
LEMMA QuietStep ==
    ASSUME IInv, NEW r \in Requests, NEW T \in State,
           UNCHANGED <<conversation, question, cut>>,
           faults' \in [FaultKinds -> Nat],
           stream' = [stream EXCEPT ![r] = T],
           answer' \in [Requests -> [row : Rows, msg : Message]],
           \A s \in Requests : s # r => answer'[s] = answer[s],
           T.pc \in Streaming => stream[r].pc \in Streaming,
           T.pc \in Alive \ {"checked"} => Started(r),
           answer'[r].row = "live" => answer[r].row = "live" \/ Started(r)
    PROVE  IInv'
<1>1. TypeOK'
  BY DEF IInv, TypeOK, State
<1>2. \A s \in Requests : stream'[s] = IF s = r THEN T ELSE stream[s]
  BY DEF IInv, TypeOK
<1>3. OneStream'
  BY <1>2 DEF IInv, OneStream
<1>4. HolderIsRecorded'
  BY <1>2 DEF IInv, HolderIsRecorded
<1>5. StartedIsWhole'
  BY <1>2 DEF IInv, StartedIsWhole, Started
<1> QED
  BY <1>1, <1>3, <1>4, <1>5 DEF IInv

\* Emit, wherever it is called: the request goes on to next or gives up.
LEMMA EmitStep ==
    ASSUME IInv, NEW r \in Requests, NEW msg \in Message, NEW save \in BOOLEAN,
           NEW next \in PCs, Emit(r, msg, save, next),
           \/ stream[r].pc \in Streaming /\ next \in Streaming
           \/ stream[r].pc \in Reporting /\ next \in {"reported", "over"}
    PROVE  IInv'
<1> DEFINE S == stream[r]
<1>1. TypeOK /\ S \in State /\ stream \in [Requests -> State]
  BY DEF IInv, TypeOK, State
<1>2. UNCHANGED <<conversation, question, cut>>
  BY DEF Emit
<1>3. faults' \in [FaultKinds -> Nat]
  BY <1>1, FaultType DEF Emit, TypeOK, FaultKinds
<1>4. /\ answer' \in [Requests -> [row : Rows, msg : Message]]
      /\ \A s \in Requests : s # r => answer'[s] = answer[s]
  <2>1. answer' = answer \/ Stored(r, msg)
    BY DEF Emit
  <2> QED
    BY <1>1, <2>1, StoredType
<1>5. Started(r)
  BY DEF Started, Alive, PCs, Streaming, Reporting
<1>6. ASSUME NEW T \in State, stream' = [stream EXCEPT ![r] = T],
             T.pc = next \/ (S.pc \notin Reporting /\ T.pc = "finishing")
      PROVE  IInv'
  <2>1. T.pc \in Streaming => S.pc \in Streaming
    BY <1>6 DEF Streaming, Reporting
  <2> QED
    BY <1>2, <1>3, <1>4, <1>5, <1>6, <2>1, QuietStep
<1>7. CASE stream' = [stream EXCEPT ![r] = Broken(@, next, "failed")]
  <2>1. stream' = [stream EXCEPT ![r] = Broken(S, next, "failed")]
    BY <1>7, <1>1
  <2> QED
    BY <1>1, <1>6, <2>1, BrokenMoves
<1>8. CASE stream' = [stream EXCEPT ![r].pc = next, ![r].msg = msg, ![r].started = TRUE]
  <2> DEFINE T == [S EXCEPT !.pc = next, !.msg = msg, !.started = TRUE]
  <2>1. stream' = [stream EXCEPT ![r] = T]
    BY <1>8, <1>1
  <2>2. T \in State /\ T.pc = next
    BY <1>1 DEF State
  <2> QED
    BY <1>6, <2>1, <2>2
<1>9. ASSUME NEW e \in {"cancelled", "failed"},
             stream' = [stream EXCEPT ![r] =
                          Broken([@ EXCEPT !.msg = msg, !.started = TRUE], next, e)]
      PROVE  IInv'
  <2> DEFINE B == [S EXCEPT !.msg = msg, !.started = TRUE]
  <2>1. stream' = [stream EXCEPT ![r] = Broken(B, next, e)]
    BY <1>9, <1>1
  <2>2. B \in State /\ B.pc = S.pc
    BY <1>1 DEF State
  <2>3. /\ Broken(B, next, e) \in State
        /\ Broken(B, next, e).pc = next
             \/ (S.pc \notin Reporting /\ Broken(B, next, e).pc = "finishing")
    BY <1>9, <2>2, BrokenMoves
  <2> QED
    BY <1>6, <2>1, <2>3
<1> QED
  BY <1>7, <1>8, <1>9 DEF Emit

-----------------------------------------------------------------------------
(* The invariant is inductive.                                                 *)

\* No request has begun and every conversation is missing or idle.
LEMMA IInvInit == Init => IInv
BY AIConversationAssumption
   DEF Init, IInv, TypeOK, OneStream, HolderIsRecorded, StartedIsWhole, Started,
       Message, Fresh, Rows, Statuses, Traces, PCs, Alive, Streaming, FaultKinds

\* Rows come and go under the streams.
LEMMA RowStep ==
    ASSUME IInv, NEW c \in Conversations, CreateConversation(c) \/ DeleteConversation(c)
    PROVE  IInv'
<1> USE AIConversationAssumption
<1>1. CASE CreateConversation(c)
  <2>1. TypeOK'
    BY <1>1 DEF IInv, TypeOK, CreateConversation, Rows
  <2>2. OneStream' /\ HolderIsRecorded' /\ StartedIsWhole'
    BY <1>1 DEF IInv, TypeOK, CreateConversation, OneStream, HolderIsRecorded,
                StartedIsWhole, Started
  <2> QED
    BY <2>1, <2>2 DEF IInv
<1>2. CASE DeleteConversation(c)
  <2> DEFINE mine == {r \in Requests : Target[r] = c}
  <2>1. TypeOK'
    <3>1. conversation' \in [Conversations -> [row : Rows, generating : BOOLEAN]]
      BY <1>2 DEF IInv, TypeOK, DeleteConversation, Rows
    <3>2. question' \in [Requests -> Rows]
      BY <1>2 DEF IInv, TypeOK, DeleteConversation, Rows
    <3>3. answer' \in [Requests -> [row : Rows, msg : Message]]
      BY <1>2 DEF IInv, TypeOK, DeleteConversation, Rows
    <3>4. cut' \subseteq Requests
      BY <1>2 DEF IInv, TypeOK, DeleteConversation
    <3> QED
      BY <1>2, <3>1, <3>2, <3>3, <3>4 DEF IInv, TypeOK, DeleteConversation
  <2>2. OneStream'
    BY <1>2 DEF IInv, DeleteConversation, OneStream
  <2>3. HolderIsRecorded'
    BY <1>2 DEF IInv, TypeOK, DeleteConversation, HolderIsRecorded
  <2>4. StartedIsWhole'
    <3> SUFFICES ASSUME NEW r \in Requests,
                        (Started(r) \/ answer[r].row = "live")', r \notin cut'
                 PROVE  (question[r] = "live" /\ conversation[Target[r]].row = "live")'
      BY DEF StartedIsWhole
    <3>1. CASE r \in mine
      BY <1>2, <3>1 DEF IInv, TypeOK, DeleteConversation, Started
    <3>2. CASE r \notin mine
      BY <1>2, <3>2 DEF IInv, TypeOK, DeleteConversation, StartedIsWhole, Started
    <3> QED
      BY <3>1, <3>2
  <2> QED
    BY <2>1, <2>2, <2>3, <2>4 DEF IInv
<1> QED
  BY <1>1, <1>2

\* The claim: is_generating was clear, so nobody streams (HolderIsRecorded).
LEMMA ClaimStep ==
    ASSUME IInv, NEW r \in Requests, stream[r].pc = "checked", Claim(r), UNCHANGED cut
    PROVE  IInv'
<1> USE AIConversationAssumption
<1>1. TypeOK'
  <2>1. Fresh \in Message
    BY DEF Fresh, Message, Statuses, Traces
  <2>2. answer' \in [Requests -> [row : Rows, msg : Message]]
    BY <2>1 DEF IInv, TypeOK, Claim, Rows
  <2>3. conversation' \in [Conversations -> [row : Rows, generating : BOOLEAN]]
    BY DEF IInv, TypeOK, Claim, Rows
  <2>4. question' \in [Requests -> Rows] /\ UNCHANGED <<cut, faults>>
    BY DEF IInv, TypeOK, Claim, Rows
  <2>5. stream' \in [Requests -> State]
    BY DEF IInv, TypeOK, Claim, Go, State, PCs
  <2> QED
    BY <2>2, <2>3, <2>4, <2>5 DEF IInv, TypeOK, State
<1>2. \A s \in Requests : s # r => stream'[s] = stream[s]
  BY DEF IInv, TypeOK, Claim, Go
<1>3. stream'[r].pc = "begun"
  BY DEF IInv, TypeOK, Claim, Go
<1>4. \A s \in Requests : Target[s] = Target[r] => stream[s].pc \notin Streaming
  BY DEF IInv, HolderIsRecorded, Claim, Claimable
<1>5. OneStream'
  BY <1>2, <1>4 DEF IInv, OneStream
<1>6. HolderIsRecorded'
  BY <1>2 DEF IInv, TypeOK, HolderIsRecorded, Claim
<1>7. StartedIsWhole'
  BY <1>2 DEF IInv, TypeOK, StartedIsWhole, Started, Claim, Claimable
<1> QED
  BY <1>1, <1>5, <1>6, <1>7 DEF IInv

\* The release: by the one stream that holds the conversation (OneStream).
LEMMA FinishStep ==
    ASSUME IInv, NEW r \in Requests, FinishStream(r)
    PROVE  IInv'
<1> USE AIConversationAssumption
<1>1. /\ AfterRelease(r) \in {"over", "stopping", "reporting"}
      /\ stream[r].pc = "finishing"
  BY DEF FinishStream, AfterRelease, IInv, TypeOK
<1>2. faults' \in [FaultKinds -> Nat]
  BY FaultType DEF FinishStream, IInv, TypeOK, FaultKinds
<1>3. \/ conversation' = conversation
      \/ conversation' = [conversation EXCEPT ![Target[r]] =
                             [row |-> "live", generating |-> FALSE]]
  BY DEF FinishStream
<1>4. TypeOK'
  <2>1. stream' \in [Requests -> State]
    <3>1. AfterRelease(r) \in PCs /\ stream \in [Requests -> State]
      BY <1>1 DEF IInv, TypeOK, State, PCs
    <3>2. \A s \in State : \A p \in PCs : [s EXCEPT !.pc = p] \in State
      BY DEF State
    <3> QED
      BY <3>1, <3>2 DEF FinishStream, Go
  <2>2. conversation' \in [Conversations -> [row : Rows, generating : BOOLEAN]]
    <3>1. [row |-> "live", generating |-> FALSE] \in [row : Rows, generating : BOOLEAN]
      BY DEF Rows
    <3> QED
      BY <1>3, <3>1 DEF IInv, TypeOK
  <2> QED
    BY <1>2, <2>1, <2>2 DEF FinishStream, IInv, TypeOK, State
<1>5. /\ \A s \in Requests : s # r => stream'[s] = stream[s]
      /\ stream'[r].pc \notin Streaming
  BY <1>1 DEF IInv, TypeOK, FinishStream, Go, Streaming
<1>6. OneStream'
  BY <1>5 DEF IInv, OneStream
<1>7. HolderIsRecorded'
  <2> SUFFICES ASSUME NEW s \in Requests, stream'[s].pc \in Streaming
               PROVE  conversation'[Target[s]].generating
    BY DEF HolderIsRecorded
  <2>1. s # r /\ stream[s].pc \in Streaming
    BY <1>5
  <2>2. Target[s] # Target[r]
    BY <1>1, <2>1 DEF IInv, OneStream, Streaming
  <2> QED
    BY <1>3, <2>1, <2>2 DEF IInv, TypeOK, HolderIsRecorded
<1>8. StartedIsWhole'
  <2> SUFFICES ASSUME NEW s \in Requests,
                      (Started(s) \/ answer[s].row = "live")', s \notin cut'
               PROVE  (question[s] = "live" /\ conversation[Target[s]].row = "live")'
    BY DEF StartedIsWhole
  <2>1. (Started(s) \/ answer[s].row = "live") /\ s \notin cut
    BY <1>1, <1>5 DEF FinishStream, Started, Alive, PCs
  <2>2. question[s] = "live" /\ conversation[Target[s]].row = "live"
    BY <2>1 DEF IInv, StartedIsWhole
  <2> QED
    BY <1>3, <2>2 DEF FinishStream, IInv, TypeOK
<1> QED
  BY <1>4, <1>6, <1>7, <1>8 DEF IInv

\* Steps that only move the request on: QuietStep with the answer left alone.
LEMMA MoveStep ==
    ASSUME IInv, NEW r \in Requests, NEW T \in State,
           UNCHANGED <<conversation, question, answer, cut>>,
           faults' \in [FaultKinds -> Nat],
           stream' = [stream EXCEPT ![r] = T],
           T.pc \in Streaming => stream[r].pc \in Streaming,
           T.pc \in Alive \ {"checked"} => Started(r)
    PROVE  IInv'
<1>1. answer' \in [Requests -> [row : Rows, msg : Message]]
  BY DEF IInv, TypeOK
<1> QED
  BY <1>1, QuietStep

\* Every other step of a request, one case for each action.
LEMMA RequestStep ==
    ASSUME IInv, NEW r \in Requests,
           \/ CheckConversation(r) \/ Serve(r)
           \/ AssistantToken(r) \/ ToolCallStarted(r) \/ RuntimeFails(r)
           \/ ClientLeaves(r) \/ Crash(r)
    PROVE  IInv'
<1> DEFINE S == stream[r]
<1>1. TypeOK /\ S \in State /\ stream \in [Requests -> State]
      /\ faults \in [FaultKinds -> Nat]
  BY DEF IInv, TypeOK, State
<1>2. ASSUME NEW p \in PCs, Go(r, p),
             UNCHANGED <<conversation, question, answer, cut>>,
             faults' \in [FaultKinds -> Nat],
             p \in Streaming => stream[r].pc \in Streaming,
             p \in Alive \ {"checked"} => Started(r)
      PROVE  IInv'
  <2> DEFINE T == [S EXCEPT !.pc = p]
  <2>1. stream' = [stream EXCEPT ![r] = T] /\ T \in State /\ T.pc = p
    BY <1>1, <1>2 DEF Go, State
  <2> QED
    BY <1>2, <2>1, MoveStep
<1>3. \A k \in FaultKinds : Fault(k) => faults' \in [FaultKinds -> Nat]
  BY <1>1, FaultType
<1> DEFINE M(m) == m \in Message
<1>4. /\ M(Memory(r))
      /\ \A s \in Statuses : M([Memory(r) EXCEPT !.status = s])
      /\ \A t \in Traces : M([Memory(r) EXCEPT !.trace = t])
  BY <1>1, MemoryType
<1> USE DEF PCs, Streaming, Reporting, Alive, Statuses, Traces, FaultKinds
<1> HIDE DEF S, M
<1>5. CASE CheckConversation(r)
  BY <1>1, <1>2, <1>5 DEF CheckConversation
<1>6. CASE PersistStreamStart(r)
  <2>1. CASE Claim(r)
    BY <1>6, <2>1, ClaimStep DEF PersistStreamStart
  <2>2. CASE Go(r, "over") /\ UNCHANGED <<conversation, question, answer, cut>>
    <3>1. faults' \in [FaultKinds -> Nat]
      BY <1>1, <1>3, <1>6, <2>2 DEF PersistStreamStart, Claim, Go
    <3> QED
      BY <1>2, <2>2, <3>1
  <2> QED
    BY <1>6, <2>1, <2>2 DEF PersistStreamStart
<1>7. CASE PrepareRun(r)
  <2>1. faults' \in [FaultKinds -> Nat] /\ S.pc = "begun" /\ Started(r)
    BY <1>1, <1>3, <1>7 DEF PrepareRun, Started, S
  <2>2. PICK p \in {"opening", "over"} : Go(r, p)
    BY <1>7 DEF PrepareRun
  <2> QED
    BY <1>2, <1>7, <2>1, <2>2 DEF PrepareRun, S
<1>8. CASE ConversationStarted(r)
  BY <1>4, <1>8, EmitStep DEF ConversationStarted, M
<1>9. CASE AssistantToken(r)
  BY <1>4, <1>9, EmitStep DEF AssistantToken, M
<1>10. CASE ToolCallStarted(r)
  BY <1>4, <1>10, EmitStep DEF ToolCallStarted, M
<1>11. CASE ToolCallFinished(r)
  BY <1>4, <1>11, EmitStep DEF ToolCallFinished, M
<1>12. CASE MessageCompleted(r)
  BY <1>4, <1>12, EmitStep DEF MessageCompleted, M
<1>13. CASE Done(r)
  BY <1>4, <1>13, EmitStep DEF Done, M
<1>14. CASE RuntimeFails(r)
  <2>1. faults' \in [FaultKinds -> Nat] /\ S.pc = "working" /\ Started(r)
    BY <1>1, <1>3, <1>14 DEF RuntimeFails, Started, S
  <2>2. PICK e \in {"cancelled", "failed"} : Fails(r, e)
    BY <1>14 DEF RuntimeFails
  <2> DEFINE T == [S EXCEPT !.pc = "finishing", !.error = e]
  <2>3. T \in State /\ T.pc = "finishing" /\ stream' = [stream EXCEPT ![r] = T]
    BY <1>1, <2>2 DEF Fails, State, S
  <2> QED
    BY <1>14, <2>1, <2>3, MoveStep DEF RuntimeFails, S
<1>15. CASE FinishStream(r)
  BY <1>15, FinishStep
<1>16. CASE StopMessage(r)
  <2> DEFINE msg == [Memory(r) EXCEPT !.status = "stopped"]
             T == [S EXCEPT !.pc = "over", !.msg = msg]
  <2>1. msg \in Message
    BY <1>4 DEF M
  <2>2. T \in State /\ T.pc = "over" /\ stream' = [stream EXCEPT ![r] = T]
    BY <1>1, <1>16, <2>1 DEF StopMessage, State, S
  <2>3. Started(r) /\ UNCHANGED <<conversation, question, cut>>
    BY <1>16 DEF StopMessage, Started
  <2>4. faults' \in [FaultKinds -> Nat]
    BY <1>1, <1>3, <1>16 DEF StopMessage
  <2>5. Stored(r, msg) \/ answer' = answer
    BY <1>16 DEF StopMessage
  <2>6. /\ answer' \in [Requests -> [row : Rows, msg : Message]]
        /\ \A s \in Requests : s # r => answer'[s] = answer[s]
    BY <1>1, <2>1, <2>5, StoredType
  <2> QED
    BY <2>2, <2>3, <2>4, <2>6, QuietStep
<1>17. CASE ReportError(r)
  BY <1>4, <1>17, EmitStep DEF ReportError, M
<1>18. CASE ReportDone(r)
  BY <1>4, <1>18, EmitStep DEF ReportDone, M
<1>19. CASE ClientLeaves(r)
  <2> DEFINE T == [S EXCEPT !.gone = TRUE]
  <2>1. T \in State /\ T.pc = S.pc /\ stream' = [stream EXCEPT ![r] = T]
    BY <1>1, <1>19 DEF ClientLeaves, State, S
  <2>2. faults' \in [FaultKinds -> Nat]
    BY <1>3, <1>19 DEF ClientLeaves
  <2> QED
    BY <1>19, <2>1, <2>2, MoveStep DEF ClientLeaves, Started, S
<1>20. CASE Crash(r)
  BY <1>2, <1>3, <1>20 DEF Crash
<1> QED
  BY <1>5, <1>6, <1>7, <1>8, <1>9, <1>10, <1>11, <1>12, <1>13, <1>14, <1>15, <1>16,
     <1>17, <1>18, <1>19, <1>20 DEF Serve

\* Every step of the specification.
LEMMA IInvStep == IInv /\ [Next]_vars => IInv'
<1> SUFFICES ASSUME IInv, [Next]_vars PROVE IInv'
  OBVIOUS
<1>1. CASE UNCHANGED vars
  BY <1>1 DEF vars, IInv, TypeOK, OneStream, HolderIsRecorded, StartedIsWhole, Started
<1>2. CASE Next
  BY <1>2, RowStep, RequestStep DEF Next
<1> QED
  BY <1>1, <1>2

\* The inductive invariant holds in every reachable state.
LEMMA Invariance == Spec => []IInv
BY IInvInit, IInvStep, PTL DEF Spec

-----------------------------------------------------------------------------
(* How an answer is settled.                                                   *)

Excused == Failed({"db", "setup", "crash"})

\* What a request has and has not done to its answer a, by how far its stream s is.
Settling(s, a) ==
    /\ s.pc \in {"idle", "checked"} => a.row = "none"
    /\ s.pc \in {"idle", "checked", "begun", "opening", "working", "tool", "closing"} =>
          s.error = "none"
    /\ s.pc \in {"working", "tool", "closing"} => s.started
    /\ s.pc = "closing" => s.msg.status = "success" /\ a.msg.status = "success"
    /\ s.pc = "finishing" => /\ s.error = "none" => a.msg.status = "success"
                             /\ s.error = "cancelled" => s.started
                             /\ ~s.started => s.gone
    /\ s.pc \in Reporting => s.error = "failed"
    /\ s.pc = "reported" => s.gone \/ a.msg.status = "error"
    /\ s.pc = "over" /\ a.row = "live" /\ a.msg.status = "loading"
         => s.gone /\ s.error # "cancelled"

SettledUnlessExcused == Excused \/ \A r \in Requests : Settling(stream[r], answer[r])

\* Faults are not forgotten.
LEMMA ExcusesStay == TypeOK /\ [Next]_vars /\ Excused => Excused'
<1> SUFFICES ASSUME TypeOK, [Next]_vars, Excused PROVE Excused'
  OBVIOUS
<1> DEFINE Counted == faults' = faults \/ \E k \in FaultKinds : Fault(k)
<1> USE DEF FaultKinds
<1>1. Counted
  <2>1. \A r, msg, save, next : Emit(r, msg, save, next) => Counted
    BY DEF Emit
  <2>2. ASSUME NEW c \in Conversations, CreateConversation(c) \/ DeleteConversation(c)
        PROVE  Counted
    BY <2>2 DEF CreateConversation, DeleteConversation
  <2>3. ASSUME NEW r \in Requests,
               \/ CheckConversation(r) \/ PersistStreamStart(r) \/ PrepareRun(r)
               \/ RuntimeFails(r) \/ FinishStream(r) \/ StopMessage(r)
               \/ ClientLeaves(r) \/ Crash(r)
        PROVE  Counted
    BY <2>3 DEF CheckConversation, PersistStreamStart, Claim, PrepareRun, RuntimeFails,
                FinishStream, StopMessage, ClientLeaves, Crash
  <2>4. ASSUME NEW r \in Requests,
               \/ ConversationStarted(r) \/ AssistantToken(r) \/ ToolCallStarted(r)
               \/ ToolCallFinished(r) \/ MessageCompleted(r) \/ Done(r)
               \/ ReportError(r) \/ ReportDone(r)
        PROVE  Counted
    <3> HIDE DEF Counted
    <3> QED
      BY <2>1, <2>4 DEF ConversationStarted, AssistantToken, ToolCallStarted,
         ToolCallFinished, MessageCompleted, Done, ReportError, ReportDone
  <2> QED
    BY <2>2, <2>3, <2>4 DEF Next, Serve, vars
<1>2. PICK k \in {"db", "setup", "crash"} : faults[k] > 0
  BY DEF Excused, Failed
<1>3. faults'[k] > 0
  BY <1>1, <1>2 DEF TypeOK, Fault
<1> QED
  BY <1>3 DEF Excused, Failed

\* A fault of one of the three kinds is an excuse.
LEMMA FaultExcuses ==
    ASSUME TypeOK, NEW k \in {"db", "setup", "crash"}, Fault(k)
    PROVE  Excused'
BY DEF TypeOK, Fault, Excused, Failed, FaultKinds

\* The outcomes of an event that sets the message to msg, unless a statement
\* fails: s and a are the stream and the answer before it, t and b after it.
Outcome(s, t, a, b, msg, save, next) ==
    /\ t.gone = s.gone
    /\ \/ /\ t.pc = next /\ t.msg = msg /\ t.started /\ t.error = s.error
          /\ b = IF save THEN [row |-> "live", msg |-> msg] ELSE a
       \/ /\ s.gone /\ b = a
          /\ IF s.pc \in Reporting
             THEN t.pc = next /\ t.error = s.error
             ELSE /\ t.pc = "finishing"
                  /\ \/ t.error = "failed" /\ t.started = s.started
                     \/ save /\ t.error = "cancelled" /\ t.started

\* Emit has one of these outcomes, and touches no other request.
LEMMA EmitOutcome ==
    ASSUME TypeOK, NEW r \in Requests, NEW msg \in Message, NEW save \in BOOLEAN,
           NEW next \in PCs, Emit(r, msg, save, next)
    PROVE  /\ \A s \in Requests \ {r} : stream'[s] = stream[s] /\ answer'[s] = answer[s]
           /\ Excused' \/ Outcome(stream[r], stream'[r], answer[r], answer'[r], msg, save, next)
<1> DEFINE S == stream[r]
           T == stream'[r]
<1>1. S \in State /\ stream \in [Requests -> State]
  BY DEF TypeOK, State
<1>2. answer' = answer \/ Stored(r, msg)
  BY DEF Emit
<1>3. \A s \in Requests \ {r} : stream'[s] = stream[s] /\ answer'[s] = answer[s]
  <2>1. \A s \in Requests \ {r} : stream'[s] = stream[s]
    BY <1>1 DEF Emit
  <2> QED
    BY <1>2, <2>1, StoredType
<1>4. Stored(r, msg) => answer'[r] = [row |-> "live", msg |-> msg]
  BY DEF Stored, TypeOK
<1>5. CASE /\ stream[r].gone
           /\ stream' = [stream EXCEPT ![r] = Broken(@, next, "failed")]
           /\ UNCHANGED <<answer, faults>>
  <2>1. T = Broken(S, next, "failed")
    BY <1>1, <1>5
  <2>2. /\ T.gone = S.gone /\ T.started = S.started
        /\ S.pc \in Reporting => T.pc = next /\ T.error = S.error
        /\ S.pc \notin Reporting => T.pc = "finishing" /\ T.error = "failed"
    BY <1>1, <2>1 DEF Broken, State
  <2> QED
    BY <1>3, <1>5, <2>2 DEF Outcome
<1>6. CASE /\ stream' = [stream EXCEPT ![r].pc = next, ![r].msg = msg, ![r].started = TRUE]
           /\ IF save THEN ~stream[r].gone /\ Stored(r, msg) ELSE UNCHANGED answer
  <2>1. T = [S EXCEPT !.pc = next, !.msg = msg, !.started = TRUE]
    BY <1>1, <1>6
  <2>2. T.gone = S.gone /\ T.pc = next /\ T.msg = msg /\ T.started /\ T.error = S.error
    BY <1>1, <2>1 DEF State
  <2> QED
    BY <1>3, <1>4, <1>6, <2>2 DEF Outcome
<1>7. CASE Fault("db")
  BY <1>3, <1>7, FaultExcuses
<1>8. CASE /\ save /\ stream[r].gone /\ UNCHANGED answer
           /\ stream' = [stream EXCEPT ![r] =
                 Broken([@ EXCEPT !.msg = msg, !.started = TRUE], next, "cancelled")]
  <2> DEFINE M == [S EXCEPT !.msg = msg, !.started = TRUE]
  <2>1. T = Broken(M, next, "cancelled")
    BY <1>1, <1>8
  <2>2. M \in State /\ M.pc = S.pc /\ M.gone = S.gone /\ M.started /\ M.error = S.error
    BY <1>1 DEF State
  <2> HIDE DEF M
  <2>3. /\ T.gone = S.gone /\ T.started
        /\ S.pc \in Reporting => T.pc = next /\ T.error = S.error
        /\ S.pc \notin Reporting => T.pc = "finishing" /\ T.error = "cancelled"
    BY <2>1, <2>2 DEF Broken, State
  <2> QED
    BY <1>3, <1>8, <2>3 DEF Outcome
<1> QED
  BY <1>5, <1>6, <1>7, <1>8 DEF Emit

\* Deleting a conversation does to an answer what keeps it settled.
LEMMA SettlingRow ==
    ASSUME TypeOK, SettledUnlessExcused, NEW c \in Conversations,
           CreateConversation(c) \/ DeleteConversation(c)
    PROVE  SettledUnlessExcused'
<1>1. stream' = stream /\ faults' = faults
  BY DEF CreateConversation, DeleteConversation
<1>2. \A r \in Requests : /\ answer'[r].msg = answer[r].msg
                          /\ answer'[r].row = "live" => answer[r].row = "live"
                          /\ answer[r].row = "none" => answer'[r].row = "none"
  BY DEF TypeOK, CreateConversation, DeleteConversation
<1> QED
  BY <1>1, <1>2 DEF SettledUnlessExcused, Settling, Excused, Failed

\* Every step of a request keeps its answer settled, or is excused.
LEMMA SettlingRequest ==
    ASSUME TypeOK, NEW r \in Requests, ~Excused', Settling(stream[r], answer[r]),
           \/ CheckConversation(r) \/ Serve(r)
           \/ AssistantToken(r) \/ ToolCallStarted(r) \/ RuntimeFails(r)
           \/ ClientLeaves(r) \/ Crash(r)
    PROVE  /\ \A s \in Requests \ {r} : stream'[s] = stream[s] /\ answer'[s] = answer[s]
           /\ Settling(stream'[r], answer'[r])
<1> DEFINE S == stream[r]
           T == stream'[r]
           A == answer[r]
           B == answer'[r]
           Others == \A s \in Requests \ {r} : stream'[s] = stream[s] /\ answer'[s] = answer[s]
           Moved(p) == /\ T.pc = p /\ T.msg = S.msg /\ T.started = S.started
                       /\ T.gone = S.gone /\ T.error = S.error
<1>1. /\ S \in State /\ stream \in [Requests -> State]
      /\ A \in [row : Rows, msg : Message]
      /\ answer \in [Requests -> [row : Rows, msg : Message]]
  BY DEF TypeOK, State
<1>2. \A k \in {"db", "setup", "crash"} : ~Fault(k)
  BY FaultExcuses
<1>3. /\ Memory(r) \in Message /\ Memory(r) = S.msg
      /\ \A s \in Statuses : [Memory(r) EXCEPT !.status = s] \in Message
      /\ \A t \in Traces : [Memory(r) EXCEPT !.trace = t] \in Message
  BY MemoryType DEF Memory
<1>4. ASSUME NEW p, Go(r, p), answer' = answer
      PROVE  Others /\ Moved(p) /\ B = A
  BY <1>1, <1>4 DEF Go, State
<1>5. ASSUME NEW msg \in Message, NEW save \in BOOLEAN, NEW next \in PCs,
             Emit(r, msg, save, next)
      PROVE  Others /\ Outcome(S, T, A, B, msg, save, next)
  BY <1>5, EmitOutcome
<1> HIDE DEF T, B, S, A
<1>6. Settling(S, A)
  BY DEF S, A
<1> SUFFICES Others /\ Settling(T, B)
  BY DEF T, B
<1> USE DEF Reporting
<1>7. CASE CheckConversation(r)
  <2>1. S.pc = "idle" /\ Others /\ Moved("checked") /\ B = A
    BY <1>4, <1>7 DEF CheckConversation, S
  <2> QED
    BY <1>1, <1>6, <2>1 DEF Settling, State
<1>8. CASE PersistStreamStart(r)
  <2>1. S.pc = "checked"
    BY <1>8 DEF PersistStreamStart, S
  <2>2. CASE Claim(r)
    <3>1. /\ Moved("begun") /\ Others
          /\ B = [row |-> "live", msg |-> Fresh]
      BY <1>1, <2>2 DEF Claim, Go, S, T, B
    <3> QED
      BY <1>1, <1>6, <2>1, <3>1 DEF Settling, State
  <2>3. CASE Go(r, "over") /\ UNCHANGED answer
    <3>1. Others /\ Moved("over") /\ B = A
      BY <1>4, <2>3
    <3> QED
      BY <1>1, <1>6, <2>1, <3>1 DEF Settling, State
  <2> QED
    BY <1>8, <2>2, <2>3 DEF PersistStreamStart
<1>9. CASE PrepareRun(r)
  <2>1. S.pc = "begun" /\ Go(r, "opening") /\ UNCHANGED answer
    BY <1>2, <1>9 DEF PrepareRun, S
  <2>2. Others /\ Moved("opening") /\ B = A
    BY <1>4, <2>1
  <2> QED
    BY <1>1, <1>6, <2>1, <2>2 DEF Settling, State
<1>10. CASE ConversationStarted(r)
  <2>1. S.pc = "opening" /\ Others /\ Outcome(S, T, A, B, S.msg, FALSE, "working")
    BY <1>3, <1>5, <1>10 DEF ConversationStarted, S, PCs
  <2> QED
    BY <1>1, <1>6, <2>1 DEF Settling, Outcome
<1>11. CASE AssistantToken(r)
  <2> DEFINE msg == [Memory(r) EXCEPT !.status = "loading"]
  <2>1. PICK due \in BOOLEAN : Emit(r, msg, due, "working")
    BY <1>11 DEF AssistantToken
  <2>2. msg \in Message
    BY <1>3 DEF Statuses
  <2>3. S.pc = "working" /\ Others /\ Outcome(S, T, A, B, msg, due, "working")
    BY <1>5, <1>11, <2>1, <2>2 DEF AssistantToken, S, PCs
  <2> HIDE DEF msg
  <2> QED
    BY <1>1, <1>6, <2>3 DEF Settling, Outcome
<1>12. CASE ToolCallStarted(r)
  <2> DEFINE msg == [Memory(r) EXCEPT !.trace = "running"]
  <2>1. msg \in Message /\ Emit(r, msg, TRUE, "tool")
    BY <1>3, <1>12 DEF ToolCallStarted, Traces
  <2>2. S.pc = "working" /\ Others /\ Outcome(S, T, A, B, msg, TRUE, "tool")
    BY <1>5, <1>12, <2>1 DEF ToolCallStarted, S, PCs
  <2> HIDE DEF msg
  <2> QED
    BY <1>1, <1>6, <2>2 DEF Settling, Outcome
<1>13. CASE ToolCallFinished(r)
  <2> DEFINE msg == [Memory(r) EXCEPT !.trace = "finished"]
  <2>1. msg \in Message /\ Emit(r, msg, TRUE, "working")
    BY <1>3, <1>13 DEF ToolCallFinished, Traces
  <2>2. S.pc = "tool" /\ Others /\ Outcome(S, T, A, B, msg, TRUE, "working")
    BY <1>5, <1>13, <2>1 DEF ToolCallFinished, S, PCs
  <2> HIDE DEF msg
  <2> QED
    BY <1>1, <1>6, <2>2 DEF Settling, Outcome
<1>14. CASE MessageCompleted(r)
  <2> DEFINE msg == [Memory(r) EXCEPT !.status = "success"]
  <2>1. msg \in Message /\ msg.status = "success" /\ Emit(r, msg, TRUE, "closing")
    BY <1>3, <1>14 DEF MessageCompleted, Statuses, Message
  <2>2. S.pc = "working" /\ Others /\ Outcome(S, T, A, B, msg, TRUE, "closing")
    BY <1>5, <1>14, <2>1 DEF MessageCompleted, S, PCs
  <2> HIDE DEF msg
  <2> QED
    BY <1>1, <1>6, <2>1, <2>2 DEF Settling, Outcome
<1>15. CASE Done(r)
  <2>1. S.pc = "closing" /\ Others /\ Outcome(S, T, A, B, S.msg, TRUE, "finishing")
    BY <1>3, <1>5, <1>15 DEF Done, S, PCs
  <2> QED
    BY <1>1, <1>6, <2>1 DEF Settling, Outcome
<1>16. CASE RuntimeFails(r)
  <2>1. PICK e \in {"cancelled", "failed"} : Fails(r, e) /\ S.pc = "working" /\ B = A
    BY <1>16 DEF RuntimeFails, S, A, B
  <2>2. Others /\ T.pc = "finishing" /\ T.error = e /\ T.started = S.started
    BY <1>1, <1>16, <2>1 DEF RuntimeFails, Fails, S, T
  <2> QED
    BY <1>1, <1>6, <2>1, <2>2 DEF Settling, State
<1>17. CASE FinishStream(r)
  <2>1. S.pc = "finishing" /\ Others /\ Moved(AfterRelease(r)) /\ B = A
    BY <1>4, <1>17 DEF FinishStream, S
  <2>2. \/ AfterRelease(r) = "over" /\ (S.error = "none" \/ ~S.started)
        \/ AfterRelease(r) = "stopping"
        \/ AfterRelease(r) = "reporting" /\ S.error = "failed"
    BY <1>1 DEF AfterRelease, S, State
  <2> QED
    BY <1>1, <1>6, <2>1, <2>2 DEF Settling, State
<1>18. CASE StopMessage(r)
  <2> DEFINE msg == [Memory(r) EXCEPT !.status = "stopped"]
  <2>1. S.pc = "stopping" /\ Stored(r, msg)
    BY <1>2, <1>18 DEF StopMessage, S
  <2>2. msg \in Message /\ msg.status = "stopped"
    BY <1>3 DEF Message, Statuses
  <2>3. B = [row |-> "live", msg |-> msg]
    BY <1>1, <2>1 DEF Stored, B
  <2>4. Others /\ T.pc = "over"
    BY <1>1, <1>18, <2>1 DEF StopMessage, Stored, S, T
  <2> HIDE DEF msg
  <2> QED
    BY <1>1, <1>6, <2>1, <2>2, <2>3, <2>4 DEF Settling, State
<1>19. ASSUME NEW from, NEW to,
              \/ from = "reporting" /\ to = "reported"
              \/ from = "reported" /\ to = "over",
              S.pc = from, Emit(r, [Memory(r) EXCEPT !.status = "error"], TRUE, to)
       PROVE  Others /\ Settling(T, B)
  <2> DEFINE msg == [Memory(r) EXCEPT !.status = "error"]
  <2>1. msg \in Message /\ msg.status = "error"
    BY <1>3 DEF Message, Statuses
  <2>2. Others /\ Outcome(S, T, A, B, msg, TRUE, to)
    BY <1>5, <1>19, <2>1 DEF PCs
  <2> HIDE DEF msg
  <2> QED
    BY <1>1, <1>6, <1>19, <2>1, <2>2 DEF Settling, Outcome
<1>20. CASE ReportError(r) \/ ReportDone(r)
  <2> HIDE DEF Others
  <2>1. CASE ReportError(r)
    BY <1>19, <2>1, Zenon DEF ReportError, S
  <2>2. CASE ReportDone(r)
    BY <1>19, <2>2, Zenon DEF ReportDone, S
  <2> QED
    BY <1>20, <2>1, <2>2
<1>21. CASE ClientLeaves(r)
  <2>1. /\ Others /\ B = A /\ T.gone /\ T.pc = S.pc /\ T.msg = S.msg
        /\ T.started = S.started /\ T.error = S.error
    BY <1>1, <1>21 DEF ClientLeaves, S, T, A, B
  <2> QED
    BY <1>1, <1>6, <2>1 DEF Settling, State
<1>22. CASE Crash(r)
  BY <1>2, <1>22 DEF Crash
<1> QED
  BY <1>7, <1>8, <1>9, <1>10, <1>11, <1>12, <1>13, <1>14, <1>15, <1>16, <1>17, <1>18,
     <1>20, <1>21, <1>22 DEF Serve

\* No answer is there before its request.
LEMMA SettlingInit == Init => SettledUnlessExcused
BY DEF Init, SettledUnlessExcused, Settling, Reporting, Fresh

\* Answers stay settled, with IInv for the types.
LEMMA SettlingStep == TypeOK /\ SettledUnlessExcused /\ [Next]_vars => SettledUnlessExcused'
<1> SUFFICES ASSUME TypeOK, SettledUnlessExcused, [Next]_vars, ~Excused'
             PROVE  SettledUnlessExcused'
  BY DEF SettledUnlessExcused
<1>1. \A r \in Requests : Settling(stream[r], answer[r])
  BY ExcusesStay DEF SettledUnlessExcused
<1>2. CASE UNCHANGED vars
  BY <1>1, <1>2 DEF vars, SettledUnlessExcused
<1>3. ASSUME NEW c \in Conversations, CreateConversation(c) \/ DeleteConversation(c)
      PROVE  SettledUnlessExcused'
  BY <1>3, SettlingRow
<1>4. ASSUME NEW r \in Requests,
             \/ CheckConversation(r) \/ Serve(r)
             \/ AssistantToken(r) \/ ToolCallStarted(r) \/ RuntimeFails(r)
             \/ ClientLeaves(r) \/ Crash(r)
      PROVE  SettledUnlessExcused'
  <2>1. /\ \A s \in Requests \ {r} : stream'[s] = stream[s] /\ answer'[s] = answer[s]
        /\ Settling(stream'[r], answer'[r])
    BY <1>1, <1>4, SettlingRequest
  <2> QED
    BY <1>1, <2>1 DEF SettledUnlessExcused
<1> QED
  BY <1>2, <1>3, <1>4 DEF Next

-----------------------------------------------------------------------------
(* The theorems.                                                               *)

\* Rows, messages and requests keep their types.
THEOREM StreamsAreTyped == Spec => []TypeOK
<1>1. IInv => TypeOK
  BY DEF IInv
<1> QED
  BY <1>1, Invariance, PTL

\* No two requests stream into one conversation, whatever is deleted, fails or
\* dies meanwhile: persistStreamStart looks at is_generating under the row lock,
\* and only the stream that set it clears it.
THEOREM StreamsExclude == Spec => []OneStream
<1>1. IInv => OneStream
  BY DEF IInv
<1> QED
  BY <1>1, Invariance, PTL

\* An answer that can be read has its question and its conversation, unless
\* DeleteConversation came while it was being streamed.
THEOREM TurnsStayWhole == Spec => []TurnsAreWhole
<1>1. IInv => TurnsAreWhole
  BY DEF IInv, StartedIsWhole, TurnsAreWhole
<1> QED
  BY <1>1, Invariance, PTL

\* An answer is left loading only by what nothing could settle: a failed statement
\* or setup, a dead process, or a departed client that showed as a write error.
THEOREM AnswersSettle == Spec => []OnlyBrokenWritesLeaveLoading
<1>1. SettledUnlessExcused => OnlyBrokenWritesLeaveLoading
  BY DEF SettledUnlessExcused, Settling, OnlyBrokenWritesLeaveLoading, Excused
<1>2. IInv => TypeOK
  BY DEF IInv
<1> QED
  BY <1>1, <1>2, Invariance, SettlingInit, SettlingStep, PTL DEF Spec

-----------------------------------------------------------------------------
(* AIMemory: the inductive invariant.                                          *)

\* The text of a summary is no older than its boundary.
ReachesBoundary(s) == s.until # NoTurn => \E u \in s.covers : u >= s.until

\* The row, and every copy of it that a writeback still holds.
CopiesReachBoundary ==
    /\ ReachesBoundary(summary)
    /\ \A t \in Turns : ReachesBoundary(work[t].prev)

\* Only the last turn can be running, only a successful one has a writeback, and
\* that saw the turn itself.
WritebacksFollowTurns ==
    /\ \A t \in 1..Latest : turns[t].state = "running" => t = Latest
    /\ \A t \in Turns : /\ work[t].pc # "none" => t \in Successful
                        /\ work[t].pc \in {"readSummary", "writeSummary"} => t <= work[t].top

BeforeSummary == {"readMessages", "readSummary", "writeSummary"}

\* The row is that of the last successful turn, and lags by less than a refresh.
CaughtUp ==
    /\ \A t \in Successful : (\A u \in Successful : u <= t) => summary.scope = turns[t].org
    /\ Cardinality({u \in Successful : u > summary.until}) < RefreshEvery

\* The turns whose fact, if any, is decided.
Decided == {t \in Successful : Says[t] # "none" /\ work[t].pc \notin Writing}

\* Writebacks that run one after the other belong to the latest turn, work on what
\* is there, and have caught up once the summary is written.
InOrder ==
    /\ \A t \in Turns :
          /\ work[t].pc \in Writing => t = Latest
          /\ work[t].pc \in {"readSummary", "writeSummary"} =>
                work[t].top = t /\ work[t].done = Successful
          /\ work[t].pc = "writeFact" => work[t].seen = fact /\ Says[t] # "none"
          /\ EndsWhole(work[t].prev)
    /\ EndsWhole(summary)
    /\ (\A t \in Turns : work[t].pc \notin BeforeSummary) => CaughtUp
    /\ LastOfBest(fact, Decided)

OneAfterTheOther == ~overlapped /\ memoryFaults = 0 => InOrder

MemoryIInv ==
    MemoryTypeOK /\ CopiesReachBoundary /\ WritebacksFollowTurns /\ OneAfterTheOther

-----------------------------------------------------------------------------
(* The writebacks: what the helpers do.                                        *)

\* A writeback at the beginning of a step.
LEMMA AtType ==
    /\ NoSummary \in Summary /\ ReachesBoundary(NoSummary) /\ EndsWhole(NoSummary)
    /\ \A pc \in Steps : At(pc) \in WorkState /\ At(pc).pc = pc /\ At(pc).prev = NoSummary
<1>1. NoSummary \in Summary /\ ReachesBoundary(NoSummary) /\ EndsWhole(NoSummary)
  BY AIMemoryAssumption DEF NoSummary, Summary, ReachesBoundary, EndsWhole, NoTurn
<1>2. ASSUME NEW pc \in Steps
      PROVE  At(pc) \in WorkState /\ At(pc).pc = pc /\ At(pc).prev = NoSummary
  <2>1. 0 \in 0..MaxTurns /\ NoTurn \in 0..MaxTurns /\ {} \in SUBSET Turns
    BY AIMemoryAssumption DEF NoTurn
  <2>. QED
    BY <1>1, <2>1 DEF At, WorkState
<1>. QED
  BY <1>1, <1>2

\* A step that reads messages or the fact notes what it has read.
LEMMA ReadMoves ==
    ASSUME NEW pc \in Steps, NEW n \in 0..MaxTurns, NEW D \in SUBSET Turns
    PROVE  /\ [At(pc) EXCEPT !.top = n, !.done = D] =
                 [pc |-> pc, top |-> n, done |-> D, prev |-> NoSummary, seen |-> NoTurn]
           /\ [At(pc) EXCEPT !.seen = n] =
                 [pc |-> pc, top |-> 0, done |-> {}, prev |-> NoSummary, seen |-> n]
           /\ [At(pc) EXCEPT !.top = n, !.done = D] \in WorkState
           /\ [At(pc) EXCEPT !.seen = n] \in WorkState
<1>1. [At(pc) EXCEPT !.seen = n] =
        [pc |-> pc, top |-> 0, done |-> {}, prev |-> NoSummary, seen |-> n]
  BY DEF At
<1>2. [At(pc) EXCEPT !.top = n] =
        [pc |-> pc, top |-> n, done |-> {}, prev |-> NoSummary, seen |-> NoTurn]
  BY DEF At
<1>. DEFINE v == [At(pc) EXCEPT !.top = n]
<1>3. v = [pc |-> pc, top |-> n, done |-> {}, prev |-> NoSummary, seen |-> NoTurn]
  BY <1>2
<1>. HIDE DEF v
<1>4. [v EXCEPT !.done = D] =
        [pc |-> pc, top |-> n, done |-> D, prev |-> NoSummary, seen |-> NoTurn]
  BY <1>3
<1>5. 0 \in 0..MaxTurns /\ NoTurn \in 0..MaxTurns /\ {} \in SUBSET Turns
  BY AIMemoryAssumption DEF NoTurn
<1>6. [At(pc) EXCEPT !.top = n, !.done = D] =
        [pc |-> pc, top |-> n, done |-> D, prev |-> NoSummary, seen |-> NoTurn]
  BY <1>4 DEF v
<1>. QED
  BY <1>1, <1>5, <1>6, AtType DEF WorkState

\* One that reads the summary keeps the messages.
LEMMA ReadSummaryMoves ==
    ASSUME NEW w \in WorkState, NEW pc \in Steps, NEW s \in Summary
    PROVE  [w EXCEPT !.pc = pc, !.prev = s] =
             [pc |-> pc, top |-> w.top, done |-> w.done, prev |-> s, seen |-> w.seen]
<1>1. PICK p \in Steps, m \in 0..MaxTurns, D \in SUBSET Turns, q \in Summary,
           k \in 0..MaxTurns :
        w = [pc |-> p, top |-> m, done |-> D, prev |-> q, seen |-> k]
  BY DEF WorkState
<1>. DEFINE v == [w EXCEPT !.pc = pc]
<1>2. v = [pc |-> pc, top |-> m, done |-> D, prev |-> q, seen |-> k]
  BY <1>1
<1>. HIDE DEF v
<1>3. [v EXCEPT !.prev = s] = [pc |-> pc, top |-> m, done |-> D, prev |-> s, seen |-> k]
  BY <1>2
<1>4. w.top = m /\ w.done = D /\ w.seen = k
  BY <1>1
<1>. QED
  BY <1>3, <1>4, Zenon DEF v

\* The end of a turn changes its state and nothing else.
LEMMA TurnEnds ==
    ASSUME turns \in Seq(Turn), NEW t \in 1..Latest, NEW s \in {"ok", "failed"},
           turns' = [turns EXCEPT ![t].state = s]
    PROVE  /\ turns' \in Seq(Turn) /\ Latest' = Latest
           /\ turns'[t] = [org |-> turns[t].org, state |-> s]
           /\ \A u \in 1..Latest : u # t => turns'[u] = turns[u]
<1>1. t \in 1..Len(turns) /\ turns[t] \in Turn
  BY DEF Latest
<1>2. [turns[t] EXCEPT !.state = s] = [org |-> turns[t].org, state |-> s]
  BY <1>1 DEF Turn
<1>3. [org |-> turns[t].org, state |-> s] \in Turn
  BY <1>1 DEF Turn
<1>4. turns' = [turns EXCEPT ![t] = [org |-> turns[t].org, state |-> s]]
  BY <1>2
<1>. DEFINE e == [org |-> turns[t].org, state |-> s]
<1>. HIDE DEF e
<1>5. turns' = [turns EXCEPT ![t] = e] /\ e \in Turn
  BY <1>3, <1>4 DEF e
<1>6. /\ turns' \in Seq(Turn) /\ Len(turns') = Len(turns) /\ turns'[t] = e
      /\ \A u \in 1..Len(turns) : u # t => turns'[u] = turns[u]
  BY <1>1, <1>5
<1>. QED
  BY <1>6 DEF Latest, e

\* Of the numbers after a up to b there are at most b - a.
LEMMA CountAfter ==
    ASSUME NEW a \in Nat, NEW b \in Nat, a <= b, NEW S \in SUBSET ((a + 1)..b)
    PROVE  Cardinality(S) \in Nat /\ Cardinality(S) <= b - a
<1>1. \A i, j \in Int : /\ IsFiniteSet(i..j)
                        /\ Cardinality(i..j) = IF i > j THEN 0 ELSE j - i + 1
  BY FS_Interval
<1>2. a + 1 \in Int /\ b \in Int
  OBVIOUS
<1>3. /\ IsFiniteSet((a + 1)..b)
      /\ Cardinality((a + 1)..b) = IF a + 1 > b THEN 0 ELSE b - (a + 1) + 1
  BY <1>1, <1>2
<1>. DEFINE I == (a + 1)..b
<1>. HIDE DEF I
<1>4. IsFiniteSet(S) /\ Cardinality(S) <= Cardinality(I)
  BY <1>3, FS_Subset, Zenon DEF I
<1>5. Cardinality(S) \in Nat
  BY <1>4, FS_CardinalityType
<1>6. Cardinality(I) = b - a
  BY <1>3 DEF I
<1>. QED
  BY <1>4, <1>5, <1>6

\* A draft is a summary whose text reaches its boundary.
LEMMA DraftReaches ==
    ASSUME NEW t \in Turns, NEW w \in WorkState, ReachesBoundary(w.prev), t <= w.top,
           turns[t].org \in Orgs, NEW d \in Drafts(t, w)
    PROVE  d \in Summary /\ ReachesBoundary(d)
<1>. DEFINE s == w.prev
            org == turns[t].org
<1>0. /\ s \in Summary /\ w.top \in Nat /\ w.top <= MaxTurns /\ MaxTurns \in Nat
      /\ t \in Nat \ {0} /\ t <= MaxTurns /\ s.until \in 0..MaxTurns
      /\ s.covers \subseteq Turns /\ Shown \in Nat \ {0}
  BY AIMemoryAssumption DEF WorkState, Summary, Turns
<1>1. CASE FullRefresh(w)
  <2>1. PICK kept \in SUBSET s.covers :
          d = [scope |-> org, until |-> t, covers |-> Rendered(w) \cup kept]
    BY <1>1, Zenon DEF Drafts
  <2>2. Rendered(w) \subseteq Turns
    BY DEF Rendered, Recent
  <2>3. d \in Summary
    BY <2>1, <2>2, <1>0 DEF Summary
  <2>4. ASSUME Recent(w) # {}
        PROVE  w.top \in Rendered(w)
    <3>1. w.top \in Recent(w)
      BY <2>4, <1>0 DEF Recent, Turns
    <3>. QED
      BY <3>1, <1>0 DEF Rendered
  <2>5. Recent(w) # {}
    <3>1. CASE s = NoSummary
      <4>1. s.until = 0
        BY <3>1 DEF NoSummary, NoTurn
      <4>2. t \in Recent(w)
        BY <4>1, <1>0 DEF Recent
      <4>. QED
        BY <4>2
    <3>2. CASE Cardinality(Recent(w) \cap w.done) >= RefreshEvery
      <4>1. Cardinality({}) = 0 /\ RefreshEvery \in Nat \ {0}
        BY FS_EmptySet, AIMemoryAssumption
      <4>2. SUFFICES ASSUME Recent(w) = {} PROVE FALSE
        OBVIOUS
      <4>3. Recent(w) \cap w.done = {}
        BY <4>2
      <4>4. 0 >= RefreshEvery
        BY <3>2, <4>1, <4>3
      <4>. QED
        BY <4>1, <4>4
    <3>. QED
      BY <1>1, <3>1, <3>2 DEF FullRefresh
  <2>6. w.top \in d.covers /\ w.top >= d.until
    BY <2>1, <2>4, <2>5, <1>0
  <2>. QED
    BY <2>3, <2>6 DEF ReachesBoundary
<1>2. CASE ~FullRefresh(w)
  <2>1. d = [s EXCEPT !.scope = org]
    BY <1>2 DEF Drafts
  <2>2. d = [scope |-> org, until |-> s.until, covers |-> s.covers]
    BY <2>1, <1>0 DEF Summary
  <2>. QED
    BY <2>2, <1>0 DEF Summary, ReachesBoundary
<1>. QED
  BY <1>1, <1>2

\* Written by the latest turn with the messages as they are, it keeps up.
LEMMA DraftKeepsUp ==
    ASSUME MemoryTypeOK, NEW t \in Turns, NEW w \in WorkState, t = Latest,
           w.top = t, w.done = Successful, EndsWhole(w.prev), NEW d \in Drafts(t, w)
    PROVE  /\ d.scope = turns[t].org /\ EndsWhole(d)
           /\ Cardinality({u \in Successful : u > d.until}) < RefreshEvery
<1>. DEFINE s == w.prev
            org == turns[t].org
            p == s.until
<1>0. /\ s \in Summary /\ MaxTurns \in Nat /\ t \in Nat \ {0} /\ t <= MaxTurns
      /\ p \in Nat /\ p <= MaxTurns
      /\ RefreshEvery \in Nat \ {0} /\ Shown \in Nat \ {0} /\ Successful \subseteq 1..t
      /\ s = [scope |-> s.scope, until |-> s.until, covers |-> s.covers]
  BY AIMemoryAssumption DEF WorkState, Summary, Turns, Successful
<1>3. ASSUME NEW n \in Nat, n >= t
      PROVE  Cardinality({u \in Successful : u > n}) < RefreshEvery
  <2>1. {u \in Successful : u > n} = {}
    <3>1. ASSUME NEW u \in Successful, u > n PROVE FALSE
      BY <3>1, <1>3, <1>0
    <3>. QED
      BY <3>1
  <2>2. Cardinality({u \in Successful : u > n}) = 0
    BY <2>1, FS_EmptySet, Zenon
  <2>. QED
    BY <2>2, <1>0
<1>1. CASE FullRefresh(w)
  <2>1. PICK kept \in SUBSET s.covers :
          d = [scope |-> org, until |-> t, covers |-> Rendered(w) \cup kept]
    BY <1>1, Zenon DEF Drafts
  <2>2. d.scope = org /\ d.until = t /\ Rendered(w) \subseteq d.covers
    BY <2>1
  <2>3. Cardinality({u \in Successful : u > d.until}) < RefreshEvery
    BY <2>2, <1>0, <1>3
  <2>4. ASSUME NEW u \in 1..t, u + Shown > t, u + RefreshEvery > t
        PROVE  u \in d.covers
    <3>1. u \in Turns /\ u <= w.top /\ u \in Nat
      BY <1>0 DEF Turns
    <3>2. p <= t => u > p
      <4>1. SUFFICES ASSUME p <= t, u <= p PROVE FALSE
        BY <3>1, <1>0
      <4>2. s # NoSummary
        BY <4>1, <3>1, <1>0 DEF NoSummary, NoTurn
      <4>3. Cardinality(Recent(w) \cap w.done) >= RefreshEvery
        BY <1>1, <4>2 DEF FullRefresh
      <4>4. Recent(w) \cap w.done \in SUBSET ((p + 1)..t)
        BY <4>1, <1>0 DEF Recent, Turns
      <4>5. /\ Cardinality(Recent(w) \cap w.done) \in Nat
            /\ Cardinality(Recent(w) \cap w.done) <= t - p
        BY <4>1, <4>4, <1>0, CountAfter
      <4>6. RefreshEvery <= t - p
        BY <4>3, <4>5, <1>0
      <4>. QED
        BY <4>1, <4>6, <2>4, <3>1, <1>0
    <3>3. u \in Rendered(w)
      BY <3>1, <3>2, <2>4, <1>0 DEF Rendered, Recent
    <3>. QED
      BY <2>2, <3>3
  <2>. QED
    BY <2>2, <2>3, <2>4 DEF EndsWhole
<1>2. CASE ~FullRefresh(w)
  <2>1. d = [s EXCEPT !.scope = org]
    BY <1>2 DEF Drafts
  <2>2. d = [scope |-> org, until |-> s.until, covers |-> s.covers]
    BY <2>1, <1>0
  <2>3. Cardinality({u \in Successful : u > d.until}) < RefreshEvery
    <3>1. CASE p <= t
      <4>1. {u \in Successful : u > d.until} = Recent(w) \cap w.done
        <5>1. ASSUME NEW u \in Successful
              PROVE  u > d.until <=> u \in Recent(w)
          BY <3>1, <2>2, <1>0 DEF Recent, Turns
        <5>. QED
          BY <5>1
      <4>2. /\ ~(Cardinality(Recent(w) \cap w.done) >= RefreshEvery)
            /\ Cardinality(Recent(w) \cap w.done) \in Nat
        <5>1. Recent(w) \cap w.done \in SUBSET ((p + 1)..t)
          BY <3>1, <1>0 DEF Recent, Turns
        <5>2. Cardinality(Recent(w) \cap w.done) \in Nat
          BY <3>1, <5>1, <1>0, CountAfter
        <5>. QED
          BY <5>2, <1>2 DEF FullRefresh
      <4>3. Cardinality(Recent(w) \cap w.done) < RefreshEvery
        BY <4>2, <1>0
      <4>. QED
        BY <4>1, <4>3
    <3>2. CASE p > t
      <4>1. d.until \in Nat /\ d.until >= t
        BY <3>2, <2>2, <1>0
      <4>. QED
        BY <4>1, <1>3
    <3>. QED
      BY <3>1, <3>2, <1>0
  <2>. QED
    BY <2>2, <2>3 DEF EndsWhole
<1>. QED
  BY <1>1, <1>2

-----------------------------------------------------------------------------
(* The writebacks: MemoryIInv is inductive.                                    *)

LEMMA MemoryInitial == MemoryInit => MemoryIInv
<1>. SUFFICES ASSUME MemoryInit PROVE MemoryIInv
  OBVIOUS
<1>1. "none" \in Steps /\ At("none") \in WorkState /\ At("none").pc = "none"
      /\ At("none").prev = NoSummary
  BY AtType DEF Steps
<1>2. MemoryTypeOK
  <2>1. turns \in Seq(Turn) /\ Latest <= MaxTurns
    BY AIMemoryAssumption DEF MemoryInit, Latest
  <2>2. work \in [Turns -> WorkState]
    BY <1>1 DEF MemoryInit
  <2>3. document \in [Turns -> {"none", "stored", "indexed"}] /\ summary \in Summary
    BY AtType DEF MemoryInit
  <2>4. fact \in 0..MaxTurns /\ memoryFaults \in 0..MaxMemoryFaults
    BY AIMemoryAssumption DEF MemoryInit, NoTurn
  <2>5. overlapped \in BOOLEAN
    BY DEF MemoryInit
  <2>. QED
    BY <2>1, <2>2, <2>3, <2>4, <2>5 DEF MemoryTypeOK
<1>3. \A t \in Turns : work[t].pc = "none" /\ work[t].prev = NoSummary
  BY <1>1 DEF MemoryInit
<1>4. CopiesReachBoundary
  BY <1>3, AtType DEF CopiesReachBoundary, MemoryInit
<1>5. Latest = 0 /\ Successful = {}
  <2>1. Latest = 0
    BY DEF MemoryInit, Latest
  <2>2. 1..0 = {}
    OBVIOUS
  <2>. QED
    BY <2>1, <2>2 DEF Successful
<1>6. WritebacksFollowTurns
  BY <1>3, <1>5 DEF WritebacksFollowTurns
<1>7. CaughtUp
  <2>1. {u \in Successful : u > summary.until} = {}
    BY <1>5
  <2>2. Cardinality({u \in Successful : u > summary.until}) = 0
    BY <2>1, FS_EmptySet, Zenon
  <2>. QED
    BY <2>2, <1>5, AIMemoryAssumption DEF CaughtUp
<1>8. LastOfBest(fact, Decided)
  <2>1. Decided = {}
    BY <1>5 DEF Decided
  <2>. QED
    BY <2>1 DEF LastOfBest, MemoryInit
<1>9. OneAfterTheOther
  BY <1>3, <1>7, <1>8, AtType DEF OneAfterTheOther, InOrder, Writing, MemoryInit
<1>. QED
  BY <1>2, <1>4, <1>6, <1>9 DEF MemoryIInv

\* What a step of a writeback does to the row and to the copies keeps the text
\* at the boundary or after it.
LEMMA StepKeepsText ==
    ASSUME MemoryIInv, NEW t \in Turns, NEW w \in WorkState,
           work' = [work EXCEPT ![t] = w], turns' = turns,
           work[t].pc # "none",
           w.pc \in {"readSummary", "writeSummary"} => t <= w.top,
           ReachesBoundary(w.prev), summary' \in Summary, ReachesBoundary(summary')
    PROVE  /\ CopiesReachBoundary' /\ WritebacksFollowTurns'
           /\ work' \in [Turns -> WorkState] /\ Latest' = Latest /\ Successful' = Successful
           /\ work'[t] = w /\ \A u \in Turns \ {t} : work'[u] = work[u]
<1>1. work \in [Turns -> WorkState]
  BY DEF MemoryIInv, MemoryTypeOK
<1>2. /\ work' \in [Turns -> WorkState]
      /\ work'[t] = w /\ \A u \in Turns \ {t} : work'[u] = work[u]
  BY <1>1
<1>3. Latest' = Latest /\ Successful' = Successful
  BY DEF Latest, Successful
<1>4. CopiesReachBoundary'
  BY <1>2 DEF MemoryIInv, CopiesReachBoundary, ReachesBoundary
<1>5. WritebacksFollowTurns'
  BY <1>2, <1>3 DEF MemoryIInv, WritebacksFollowTurns
<1>. QED
  BY <1>2, <1>3, <1>4, <1>5

\* Who writes is the latest, and leaves things in order.
LEMMA StepKeepsOrder ==
    ASSUME MemoryIInv, NEW t \in Turns, NEW w \in WorkState,
           work' = [work EXCEPT ![t] = w],
           UNCHANGED <<turns, overlapped, memoryFaults>>,
           work[t].pc # "none",
           w.pc \in Writing => work[t].pc \in Writing,
           fact' = fact \/ work[t].pc = "writeFact",
           InOrder =>
              /\ w.pc \in {"readSummary", "writeSummary"} => w.top = t /\ w.done = Successful
              /\ w.pc = "writeFact" => w.seen = fact' /\ Says[t] # "none"
              /\ EndsWhole(w.prev) /\ EndsWhole(summary')
              /\ (\A u \in Turns : work'[u].pc \notin BeforeSummary) => CaughtUp'
              /\ LastOfBest(fact', Decided')
    PROVE  OneAfterTheOther'
<1>. SUFFICES ASSUME ~overlapped', memoryFaults' = 0
              PROVE  InOrder'
  BY DEF OneAfterTheOther
<1>1. InOrder
  BY DEF MemoryIInv, OneAfterTheOther
<1>2. /\ work \in [Turns -> WorkState]
      /\ work'[t] = w /\ \A u \in Turns \ {t} : work'[u] = work[u]
      /\ Latest' = Latest /\ Successful' = Successful
  BY DEF MemoryIInv, MemoryTypeOK, Latest, Successful
<1>3. ASSUME NEW u \in Turns
      PROVE  /\ work'[u].pc \in Writing => u = Latest
             /\ work'[u].pc \in {"readSummary", "writeSummary"} =>
                   work'[u].top = u /\ work'[u].done = Successful
             /\ work'[u].pc = "writeFact" => work'[u].seen = fact' /\ Says[u] # "none"
             /\ EndsWhole(work'[u].prev)
  <2>1. CASE u = t
    BY <2>1, <1>1, <1>2 DEF InOrder
  <2>2. CASE u # t
    <3>1. work'[u] = work[u]
      BY <2>2, <1>2
    <3>2. work[u].pc = "writeFact" => fact' = fact
      BY <2>2, <1>1 DEF InOrder, Writing
    <3>. QED
      BY <3>1, <3>2, <1>1 DEF InOrder
  <2>. QED
    BY <2>1, <2>2
<1>. DEFINE Before == \A u \in Turns : work[u].pc \notin BeforeSummary
<1>4. EndsWhole(summary)' /\ (Before => CaughtUp)' /\ LastOfBest(fact, Decided)'
  <2>1. EndsWhole(summary)' <=> EndsWhole(summary')
    BY DEF EndsWhole
  <2>2. LastOfBest(fact, Decided)' <=> LastOfBest(fact', Decided')
    BY DEF LastOfBest
  <2>. QED
    BY <2>1, <2>2, <1>1
<1>5. \A u \in Turns : EndsWhole(work[u].prev)' <=> EndsWhole(work'[u].prev)
  BY DEF EndsWhole
<1>. QED
  BY <1>2, <1>3, <1>4, <1>5 DEF InOrder

\* A step that leaves the row alone and keeps before or behind the summary leaves
\* it caught up.
LEMMA StillCaughtUp ==
    ASSUME MemoryIInv, InOrder, NEW t \in Turns, NEW w \in WorkState,
           work' = [work EXCEPT ![t] = w], UNCHANGED <<turns, summary>>,
           w.pc \in BeforeSummary <=> work[t].pc \in BeforeSummary
    PROVE  (\A u \in Turns : work'[u].pc \notin BeforeSummary) => CaughtUp'
<1>1. SUFFICES ASSUME \A u \in Turns : work'[u].pc \notin BeforeSummary
               PROVE  CaughtUp'
  OBVIOUS
<1>2. /\ work \in [Turns -> WorkState]
      /\ work'[t] = w /\ \A u \in Turns \ {t} : work'[u] = work[u]
      /\ Successful' = Successful
  BY DEF MemoryIInv, MemoryTypeOK, Latest, Successful
<1>3. \A u \in Turns : work[u].pc \notin BeforeSummary
  BY <1>1, <1>2
<1>4. CaughtUp
  BY <1>3 DEF InOrder
<1>. QED
  BY <1>2, <1>4 DEF CaughtUp

\* One that keeps within the writes or outside of them decides no fact; nor does
\* one of a turn that says nothing.
LEMMA StillDecided ==
    ASSUME MemoryIInv, NEW t \in Turns, NEW w \in WorkState,
           work' = [work EXCEPT ![t] = w], turns' = turns,
           Says[t] = "none" \/ (w.pc \in Writing <=> work[t].pc \in Writing)
    PROVE  Decided' = Decided
<1>2. /\ work \in [Turns -> WorkState]
      /\ work'[t] = w /\ \A u \in Turns \ {t} : work'[u] = work[u]
      /\ Successful' = Successful /\ Successful \subseteq Turns
  BY AIMemoryAssumption DEF MemoryIInv, MemoryTypeOK, Latest, Successful, Turns
<1>3. ASSUME NEW u \in Successful
      PROVE  /\ Says[u] # "none" /\ work'[u].pc \notin Writing
                <=> Says[u] # "none" /\ work[u].pc \notin Writing
  BY <1>2
<1>. QED
  BY <1>2, <1>3 DEF Decided

\* Turns that begin and end.
LEMMA TurnStep ==
    ASSUME MemoryIInv,
           \/ TurnBegins
           \/ \E t \in Turns : TurnSucceeds(t) \/ TurnFails(t)
    PROVE  MemoryIInv'
<1>. USE AIMemoryAssumption
<1>1. /\ turns \in Seq(Turn) /\ Latest \in Nat /\ Latest <= MaxTurns
      /\ summary \in Summary /\ fact \in 0..MaxTurns
      /\ document \in [Turns -> {"none", "stored", "indexed"}]
      /\ work \in [Turns -> WorkState]
      /\ overlapped \in BOOLEAN /\ memoryFaults \in 0..MaxMemoryFaults
      /\ Successful \subseteq 1..Latest /\ 1..Latest \subseteq Turns
  BY DEF MemoryIInv, MemoryTypeOK, Latest, Successful, Turns
<1>2. /\ CopiesReachBoundary /\ WritebacksFollowTurns /\ OneAfterTheOther
  BY DEF MemoryIInv
<1>3. CASE TurnBegins
  <2>1. PICK org \in Orgs : turns' = Append(turns, [org |-> org, state |-> "running"])
    BY <1>3 DEF TurnBegins
  <2>2. /\ Latest < MaxTurns /\ \A t \in 1..Latest : turns[t].state # "running"
        /\ UNCHANGED <<summary, fact, document, work, memoryFaults>>
        /\ overlapped' = (overlapped \/ \E t \in Turns : work[t].pc \in Writing)
    BY <1>1, <1>3 DEF TurnBegins, Running
  <2>. DEFINE e == [org |-> org, state |-> "running"]
  <2>3. e \in Turn /\ e.state = "running"
    BY DEF Turn
  <2>. HIDE DEF e
  <2>4. turns' = Append(turns, e)
    BY <2>1 DEF e
  <2>5. /\ turns' \in Seq(Turn) /\ Latest' = Latest + 1 /\ turns'[Latest + 1] = e
        /\ \A t \in 1..Latest : turns'[t] = turns[t]
    BY <1>1, <2>3, <2>4 DEF Latest
  <2>6. Successful' = Successful
    <3>1. Successful' = {t \in 1..(Latest + 1) : turns'[t].state = "ok"}
      BY <2>5 DEF Successful
    <3>. QED
      BY <1>1, <2>3, <2>5, <3>1 DEF Successful
  <2>7. MemoryTypeOK'
    BY <1>1, <2>2, <2>5 DEF MemoryTypeOK
  <2>8. CopiesReachBoundary'
    BY <1>2, <2>2 DEF CopiesReachBoundary, ReachesBoundary
  <2>9. WritebacksFollowTurns'
    BY <1>1, <1>2, <2>2, <2>5, <2>6 DEF WritebacksFollowTurns
  <2>10. OneAfterTheOther'
    <3>. SUFFICES ASSUME ~overlapped', memoryFaults' = 0
                  PROVE  InOrder'
      BY DEF OneAfterTheOther
    <3>1. InOrder /\ \A t \in Turns : work[t].pc \notin Writing
      BY <1>2, <2>2 DEF OneAfterTheOther
    <3>2. Decided' = Decided
      BY <2>2, <2>6 DEF Decided
    <3>3. CaughtUp => CaughtUp'
      BY <1>1, <2>2, <2>5, <2>6 DEF CaughtUp
    <3>. QED
      BY <2>2, <2>6, <3>1, <3>2, <3>3 DEF InOrder, Writing, EndsWhole, LastOfBest
  <2>. QED
    BY <2>7, <2>8, <2>9, <2>10 DEF MemoryIInv
<1>4. ASSUME NEW t \in Turns, TurnSucceeds(t)
      PROVE  MemoryIInv'
  <2>. DEFINE w == At("readMessages")
  <2>1. /\ t \in 1..Latest /\ turns[t].state = "running"
        /\ turns' = [turns EXCEPT ![t].state = "ok"]
        /\ work' = [work EXCEPT ![t] = w]
        /\ UNCHANGED <<summary, fact, document, overlapped, memoryFaults>>
    BY <1>4 DEF TurnSucceeds, Running, Proceed
  <2>2. /\ turns' \in Seq(Turn) /\ Latest' = Latest
        /\ turns'[t] = [org |-> turns[t].org, state |-> "ok"]
        /\ \A u \in 1..Latest : u # t => turns'[u] = turns[u]
    BY <1>1, <2>1, TurnEnds
  <2>3. /\ w \in WorkState /\ w.pc = "readMessages" /\ ReachesBoundary(w.prev)
        /\ EndsWhole(w.prev)
    BY AtType DEF Steps
  <2>. HIDE DEF w
  <2>4. /\ work' \in [Turns -> WorkState] /\ work'[t] = w
        /\ \A u \in Turns \ {t} : work'[u] = work[u]
    BY <1>1, <2>1, <2>3
  <2>5. Successful' = Successful \cup {t} /\ t \notin Successful
    BY <1>1, <2>1, <2>2 DEF Successful
  <2>6. t = Latest /\ work[t].pc = "none"
    BY <1>2, <2>1, <2>5 DEF WritebacksFollowTurns
  <2>7. MemoryTypeOK'
    BY <1>1, <2>1, <2>2, <2>4 DEF MemoryTypeOK
  <2>8. CopiesReachBoundary'
    BY <1>2, <2>1, <2>3, <2>4 DEF CopiesReachBoundary, ReachesBoundary
  <2>9. WritebacksFollowTurns'
    <3>1. \A u \in 1..Latest : turns'[u].state = "running" => u = Latest
      BY <1>2, <2>2, <2>6 DEF WritebacksFollowTurns
    <3>2. ASSUME NEW u \in Turns
          PROVE  /\ work'[u].pc # "none" => u \in Successful'
                 /\ work'[u].pc \in {"readSummary", "writeSummary"} => u <= work'[u].top
      BY <1>2, <2>3, <2>4, <2>5 DEF WritebacksFollowTurns
    <3>. QED
      BY <2>2, <3>1, <3>2 DEF WritebacksFollowTurns
  <2>10. OneAfterTheOther'
    <3>. SUFFICES ASSUME ~overlapped', memoryFaults' = 0
                  PROVE  InOrder'
      BY DEF OneAfterTheOther
    <3>1. InOrder
      BY <1>2, <2>1 DEF OneAfterTheOther
    <3>2. \A u \in Turns : work[u].pc \notin Writing
      BY <2>6, <3>1 DEF InOrder, Writing
    <3>3. Decided' = Decided
      <4>1. "readMessages" \in Writing
        BY DEF Writing
      <4>2. Successful \subseteq Turns \ {t}
        BY <1>1, <2>5
      <4>3. Decided' = {u \in Successful \cup {t} : Says[u] # "none" /\ work'[u].pc \notin Writing}
        BY <2>5 DEF Decided
      <4>. QED
        BY <2>3, <2>4, <4>1, <4>2, <4>3 DEF Decided
    <3>4. work'[t].pc \in BeforeSummary
      BY <2>3, <2>4 DEF BeforeSummary
    <3>5. ASSUME NEW u \in Turns
          PROVE  /\ work'[u].pc \in Writing => u = Latest
                 /\ work'[u].pc \notin {"readSummary", "writeSummary", "writeFact"}
                 /\ EndsWhole(work'[u].prev)
      BY <2>3, <2>4, <2>6, <3>1, <3>2 DEF InOrder, Writing
    <3>6. EndsWhole(summary') /\ LastOfBest(fact', Decided')
      BY <2>1, <3>1, <3>3 DEF InOrder
    <3>. QED
      BY <2>2, <3>4, <3>5, <3>6 DEF InOrder, EndsWhole, LastOfBest
  <2>. QED
    BY <2>7, <2>8, <2>9, <2>10 DEF MemoryIInv
<1>5. ASSUME NEW t \in Turns, TurnFails(t)
      PROVE  MemoryIInv'
  <2>1. /\ t \in 1..Latest /\ turns[t].state = "running"
        /\ turns' = [turns EXCEPT ![t].state = "failed"]
        /\ UNCHANGED <<summary, fact, document, work, overlapped, memoryFaults>>
    BY <1>5 DEF TurnFails, Running
  <2>2. /\ turns' \in Seq(Turn) /\ Latest' = Latest
        /\ turns'[t] = [org |-> turns[t].org, state |-> "failed"]
        /\ \A u \in 1..Latest : u # t => turns'[u] = turns[u]
    BY <1>1, <2>1, TurnEnds
  <2>3. Successful' = Successful /\ \A u \in Successful : turns'[u] = turns[u]
    BY <1>1, <2>1, <2>2 DEF Successful
  <2>4. MemoryTypeOK'
    BY <1>1, <2>1, <2>2 DEF MemoryTypeOK
  <2>5. CopiesReachBoundary' /\ WritebacksFollowTurns'
    BY <1>2, <2>1, <2>2, <2>3
    DEF CopiesReachBoundary, ReachesBoundary, WritebacksFollowTurns
  <2>6. OneAfterTheOther'
    <3>1. Decided' = Decided
      BY <2>1, <2>3 DEF Decided
    <3>2. CaughtUp => CaughtUp'
      BY <2>1, <2>3 DEF CaughtUp
    <3>. QED
      BY <1>2, <2>1, <2>2, <2>3, <3>1, <3>2
      DEF OneAfterTheOther, InOrder, EndsWhole, LastOfBest
  <2>. QED
    BY <2>4, <2>5, <2>6 DEF MemoryIInv
<1>. QED
  BY <1>3, <1>4, <1>5

\* The steps of the writebacks.
LEMMA WritebackStep ==
    ASSUME MemoryIInv, NEW t \in Turns, Writeback(t) \/ BreakOff(t)
    PROVE  MemoryIInv'
<1>. USE AIMemoryAssumption
<1>1. /\ turns \in Seq(Turn) /\ Latest \in Nat /\ Latest <= MaxTurns
      /\ summary \in Summary /\ fact \in 0..MaxTurns
      /\ document \in [Turns -> {"none", "stored", "indexed"}]
      /\ work \in [Turns -> WorkState]
      /\ overlapped \in BOOLEAN /\ memoryFaults \in 0..MaxMemoryFaults
      /\ Successful \subseteq 1..Latest /\ 1..Latest \subseteq Turns
      /\ work[t] \in WorkState /\ t \in Nat \ {0} /\ t <= MaxTurns
  BY DEF MemoryIInv, MemoryTypeOK, Latest, Successful, Turns
<1>2. /\ ReachesBoundary(summary) /\ ReachesBoundary(work[t].prev)
      /\ work[t].pc # "none" => t \in Successful
      /\ work[t].pc \in {"readSummary", "writeSummary"} => t <= work[t].top
      /\ OneAfterTheOther
  BY DEF MemoryIInv, CopiesReachBoundary, WritebacksFollowTurns
<1>3. InOrder =>
        /\ work[t].pc \in Writing => t = Latest
        /\ work[t].pc \in {"readSummary", "writeSummary"} =>
              work[t].top = t /\ work[t].done = Successful
        /\ work[t].pc = "writeFact" => work[t].seen = fact /\ Says[t] # "none"
        /\ EndsWhole(work[t].prev) /\ EndsWhole(summary) /\ LastOfBest(fact, Decided)
  BY DEF InOrder
<1>4. \A u \in Successful : turns[u] \in Turn /\ turns[u].org \in Orgs
  <2>1. \A u \in 1..Len(turns) : turns[u] \in Turn
    BY <1>1
  <2>. QED
    BY <1>1, <2>1 DEF Latest, Turn
<1>5. ASSUME NEW w \in WorkState, work' = [work EXCEPT ![t] = w],
             UNCHANGED <<turns, overlapped>>,
             summary' \in Summary, fact' \in 0..MaxTurns,
             document' \in [Turns -> {"none", "stored", "indexed"}],
             memoryFaults' \in 0..MaxMemoryFaults
      PROVE  MemoryTypeOK'
  BY <1>5, <1>1 DEF MemoryTypeOK, Latest
<1>6. /\ "readMessages" \in Writing /\ "readSummary" \in Writing /\ "writeSummary" \in Writing
      /\ "readFact" \in Writing /\ "writeFact" \in Writing
      /\ "writeDocument" \notin Writing /\ "index" \notin Writing /\ "over" \notin Writing
      /\ Writing \subseteq Steps /\ {"writeDocument", "index", "over"} \subseteq Steps
      /\ BeforeSummary \subseteq Writing
      /\ BeforeSummary = {"readMessages", "readSummary", "writeSummary"}
  BY DEF Writing, Steps, BeforeSummary
<1>7. CASE ReadMessages(t)
  <2>. DEFINE w == [At("readSummary") EXCEPT !.top = Latest, !.done = Successful]
  <2>1. /\ work[t].pc = "readMessages" /\ work' = [work EXCEPT ![t] = w]
        /\ UNCHANGED <<turns, summary, fact, document, overlapped, memoryFaults>>
    BY <1>7 DEF ReadMessages
  <2>2. /\ "readSummary" \in Steps /\ Latest \in 0..MaxTurns /\ Successful \in SUBSET Turns
    BY <1>1, <1>6
  <2>3. /\ w \in WorkState
        /\ w = [pc |-> "readSummary", top |-> Latest, done |-> Successful,
                prev |-> NoSummary, seen |-> NoTurn]
    BY <2>2, ReadMoves
  <2>. HIDE DEF w
  <2>4. /\ w.pc = "readSummary" /\ w.top = Latest /\ w.done = Successful
        /\ ReachesBoundary(w.prev) /\ EndsWhole(w.prev)
    BY <2>3, AtType
  <2>5. MemoryTypeOK'
    BY <1>1, <1>5, <2>1, <2>3
  <2>6. t <= w.top
    BY <1>1, <1>2, <2>1, <2>4
  <2>7. CopiesReachBoundary' /\ WritebacksFollowTurns'
    BY <1>1, <1>2, <2>1, <2>3, <2>4, <2>6, StepKeepsText
  <2>8. Decided' = Decided
    BY <1>6, <2>1, <2>3, <2>4, StillDecided
  <2>9. InOrder => ((\A u \in Turns : work'[u].pc \notin BeforeSummary) => CaughtUp')
    BY <1>6, <2>1, <2>3, <2>4, StillCaughtUp
  <2>10. OneAfterTheOther'
    BY <1>3, <1>6, <2>1, <2>3, <2>4, <2>8, <2>9, StepKeepsOrder
  <2>. QED
    BY <2>5, <2>7, <2>10 DEF MemoryIInv
<1>8. CASE ReadSummary(t)
  <2>. DEFINE prev == IF summary.scope = turns[t].org THEN summary ELSE NoSummary
              w == [work[t] EXCEPT !.pc = "writeSummary", !.prev = prev]
  <2>1. /\ work[t].pc = "readSummary" /\ work' = [work EXCEPT ![t] = w]
        /\ UNCHANGED <<turns, summary, fact, document, overlapped, memoryFaults>>
    BY <1>8 DEF ReadSummary
  <2>2. /\ prev \in Summary /\ ReachesBoundary(prev)
        /\ EndsWhole(summary) => EndsWhole(prev)
    BY <1>1, <1>2, AtType
  <2>. HIDE DEF prev
  <2>3. w = [pc |-> "writeSummary", top |-> work[t].top, done |-> work[t].done,
             prev |-> prev, seen |-> work[t].seen]
    BY <1>1, <1>6, <2>2, ReadSummaryMoves
  <2>. HIDE DEF w
  <2>4. /\ w \in WorkState /\ w.pc = "writeSummary" /\ w.top = work[t].top
        /\ w.done = work[t].done /\ w.prev = prev
    BY <1>1, <1>6, <2>2, <2>3 DEF WorkState
  <2>5. MemoryTypeOK'
    BY <1>1, <1>5, <2>1, <2>4
  <2>6. CopiesReachBoundary' /\ WritebacksFollowTurns'
    BY <1>1, <1>2, <2>1, <2>2, <2>4, StepKeepsText
  <2>7. Decided' = Decided
    BY <1>6, <2>1, <2>4, StillDecided
  <2>8. InOrder => ((\A u \in Turns : work'[u].pc \notin BeforeSummary) => CaughtUp')
    BY <1>6, <2>1, <2>4, StillCaughtUp
  <2>9. OneAfterTheOther'
    BY <1>3, <1>6, <2>1, <2>2, <2>4, <2>7, <2>8, StepKeepsOrder
  <2>. QED
    BY <2>5, <2>6, <2>9 DEF MemoryIInv
<1>9. CASE WriteSummary(t)
  <2>. DEFINE w == At("readFact")
  <2>1. /\ work[t].pc = "writeSummary" /\ work' = [work EXCEPT ![t] = w]
        /\ summary' \in Drafts(t, work[t])
        /\ UNCHANGED <<turns, fact, document, overlapped, memoryFaults>>
    BY <1>9 DEF WriteSummary, Proceed
  <2>2. w \in WorkState /\ w.pc = "readFact" /\ ReachesBoundary(w.prev) /\ EndsWhole(w.prev)
    BY <1>6, AtType
  <2>. HIDE DEF w
  <2>3. summary' \in Summary /\ ReachesBoundary(summary')
    BY <1>1, <1>2, <1>4, <2>1, DraftReaches
  <2>4. MemoryTypeOK'
    BY <1>1, <1>5, <2>1, <2>2, <2>3
  <2>5. CopiesReachBoundary' /\ WritebacksFollowTurns' /\ Successful' = Successful
    BY <2>1, <2>2, <2>3, StepKeepsText
  <2>6. Decided' = Decided
    BY <1>6, <2>1, <2>2, StillDecided
  <2>7. InOrder => EndsWhole(summary') /\ CaughtUp'
    <3>. SUFFICES ASSUME InOrder PROVE EndsWhole(summary') /\ CaughtUp'
      OBVIOUS
    <3>1. t = Latest /\ work[t].top = t /\ work[t].done = Successful /\ EndsWhole(work[t].prev)
      BY <1>3, <1>6, <2>1
    <3>2. /\ summary'.scope = turns[t].org /\ EndsWhole(summary')
          /\ Cardinality({u \in Successful : u > summary'.until}) < RefreshEvery
      BY <1>1, <2>1, <3>1, DraftKeepsUp DEF MemoryIInv
    <3>3. ASSUME NEW v \in Successful, \A u \in Successful : u <= v
          PROVE  v = t
      BY <1>1, <1>2, <2>1, <3>1, <3>3
    <3>4. Successful' = Successful /\ turns' = turns
      BY <2>1, <2>5
    <3>. QED
      BY <3>2, <3>3, <3>4 DEF CaughtUp
  <2>8. OneAfterTheOther'
    BY <1>3, <1>6, <2>1, <2>2, <2>6, <2>7, StepKeepsOrder
  <2>. QED
    BY <2>4, <2>5, <2>8 DEF MemoryIInv
<1>10. CASE EmptyDraft(t) \/ BreakOff(t)
  <2>1. PICK pc \in {"readFact", "over"} : work' = [work EXCEPT ![t] = At(pc)]
    BY <1>10 DEF EmptyDraft, BreakOff, Proceed
  <2>2. /\ work[t].pc # "none"
        /\ memoryFaults < MaxMemoryFaults /\ memoryFaults' = memoryFaults + 1
        /\ UNCHANGED <<turns, summary, fact, document, overlapped>>
    BY <1>10 DEF EmptyDraft, BreakOff
  <2>3. At(pc) \in WorkState /\ At(pc).pc = pc /\ ReachesBoundary(At(pc).prev)
    BY <1>6, AtType
  <2>4. memoryFaults' \in 0..MaxMemoryFaults /\ memoryFaults' # 0
    BY <2>2, <1>1
  <2>5. MemoryTypeOK'
    BY <1>1, <1>5, <2>1, <2>2, <2>3, <2>4
  <2>6. CopiesReachBoundary' /\ WritebacksFollowTurns'
    BY <1>1, <1>2, <2>1, <2>2, <2>3, StepKeepsText
  <2>7. OneAfterTheOther'
    BY <2>4 DEF OneAfterTheOther
  <2>. QED
    BY <2>5, <2>6, <2>7 DEF MemoryIInv
<1>11. CASE NoFact(t)
  <2>. DEFINE w == At("writeDocument")
  <2>1. /\ work[t].pc = "readFact" /\ Says[t] = "none" /\ work' = [work EXCEPT ![t] = w]
        /\ UNCHANGED <<turns, summary, fact, document, overlapped, memoryFaults>>
    BY <1>11 DEF NoFact, Proceed
  <2>2. /\ w \in WorkState /\ w.pc = "writeDocument" /\ ReachesBoundary(w.prev)
        /\ EndsWhole(w.prev)
    BY <1>6, AtType
  <2>. HIDE DEF w
  <2>3. MemoryTypeOK'
    BY <1>1, <1>5, <2>1, <2>2
  <2>4. CopiesReachBoundary' /\ WritebacksFollowTurns'
    BY <1>1, <1>2, <2>1, <2>2, StepKeepsText
  <2>5. Decided' = Decided
    BY <2>1, <2>2, StillDecided
  <2>6. InOrder => ((\A u \in Turns : work'[u].pc \notin BeforeSummary) => CaughtUp')
    BY <1>6, <2>1, <2>2, StillCaughtUp
  <2>7. OneAfterTheOther'
    BY <1>3, <1>6, <2>1, <2>2, <2>5, <2>6, StepKeepsOrder
  <2>. QED
    BY <2>3, <2>4, <2>7 DEF MemoryIInv
<1>12. CASE ReadFact(t)
  <2>. DEFINE w == [At("writeFact") EXCEPT !.seen = fact]
  <2>1. /\ work[t].pc = "readFact" /\ Says[t] # "none" /\ work' = [work EXCEPT ![t] = w]
        /\ UNCHANGED <<turns, summary, fact, document, overlapped, memoryFaults>>
    BY <1>12 DEF ReadFact
  <2>2. /\ w \in WorkState
        /\ w = [pc |-> "writeFact", top |-> 0, done |-> {}, prev |-> NoSummary, seen |-> fact]
    BY <1>1, <1>6, ReadMoves
  <2>. HIDE DEF w
  <2>3. w.pc = "writeFact" /\ w.seen = fact /\ ReachesBoundary(w.prev) /\ EndsWhole(w.prev)
    BY <2>2, AtType
  <2>4. MemoryTypeOK'
    BY <1>1, <1>5, <2>1, <2>2
  <2>5. CopiesReachBoundary' /\ WritebacksFollowTurns'
    BY <1>1, <1>2, <2>1, <2>2, <2>3, StepKeepsText
  <2>6. Decided' = Decided
    BY <1>6, <2>1, <2>2, <2>3, StillDecided
  <2>7. InOrder => ((\A u \in Turns : work'[u].pc \notin BeforeSummary) => CaughtUp')
    BY <1>6, <2>1, <2>2, <2>3, StillCaughtUp
  <2>8. OneAfterTheOther'
    BY <1>3, <1>6, <2>1, <2>2, <2>3, <2>6, <2>7, StepKeepsOrder
  <2>. QED
    BY <2>4, <2>5, <2>8 DEF MemoryIInv
<1>13. CASE WriteFact(t)
  <2>. DEFINE w == At("writeDocument")
  <2>1. /\ work[t].pc = "writeFact" /\ work' = [work EXCEPT ![t] = w]
        /\ fact' = IF ShouldOverrideFact(work[t].seen, t) THEN t ELSE fact
        /\ UNCHANGED <<turns, summary, document, overlapped, memoryFaults>>
    BY <1>13 DEF WriteFact, Proceed
  <2>2. /\ w \in WorkState /\ w.pc = "writeDocument" /\ ReachesBoundary(w.prev)
        /\ EndsWhole(w.prev)
    BY <1>6, AtType
  <2>. HIDE DEF w
  <2>3. fact' \in 0..MaxTurns
    BY <2>1, <1>1
  <2>4. MemoryTypeOK'
    BY <1>1, <1>5, <2>1, <2>2, <2>3
  <2>5. /\ CopiesReachBoundary' /\ WritebacksFollowTurns' /\ Successful' = Successful
        /\ work'[t] = w /\ \A u \in Turns \ {t} : work'[u] = work[u]
    BY <1>1, <1>2, <2>1, <2>2, StepKeepsText
  <2>6. InOrder => ((\A u \in Turns : work'[u].pc \notin BeforeSummary) => CaughtUp')
    BY <1>6, <2>1, <2>2, StillCaughtUp
  <2>7. ASSUME InOrder PROVE LastOfBest(fact', Decided')
    <3>1. /\ t = Latest /\ work[t].seen = fact /\ LastOfBest(fact, Decided)
          /\ t \in Successful /\ Says[t] # "none"
      BY <1>2, <1>3, <1>6, <2>1, <2>7
    <3>2. Decided' = Decided \cup {t}
      <4>1. \A u \in Successful : u \in Turns
        BY <1>1
      <4>. QED
        BY <1>6, <2>1, <2>2, <2>5, <3>1, <4>1 DEF Decided
    <3>3. Decided \subseteq Successful \ {t}
      BY <1>6, <2>1 DEF Decided
    <3>4. \A u \in Decided : u \in 1..(t - 1) /\ u # NoTurn
      BY <1>1, <3>1, <3>3 DEF NoTurn
    <3>5. \A u \in 1..MaxTurns : Priority(Says[u]) \in Nat
      BY DEF Priority
    <3>6. fact' = IF fact = NoTurn \/ Priority(Says[t]) >= Priority(Says[fact])
                  THEN t ELSE fact
      BY <2>1, <3>1 DEF ShouldOverrideFact
    <3>7. CASE Decided = {}
      BY <3>1, <3>2, <3>5, <3>6, <3>7, <1>1 DEF LastOfBest
    <3>8. CASE Decided # {}
      <4>1. /\ fact \in Decided /\ fact \in 1..(t - 1) /\ fact # NoTurn
            /\ \A u \in Decided : /\ Priority(Says[fact]) >= Priority(Says[u])
                                  /\ u > fact => Priority(Says[fact]) > Priority(Says[u])
        BY <3>1, <3>4, <3>8 DEF LastOfBest
      <4>. DEFINE P(u) == Priority(Says[u])
      <4>2. /\ P(t) \in Nat /\ P(fact) \in Nat /\ \A u \in Decided : P(u) \in Nat /\ u < t
        BY <1>1, <3>4, <3>5, <4>1
      <4>3. CASE P(t) >= P(fact)
        <5>1. fact' = t
          BY <3>6, <4>3
        <5>2. ASSUME NEW u \in Decided \cup {t}
              PROVE  P(t) >= P(u) /\ ~(u > t)
          BY <1>1, <4>1, <4>2, <4>3
        <5>. QED
          BY <3>2, <5>1, <5>2 DEF LastOfBest
      <4>4. CASE ~(P(t) >= P(fact))
        BY <1>1, <3>2, <3>6, <4>1, <4>2, <4>4 DEF LastOfBest
      <4>. QED
        BY <4>3, <4>4
    <3>. QED
      BY <3>7, <3>8
  <2>8. OneAfterTheOther'
    BY <1>3, <1>6, <2>1, <2>2, <2>6, <2>7, StepKeepsOrder
  <2>. QED
    BY <2>4, <2>5, <2>8 DEF MemoryIInv
<1>14. CASE WriteDocument(t) \/ IndexDocument(t)
  <2>1. PICK pc \in {"index", "over"} : work' = [work EXCEPT ![t] = At(pc)]
    BY <1>14 DEF WriteDocument, IndexDocument, Proceed
  <2>2. /\ work[t].pc \in {"writeDocument", "index"}
        /\ UNCHANGED <<turns, summary, fact, overlapped, memoryFaults>>
        /\ document' \in {document, [document EXCEPT ![t] = "stored"],
                          [document EXCEPT ![t] = "indexed"]}
    BY <1>14 DEF WriteDocument, IndexDocument
  <2>. DEFINE w == At(pc)
  <2>3. w \in WorkState /\ w.pc = pc /\ ReachesBoundary(w.prev) /\ EndsWhole(w.prev)
    BY <1>6, AtType
  <2>. HIDE DEF w
  <2>4. work' = [work EXCEPT ![t] = w] /\ w.pc \notin Writing /\ work[t].pc \notin Writing
    BY <1>6, <2>1, <2>2, <2>3 DEF w
  <2>5. document' \in [Turns -> {"none", "stored", "indexed"}]
    BY <2>2, <1>1
  <2>6. MemoryTypeOK'
    BY <1>1, <1>5, <2>2, <2>3, <2>4, <2>5
  <2>7. CopiesReachBoundary' /\ WritebacksFollowTurns'
    BY <1>1, <1>2, <2>1, <2>2, <2>3, <2>4, StepKeepsText
  <2>8. Decided' = Decided
    BY <2>2, <2>3, <2>4, StillDecided
  <2>9. InOrder => ((\A u \in Turns : work'[u].pc \notin BeforeSummary) => CaughtUp')
    BY <1>6, <2>2, <2>3, <2>4, StillCaughtUp
  <2>10. OneAfterTheOther'
    BY <1>3, <1>6, <2>1, <2>2, <2>3, <2>4, <2>8, <2>9, StepKeepsOrder
  <2>. QED
    BY <2>6, <2>7, <2>10 DEF MemoryIInv
<1>. QED
  BY <1>7, <1>8, <1>9, <1>10, <1>11, <1>12, <1>13, <1>14 DEF Writeback

LEMMA MemoryStep == MemoryIInv /\ [MemoryNext]_memoryVars => MemoryIInv'
<1>. SUFFICES ASSUME MemoryIInv, [MemoryNext]_memoryVars PROVE MemoryIInv'
  OBVIOUS
<1>1. CASE UNCHANGED memoryVars
  BY <1>1 DEF memoryVars, MemoryIInv, MemoryTypeOK, CopiesReachBoundary, ReachesBoundary,
     WritebacksFollowTurns, OneAfterTheOther, InOrder, CaughtUp, Decided, LastOfBest,
     EndsWhole, Latest, Successful
<1>. QED
  BY <1>1, TurnStep, WritebackStep DEF MemoryNext

-----------------------------------------------------------------------------
(* Theorems about AIMemory.                                                    *)

LEMMA MemoryInductive == MemorySpec => []MemoryIInv
BY MemoryInitial, MemoryStep, PTL DEF MemorySpec

\* Type correctness of the memory of a conversation.
THEOREM MemoryTypeCorrect == MemorySpec => []MemoryTypeOK
<1>1. MemoryIInv => MemoryTypeOK
  BY DEF MemoryIInv
<1>. QED
  BY <1>1, MemoryInductive, PTL

\* However many turns the conversation has, however their writebacks overlap and
\* wherever they break off, no boundary is stored beyond the text it is stored with.
THEOREM TextKeepsWithBoundary == MemorySpec => []TextReachesBoundary
<1>1. MemoryIInv => TextReachesBoundary
  BY DEF MemoryIInv, CopiesReachBoundary, ReachesBoundary, TextReachesBoundary
<1>. QED
  BY <1>1, MemoryInductive, PTL

\* What writebacks that ran one after the other and unbroken leave.
LEMMA LeftInOrder ==
    MemoryIInv /\ Undisturbed => CaughtUp /\ EndsWhole(summary) /\ LastOfBest(fact, Decided)
                                   /\ \A t \in Turns : work[t].pc \notin Writing
<1>. SUFFICES ASSUME MemoryIInv, Undisturbed
              PROVE  /\ CaughtUp /\ EndsWhole(summary) /\ LastOfBest(fact, Decided)
                     /\ \A t \in Turns : work[t].pc \notin Writing
  OBVIOUS
<1>1. InOrder /\ \A t \in Turns : work[t].pc \notin Writing
  BY DEF MemoryIInv, OneAfterTheOther, Undisturbed, Quiet
<1>2. BeforeSummary \subseteq Writing
  BY DEF BeforeSummary, Writing
<1>. QED
  BY <1>1, <1>2 DEF InOrder

\* Writebacks that run one after the other leave the summary of the last
\* organisation less than one refresh behind, for every interval and every length.
THEOREM SummaryKeepsUp == MemorySpec => []BoundaryKeepsUp
<1>1. MemoryIInv => BoundaryKeepsUp
  BY LeftInOrder DEF BoundaryKeepsUp, CaughtUp
<1>. QED
  BY <1>1, MemoryInductive, PTL

\* And the fact they leave is the latest of those with the highest priority.
THEOREM FactsAreTheBest == MemorySpec => []FactIsLatestOfBest
<1>1. ASSUME MemoryIInv, Undisturbed
      PROVE  LastOfBest(fact, {t \in Successful : Says[t] # "none"})
  <2>1. LastOfBest(fact, Decided) /\ \A t \in Turns : work[t].pc \notin Writing
    BY <1>1, LeftInOrder
  <2>2. Successful \subseteq Turns
    BY <1>1, AIMemoryAssumption DEF MemoryIInv, MemoryTypeOK, Latest, Successful, Turns
  <2>3. Decided = {t \in Successful : Says[t] # "none"}
    BY <2>1, <2>2 DEF Decided
  <2>. QED
    BY <2>1, <2>3
<1>2. MemoryIInv => FactIsLatestOfBest
  BY <1>1 DEF FactIsLatestOfBest
<1>. QED
  BY <1>2, MemoryInductive, PTL
=============================================================================
