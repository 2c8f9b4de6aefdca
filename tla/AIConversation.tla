----------------------------- MODULE AIConversation -----------------------------
(* Streaming answers of the AI assistant.  A request claims its conversation   *)
(* under a row lock, lets the runtime emit events into the SSE stream and into *)
(* the assistant message, and releases the conversation in finishStream.       *)
(*   src/internal/service/system/aiSvc.go, aiSink.go, aiProjector.go           *)
(*   src/internal/repository/system/aiRepo.go                                  *)
(*   src/internal/infrastructure/ai/eino/runtime.go                            *)
EXTENDS Naturals

CONSTANTS Conversations,  \* rows of ai_conversations, all of one owner
          Requests,       \* stream requests; each stands for its two messages too
          Target,         \* request -> the conversation it streams
          MaxFaults       \* bound: faults of each kind

\* A statement that fails; principal, tools, context or plan that cannot be
\* built; a model or tool that fails; a client that leaves; a process that dies.
FaultKinds == {"db", "setup", "model", "client", "crash"}

ASSUME AIConversationAssumption ==
    /\ Target \in [Requests -> Conversations]
    /\ MaxFaults \in [FaultKinds -> Nat]

VARIABLES conversation,  \* ai_conversations: is the row there, is_generating
          question,      \* request -> is the row of its user message there
          answer,        \* request -> row of its assistant message
          stream,        \* request -> pc, the message in memory, writer, error
          cut,           \* requests whose conversation was deleted under them
          faults         \* kind -> faults so far

vars == <<conversation, question, answer, stream, cut, faults>>

Rows == {"none", "live", "deleted"}
Statuses == {"loading", "success", "stopped", "error"}
Traces == {"none", "running", "finished"}
PCs == {"idle", "checked", "begun", "opening", "working", "tool", "closing",
        "finishing", "stopping", "reporting", "reported", "over"}
\* From the claim of the conversation to its release.
Streaming == {"begun", "opening", "working", "tool", "closing", "finishing"}
Reporting == {"reporting", "reported"}
Alive == PCs \ {"idle", "over"}

Message == [status : Statuses, trace : Traces]
Fresh == [status |-> "loading", trace |-> "none"]

TypeOK ==
    /\ conversation \in [Conversations -> [row : Rows, generating : BOOLEAN]]
    /\ question \in [Requests -> Rows]
    /\ answer \in [Requests -> [row : Rows, msg : Message]]
    /\ stream \in [Requests -> [pc : PCs, msg : Message, started : BOOLEAN, gone : BOOLEAN,
                                error : {"none", "cancelled", "failed"}]]
    /\ cut \subseteq Requests
    /\ faults \in [FaultKinds -> Nat]

Init ==
    /\ conversation = [c \in Conversations |-> [row |-> "none", generating |-> FALSE]]
    /\ question = [r \in Requests |-> "none"]
    /\ answer = [r \in Requests |-> [row |-> "none", msg |-> Fresh]]
    /\ stream = [r \in Requests |-> [pc |-> "idle", msg |-> Fresh, started |-> FALSE,
                                     gone |-> FALSE, error |-> "none"]]
    /\ cut = {}
    /\ faults = [k \in FaultKinds |-> 0]

Fault(k) == /\ faults[k] < MaxFaults[k]
            /\ faults' = [faults EXCEPT ![k] = @ + 1]

Go(r, pc) == stream' = [stream EXCEPT ![r].pc = pc]

Fails(r, error) == stream' = [stream EXCEPT ![r].pc = "finishing", ![r].error = error]

-----------------------------------------------------------------------------
(* Requests on the rows.                                                       *)

CreateConversation(c) ==
    /\ conversation[c].row = "none"
    /\ conversation' = [conversation EXCEPT ![c].row = "live"]
    /\ UNCHANGED <<question, answer, stream, cut, faults>>

\* Faulty: the messages stay.
DeleteConversation_RowOnly(c) ==
    /\ conversation[c].row = "live"
    /\ conversation' = [conversation EXCEPT ![c].row = "deleted"]
    /\ cut' = cut \cup {r \in Requests : Target[r] = c /\ stream[r].pc \in Alive \ {"checked"}}
    /\ UNCHANGED <<question, answer, stream, faults>>

\* Both messages and the conversation are soft-deleted in one transaction; a
\* stream that is running is not asked.
DeleteConversation(c) ==
    LET mine == {r \in Requests : Target[r] = c}
    IN  /\ conversation[c].row = "live"
        /\ conversation' = [conversation EXCEPT ![c].row = "deleted"]
        /\ question' = [r \in Requests |-> IF r \in mine /\ question[r] = "live"
                                           THEN "deleted" ELSE question[r]]
        /\ answer' = [r \in Requests |-> IF r \in mine /\ answer[r].row = "live"
                                         THEN [answer[r] EXCEPT !.row = "deleted"]
                                         ELSE answer[r]]
        /\ cut' = cut \cup {r \in mine : stream[r].pc \in Alive \ {"checked"}}
        /\ UNCHANGED <<stream, faults>>

\* The first look at the conversation, outside any transaction.
CheckConversation(r) ==
    /\ stream[r].pc = "idle"
    /\ conversation[Target[r]] = [row |-> "live", generating |-> FALSE]
    /\ Go(r, "checked")
    /\ UNCHANGED <<conversation, question, answer, cut, faults>>

\* Faulty: the locked row is read for its owner only.
Claimable_Busy(c) == conversation[c].row = "live"

\* persistStreamStart sees the locked row again; the deferred rollback undoes
\* what a failed statement leaves.
Claimable(c) == conversation[c] = [row |-> "live", generating |-> FALSE]

Claim(r) ==
    /\ Claimable(Target[r])
    /\ conversation' = [conversation EXCEPT ![Target[r]].generating = TRUE]
    /\ question' = [question EXCEPT ![r] = "live"]
    /\ answer' = [answer EXCEPT ![r] = [row |-> "live", msg |-> Fresh]]
    /\ Go(r, "begun")
    /\ UNCHANGED faults

PersistStreamStart(r) ==
    /\ stream[r].pc = "checked"
    /\ UNCHANGED cut
    /\ \/ /\ ~stream[r].gone
          /\ Claim(r)
       \/ /\ \/ ~Claimable(Target[r]) /\ UNCHANGED faults
             \/ stream[r].gone /\ UNCHANGED faults
             \/ Fault("db")
          /\ Go(r, "over")
          /\ UNCHANGED <<conversation, question, answer>>

\* buildAIToolPrincipal, filterVisibleAITools, contextAssembler.Build and
\* buildAIToolExecutionPlan: an error of one of them returns past finishStream.
PrepareRun(r) ==
    /\ stream[r].pc = "begun"
    /\ \/ Go(r, "opening") /\ UNCHANGED faults
       \/ Go(r, "over") /\ Fault("setup")
    /\ UNCHANGED <<conversation, question, answer, cut>>

-----------------------------------------------------------------------------
(* The sink: write to the client, fold into the message, perhaps store it.     *)

\* Save: a row that is gone for the UPDATE is inserted again.
Stored(r, msg) == answer' = [answer EXCEPT ![r] = [row |-> "live", msg |-> msg]]

Broken(s, next, error) ==
    IF s.pc \in Reporting THEN [s EXCEPT !.pc = next]
                          ELSE [s EXCEPT !.pc = "finishing", !.error = error]

\* aiStreamSink.Emit of an event that turns the message into msg; an error ends
\* the runtime, and in finishStream it is dropped.
Emit(r, msg, save, next) ==
    /\ UNCHANGED <<conversation, question, cut>>
    /\ \/ /\ stream[r].gone
          /\ stream' = [stream EXCEPT ![r] = Broken(@, next, "failed")]
          /\ UNCHANGED <<answer, faults>>
       \/ /\ stream' = [stream EXCEPT ![r].pc = next, ![r].msg = msg, ![r].started = TRUE]
          /\ IF save THEN ~stream[r].gone /\ Stored(r, msg) ELSE UNCHANGED answer
          /\ UNCHANGED faults
       \/ /\ save
          /\ \E error \in {"cancelled", "failed"} :
                /\ IF error = "cancelled" THEN stream[r].gone /\ UNCHANGED faults
                                          ELSE Fault("db")
                /\ stream' = [stream EXCEPT ![r] =
                        Broken([@ EXCEPT !.msg = msg, !.started = TRUE], next, error)]
          /\ UNCHANGED answer

Memory(r) == stream[r].msg

ConversationStarted(r) ==
    /\ stream[r].pc = "opening"
    /\ Emit(r, Memory(r), FALSE, "working")

\* The time since the last store decides whether a token is stored.
AssistantToken(r) ==
    /\ stream[r].pc = "working"
    /\ \E due \in BOOLEAN :
          Emit(r, [Memory(r) EXCEPT !.status = "loading"], due, "working")

ToolCallStarted(r) ==
    /\ stream[r].pc = "working"
    /\ Memory(r).trace # "finished"
    /\ Emit(r, [Memory(r) EXCEPT !.trace = "running"], TRUE, "tool")

ToolCallFinished(r) ==
    /\ stream[r].pc = "tool"
    /\ Emit(r, [Memory(r) EXCEPT !.trace = "finished"], TRUE, "working")

MessageCompleted(r) ==
    /\ stream[r].pc = "working"
    /\ Emit(r, [Memory(r) EXCEPT !.status = "success"], TRUE, "closing")

Done(r) ==
    /\ stream[r].pc = "closing"
    /\ Emit(r, Memory(r), TRUE, "finishing")

\* The model stream breaks, or a tool error ends the run, or the context of a
\* client that left stops it.
RuntimeFails(r) ==
    /\ stream[r].pc = "working"
    /\ \/ Fault("model") /\ Fails(r, "failed")
       \/ stream[r].gone /\ Fails(r, "cancelled") /\ UNCHANGED faults
    /\ UNCHANGED <<conversation, question, answer, cut>>

-----------------------------------------------------------------------------
(* finishStream.                                                               *)

AfterRelease(r) ==
    CASE stream[r].error = "none" \/ ~stream[r].started -> "over"
      [] stream[r].error = "cancelled" /\ stream[r].started -> "stopping"
      [] stream[r].error = "failed" /\ stream[r].started -> "reporting"

\* Faulty: a run that fails before its first event returns without the release.
FinishStream_Unstarted(r) ==
    /\ stream[r].pc = "finishing"
    /\ conversation' = [conversation EXCEPT ![Target[r]] =
          IF stream[r].started THEN [row |-> "live", generating |-> FALSE] ELSE @]
    /\ Go(r, AfterRelease(r))
    /\ UNCHANGED <<question, answer, cut, faults>>

\* UpdateConversation saves the struct read at the claim, whatever the row is now.
FinishStream(r) ==
    /\ stream[r].pc = "finishing"
    /\ \/ /\ conversation' = [conversation EXCEPT ![Target[r]] =
                                 [row |-> "live", generating |-> FALSE]]
          /\ UNCHANGED faults
       \/ /\ Fault("db")
          /\ UNCHANGED conversation
    /\ Go(r, AfterRelease(r))
    /\ UNCHANGED <<question, answer, cut>>

\* Faulty: setStopped alone.
StopMessage_MemoryOnly(r) ==
    /\ stream[r].pc = "stopping"
    /\ stream' = [stream EXCEPT ![r].pc = "over", ![r].msg.status = "stopped"]
    /\ UNCHANGED <<conversation, question, answer, cut, faults>>

\* setStopped and persistMessage under a context of their own.
StopMessage(r) ==
    LET msg == [Memory(r) EXCEPT !.status = "stopped"]
    IN  /\ stream[r].pc = "stopping"
        /\ \/ Stored(r, msg) /\ UNCHANGED faults
           \/ Fault("db") /\ UNCHANGED answer
        /\ stream' = [stream EXCEPT ![r].pc = "over", ![r].msg = msg]
        /\ UNCHANGED <<conversation, question, cut>>

\* setError, then the error event and the done event; what they return is dropped.
ReportError(r) ==
    /\ stream[r].pc = "reporting"
    /\ Emit(r, [Memory(r) EXCEPT !.status = "error"], TRUE, "reported")

ReportDone(r) ==
    /\ stream[r].pc = "reported"
    /\ Emit(r, [Memory(r) EXCEPT !.status = "error"], TRUE, "over")

-----------------------------------------------------------------------------
(* Clients and processes.                                                      *)

ClientLeaves(r) ==
    /\ stream[r].pc \in Alive
    /\ ~stream[r].gone
    /\ Fault("client")
    /\ stream' = [stream EXCEPT ![r].gone = TRUE]
    /\ UNCHANGED <<conversation, question, answer, cut>>

Crash(r) ==
    /\ stream[r].pc \in Alive
    /\ Fault("crash")
    /\ Go(r, "over")
    /\ UNCHANGED <<conversation, question, answer, cut>>

Serve(r) ==
    \/ PersistStreamStart(r) \/ PrepareRun(r)
    \/ ConversationStarted(r) \/ ToolCallFinished(r) \/ MessageCompleted(r) \/ Done(r)
    \/ FinishStream(r) \/ StopMessage(r) \/ ReportError(r) \/ ReportDone(r)

Next ==
    \/ \E c \in Conversations : CreateConversation(c) \/ DeleteConversation(c)
    \/ \E r \in Requests :
          \/ CheckConversation(r) \/ Serve(r)
          \/ AssistantToken(r) \/ ToolCallStarted(r) \/ RuntimeFails(r)
          \/ ClientLeaves(r) \/ Crash(r)

Spec == Init /\ [][Next]_vars

\* A request handler runs on, and the model stream comes to its end.
Fairness == \A r \in Requests : WF_vars(Serve(r)) /\ SF_vars(MessageCompleted(r))

FairSpec == Spec /\ Fairness

-----------------------------------------------------------------------------
(* Properties.                                                                 *)

\* A conversation is held by one stream at a time: the check without a lock is
\* repeated by persistStreamStart on the locked row, and neither a deletion nor
\* a failed finish lets a second stream in.
OneStream ==
    \A r, s \in Requests :
        r # s /\ Target[r] = Target[s] =>
            ~(stream[r].pc \in Streaming /\ stream[s].pc \in Streaming)

Failed(kinds) == \E k \in kinds : faults[k] > 0

\* finishStream settles the message whatever the model does: without a failed
\* statement, setup or process, the only request that ends and leaves an answer
\* loading is one whose departed client showed as a write error, not as a cancel.
OnlyBrokenWritesLeaveLoading ==
    \A r \in Requests :
        /\ stream[r].pc = "over"
        /\ answer[r].row = "live" /\ answer[r].msg.status = "loading"
        => \/ stream[r].gone /\ stream[r].error # "cancelled"
           \/ Failed({"db", "setup", "crash"})

\* Save in finishStream and in the sink brings back what DeleteConversation
\* removed, but only for a stream that was running then: every other answer that
\* can be read has its question and its conversation.
TurnsAreWhole ==
    \A r \in Requests :
        answer[r].row = "live" /\ r \notin cut =>
            question[r] = "live" /\ conversation[Target[r]].row = "live"

\* No conversation stays busy: every way out of the runtime reaches the release,
\* unless a statement fails, the process dies or the run cannot be set up.
BusyEnds ==
    \A c \in Conversations :
        conversation[c].generating ~>
            ~conversation[c].generating \/ Failed({"db", "setup", "crash"})
=============================================================================
