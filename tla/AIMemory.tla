-------------------------------- MODULE AIMemory --------------------------------
(* What the assistant remembers of a conversation.  Each successful turn starts *)
(* a writeback that reads messages and summary, extracts, and then writes the   *)
(* summary, a fact of the user and a document with its vectors.  The next turn  *)
(* may end while it runs: the conversation is released before it starts.        *)
(*   src/internal/service/system/aiMemoryHook.go, aiMemoryWriteback.go          *)
(*   src/internal/service/system/aiMemoryIndex.go, aiMemoryRecall.go            *)
(*   src/internal/repository/system/aiMemoryRepo.go                             *)
EXTENDS Naturals, Sequences, FiniteSets

CONSTANTS MaxTurns,        \* bound: turns of the conversation
          Orgs,            \* organisations the user may be in during a turn
          RefreshEvery,    \* ai.memory.summary_refresh_every_turns
          Shown,           \* turns a new text takes over: six messages, three turns
          Says,            \* turn -> the source of the fact extracted from it, if any
          MaxMemoryFaults  \* bound: writebacks broken off, and drafts left empty

ASSUME AIMemoryAssumption ==
    /\ MaxTurns \in Nat
    /\ RefreshEvery \in Nat \ {0} /\ Shown \in Nat \ {0}
    /\ Says \in [1..MaxTurns -> {"none", "explicit", "inferred"}]
    /\ MaxMemoryFaults \in Nat

Turns == 1..MaxTurns

VARIABLES turns,      \* the user's organisation and the state of each turn
          summary,    \* row of ai_conversation_summaries
          fact,       \* row of ai_memory_facts: the turn it came from
          document,   \* turn -> how far its document has come
          work,       \* turn -> its writeback
          overlapped, \* two writebacks have run at the same time
          memoryFaults      \* writebacks broken off and drafts left empty so far

memoryVars == <<turns, summary, fact, document, work, overlapped, memoryFaults>>

\* memorySourcePriority: what the user states outranks what the model infers.
Priority(source) == IF source = "explicit" THEN 4 ELSE 1

NoOrg == "no organisation"
NoTurn == 0
Turn == [org : Orgs, state : {"running", "ok", "failed"}]

\* covers: the turns of which the text holds the messages.
Summary == [scope : Orgs \cup {NoOrg}, until : 0..MaxTurns, covers : SUBSET Turns]
NoSummary == [scope |-> NoOrg, until |-> NoTurn, covers |-> {}]

Steps == {"none", "readMessages", "readSummary", "writeSummary", "readFact", "writeFact",
        "writeDocument", "index", "over"}
\* Between the end of the turn and the last write of summary and fact.
Writing == {"readMessages", "readSummary", "writeSummary", "readFact", "writeFact"}

Latest == Len(turns)

\* The turns whose answer is a success.
Successful == {t \in 1..Latest : turns[t].state = "ok"}

\* top, done: the turns, and the successful ones among them, as they were read.
At(pc) == [pc |-> pc, top |-> 0, done |-> {}, prev |-> NoSummary, seen |-> NoTurn]
WorkState == [pc : Steps, top : 0..MaxTurns, done : SUBSET Turns, prev : Summary,
              seen : 0..MaxTurns]

MemoryTypeOK ==
    /\ turns \in Seq(Turn) /\ Latest <= MaxTurns
    /\ summary \in Summary
    /\ fact \in 0..MaxTurns
    /\ document \in [Turns -> {"none", "stored", "indexed"}]
    /\ work \in [Turns -> WorkState]
    /\ overlapped \in BOOLEAN
    /\ memoryFaults \in 0..MaxMemoryFaults

MemoryInit ==
    /\ turns = <<>>
    /\ summary = NoSummary
    /\ fact = NoTurn
    /\ document = [t \in Turns |-> "none"]
    /\ work = [t \in Turns |-> At("none")]
    /\ overlapped = FALSE
    /\ memoryFaults = 0

\* What was read for a step is forgotten after it.
Proceed(t, pc) == work' = [work EXCEPT ![t] = At(pc)]

-----------------------------------------------------------------------------
(* The turns.                                                                  *)

Running(t) == t \in 1..Latest /\ turns[t].state = "running"

\* persistStreamStart adds question and answer, for the organisation the user is
\* in now; a conversation has one stream at a time.
TurnBegins ==
    /\ Latest < MaxTurns /\ \A t \in Turns : ~Running(t)
    /\ \E org \in Orgs : turns' = Append(turns, [org |-> org, state |-> "running"])
    /\ overlapped' = (overlapped \/ \E t \in Turns : work[t].pc \in Writing)
    /\ UNCHANGED <<summary, fact, document, work, memoryFaults>>

\* triggerMemoryWriteback starts the writeback of a turn that ended in success.
TurnSucceeds(t) ==
    /\ Running(t)
    /\ turns' = [turns EXCEPT ![t].state = "ok"]
    /\ Proceed(t, "readMessages")
    /\ UNCHANGED <<summary, fact, document, overlapped, memoryFaults>>

\* Its messages stay in the conversation.
TurnFails(t) ==
    /\ Running(t)
    /\ turns' = [turns EXCEPT ![t].state = "failed"]
    /\ UNCHANGED <<summary, fact, document, work, overlapped, memoryFaults>>

-----------------------------------------------------------------------------
(* What a writeback reads first.                                               *)

ReadMessages(t) ==
    /\ work[t].pc = "readMessages"
    /\ work' = [work EXCEPT ![t] = [At("readSummary") EXCEPT !.top = Latest,
                                                            !.done = Successful]]
    /\ UNCHANGED <<turns, summary, fact, document, overlapped, memoryFaults>>

\* A summary of another organisation's scope is not found.
ReadSummary(t) ==
    /\ work[t].pc = "readSummary"
    /\ LET prev == IF summary.scope = turns[t].org THEN summary ELSE NoSummary
       IN  work' = [work EXCEPT ![t] = [@ EXCEPT !.pc = "writeSummary", !.prev = prev]]
    /\ UNCHANGED <<turns, summary, fact, document, overlapped, memoryFaults>>

-----------------------------------------------------------------------------
(* The summary: buildAIMemorySummaryRefreshInput, the rule extractor's         *)
(* buildSummary and buildAIMemoryConversationSummaryEntity.                    *)

\* The turns after the boundary; all of them when the boundary is not among the
\* messages that were read.
Recent(w) == {u \in Turns : u <= w.top /\ (w.prev.until <= w.top => u > w.prev.until)}

\* Faulty: one turn too late.
FullRefresh_Late(w) ==
    w.prev = NoSummary \/ Cardinality(Recent(w) \cap w.done) > RefreshEvery

\* Only successful answers count (countAIMemoryCompletedTurns).
FullRefresh(w) == w.prev = NoSummary \/ Cardinality(Recent(w) \cap w.done) >= RefreshEvery

\* renderSummaryRecentMessages takes the last six messages, whatever has become of
\* their turns.  (Turns without an answer leave room for a turn or two more.)
Rendered(w) == {u \in Recent(w) : u + Shown > w.top}

\* Faulty: a head update moves the boundary on.
Drafts_HeadMovesOn(t, w) ==
    IF FullRefresh(w)
    THEN {[scope |-> turns[t].org, until |-> t, covers |-> Rendered(w) \cup kept] :
              kept \in SUBSET w.prev.covers}
    ELSE {[w.prev EXCEPT !.scope = turns[t].org, !.until = t]}

\* A full refresh puts the recent messages before the old text, of which the cut
\* at summaryMaxRunes leaves what it leaves, and moves the boundary to its own
\* answer; a head update writes the text and the boundary it has read.
Drafts(t, w) ==
    IF FullRefresh(w)
    THEN {[scope |-> turns[t].org, until |-> t, covers |-> Rendered(w) \cup kept] :
              kept \in SUBSET w.prev.covers}
    ELSE {[w.prev EXCEPT !.scope = turns[t].org]}

WriteSummary(t) ==
    /\ work[t].pc = "writeSummary"
    /\ summary' \in Drafts(t, work[t])
    /\ Proceed(t, "readFact")
    /\ UNCHANGED <<turns, fact, document, overlapped, memoryFaults>>

\* A draft without text, which a language model may return, replaces nothing.
EmptyDraft(t) ==
    /\ work[t].pc = "writeSummary" /\ FullRefresh(work[t])
    /\ memoryFaults < MaxMemoryFaults
    /\ memoryFaults' = memoryFaults + 1
    /\ Proceed(t, "readFact")
    /\ UNCHANGED <<turns, summary, fact, document, overlapped>>

-----------------------------------------------------------------------------
(* The fact: shouldUpsertFact reads, UpsertFact overwrites.                    *)

\* Most turns yield none.
NoFact(t) ==
    /\ work[t].pc = "readFact" /\ Says[t] = "none"
    /\ Proceed(t, "writeDocument")
    /\ UNCHANGED <<turns, summary, fact, document, overlapped, memoryFaults>>

ReadFact(t) ==
    /\ work[t].pc = "readFact" /\ Says[t] # "none"
    /\ work' = [work EXCEPT ![t] = [At("writeFact") EXCEPT !.seen = fact]]
    /\ UNCHANGED <<turns, summary, fact, document, overlapped, memoryFaults>>

\* Faulty: the last one wins.
ShouldOverrideFact_Always(current, t) == TRUE

ShouldOverrideFact(current, t) ==
    current = NoTurn \/ Priority(Says[t]) >= Priority(Says[current])

WriteFact(t) ==
    /\ work[t].pc = "writeFact"
    /\ fact' = IF ShouldOverrideFact(work[t].seen, t) THEN t ELSE fact
    /\ Proceed(t, "writeDocument")
    /\ UNCHANGED <<turns, summary, document, overlapped, memoryFaults>>

-----------------------------------------------------------------------------
(* The document, and the goroutine that indexes it.                            *)

\* Faulty: the index is left to somebody else.
WriteDocument_NoTrigger(t) ==
    /\ work[t].pc = "writeDocument"
    /\ document' = [document EXCEPT ![t] = "stored"]
    /\ Proceed(t, "over")
    /\ UNCHANGED <<turns, summary, fact, overlapped, memoryFaults>>

\* A turn may yield no document.
WriteDocument(t) ==
    /\ work[t].pc = "writeDocument"
    /\ \/ document' = [document EXCEPT ![t] = "stored"] /\ Proceed(t, "index")
       \/ UNCHANGED document /\ Proceed(t, "over")
    /\ UNCHANGED <<turns, summary, fact, overlapped, memoryFaults>>

\* indexOneDocument: old vectors are deleted, the new ones and then the chunk rows
\* written; recall finds a vector only together with its chunk row.
IndexDocument(t) ==
    /\ work[t].pc = "index"
    /\ document' = [document EXCEPT ![t] = "indexed"]
    /\ Proceed(t, "over")
    /\ UNCHANGED <<turns, summary, fact, overlapped, memoryFaults>>

\* Nothing retries what a failed call, a timeout, a crash or an answer without
\* text breaks off.
BreakOff(t) ==
    /\ work[t].pc \notin {"none", "over"}
    /\ memoryFaults < MaxMemoryFaults
    /\ memoryFaults' = memoryFaults + 1
    /\ Proceed(t, "over")
    /\ UNCHANGED <<turns, summary, fact, document, overlapped>>

Writeback(t) ==
    \/ ReadMessages(t) \/ ReadSummary(t) \/ WriteSummary(t) \/ EmptyDraft(t)
    \/ NoFact(t) \/ ReadFact(t) \/ WriteFact(t) \/ WriteDocument(t) \/ IndexDocument(t)

MemoryNext ==
    \/ TurnBegins
    \/ \E t \in Turns : TurnSucceeds(t) \/ TurnFails(t) \/ Writeback(t) \/ BreakOff(t)

MemorySpec == MemoryInit /\ [][MemoryNext]_memoryVars

\* The goroutine of a writeback runs to its end.
MemoryFairness == \A t \in Turns : WF_memoryVars(Writeback(t))

MemoryFairSpec == MemorySpec /\ MemoryFairness

-----------------------------------------------------------------------------
(* Properties.                                                                 *)

Quiet == \A t \in Turns : work[t].pc \notin Writing
Undisturbed == Quiet /\ ~overlapped /\ memoryFaults = 0

\* However writebacks overlap, write from old snapshots or break off, the text is
\* no older than the boundary it is stored with: of the turns from the boundary on
\* it holds at least one.  A boundary beyond its text would hide all turns between
\* from every later refresh.
TextReachesBoundary ==
    summary.until # NoTurn => \E u \in summary.covers : u >= summary.until

\* The turns just before the boundary are in the text, as far as one refresh
\* reaches.
EndsWhole(s) ==
    \A u \in 1..s.until : u + Shown > s.until /\ u + RefreshEvery > s.until => u \in s.covers

\* Writebacks that run one after the other leave the summary of the organisation
\* of the last successful turn, which lags behind by less than a refresh, however
\* many turns fail and however the user changes organisation in between.
BoundaryKeepsUp ==
    Undisturbed =>
        /\ \A t \in Successful : (\A u \in Successful : u <= t) =>
              summary.scope = turns[t].org
        /\ Cardinality({u \in Successful : u > summary.until}) < RefreshEvery
        /\ EndsWhole(summary)

\* f is the last of the turns ts among those that state most.
LastOfBest(f, ts) ==
    IF ts = {} THEN f = NoTurn
    ELSE /\ f \in ts
         /\ \A t \in ts : /\ Priority(Says[f]) >= Priority(Says[t])
                          /\ t > f => Priority(Says[f]) > Priority(Says[t])

\* And the fact they leave is the last of those with the highest priority: a later
\* inference never replaces what the user has stated.
FactIsLatestOfBest ==
    Undisturbed => LastOfBest(fact, {t \in Successful : Says[t] # "none"})

\* A stored document becomes searchable unless its indexing broke off: nothing
\* calls IndexPendingDocuments, which would make up for it.
StoredIsIndexed ==
    \A t \in Turns :
        document[t] = "stored" ~> document[t] = "indexed" \/ memoryFaults > 0
=============================================================================
