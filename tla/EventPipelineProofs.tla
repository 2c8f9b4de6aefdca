-------------------------- MODULE EventPipelineProofs --------------------------
(* Proofs about OutboxRelay for any set of events and relays, any retry limit,  *)
(* batch size and fault budget, with the lock enabled or not; and, from them,   *)
(* about EventPipeline for any number of consumers: how often the stream        *)
(* carries an event, and how often handlers run for it.                         *)
EXTENDS EventPipeline, FiniteSetTheorems, TLAPS

-----------------------------------------------------------------------------
(* The inductive invariant                                                    *)

\* What a relay has read or published was committed: rows never return to
\* "none" or "open".
HeldIsCommitted == \A r \in Relays : batch[r] \cup cur[r] \subseteq Committed

\* A relay on its way to a mark holds one row; if XADD succeeded, the stream has it.
MarksOneRow ==
    \A r \in Relays :
      /\ pc[r] \in {"markPublished", "markFailed"} => \E e \in Events : cur[r] = {e}
      /\ pc[r] = "markPublished" => cur[r] \subseteq Streamed

\* No attempt is counted before the row is committed.
FreshRowsAreUntried == \A e \in Events : e \notin Committed => retry[e] = 0

IInv == /\ TypeOK
        /\ HeldIsCommitted
        /\ MarksOneRow
        /\ FreshRowsAreUntried
        /\ OnlyCommittedIsStreamed
        /\ PublishedIsStreamed
        /\ RetriesDecide

-----------------------------------------------------------------------------
(* What the helpers do                                                        *)

\* XADD adds its event to what the stream carries and takes nothing away.
LEMMA AppendStreams ==
    ASSUME NEW s \in Seq(Events), NEW e \in Events
    PROVE  {Append(s, e)[i] : i \in DOMAIN Append(s, e)} = {s[i] : i \in DOMAIN s} \cup {e}
<1>1. /\ DOMAIN s = 1..Len(s) /\ Len(s) \in Nat
      /\ DOMAIN Append(s, e) = 1..(Len(s) + 1)
      /\ Append(s, e)[Len(s) + 1] = e
      /\ \A i \in 1..Len(s) : Append(s, e)[i] = s[i]
  OBVIOUS
<1>2. 1..(Len(s) + 1) = (1..Len(s)) \cup {Len(s) + 1}
  BY <1>1
<1> QED
  BY <1>1, <1>2, Zenon

\* ... and the stream stays a sequence of events.
LEMMA AppendType ==
    ASSUME NEW s \in Seq(Events), NEW e \in Events
    PROVE  Append(s, e) \in Seq(Events)
OBVIOUS

\* GetPendingEvents returns pending rows only.
LEMMA BatchesArePending ==
    ASSUME NEW b \in PendingBatches
    PROVE  b \subseteq Committed
BY DEF PendingBatches, Eligible, Committed
-----------------------------------------------------------------------------
(* Type correctness                                                           *)

\* Every step of every action keeps the types.
LEMMA TypeStep == TypeOK /\ [Next]_vars => TypeOK'
<1> SUFFICES ASSUME TypeOK, [Next]_vars PROVE TypeOK'
  OBVIOUS
<1> USE OutboxAssumption DEF TypeOK, Statuses, PCs, FaultKinds
<1>1. CASE Tick
  BY <1>1 DEF Tick, rowVars, relayVars
<1>2. ASSUME NEW e \in Events, CreateInTx(e) \/ Commit(e) \/ Rollback(e)
      PROVE  TypeOK'
  <2>1. CASE CreateInTx(e)
    BY <2>1 DEF CreateInTx, relayVars
  <2>2. CASE Commit(e)
    BY <2>2 DEF Commit, EndTx, relayVars
  <2>3. CASE Rollback(e)
    BY <2>3 DEF Rollback, EndTx, relayVars
  <2> QED
    BY <1>2, <2>1, <2>2, <2>3
<1>3. ASSUME NEW r \in Relays, RelayStep(r)
      PROVE  TypeOK'
  <2>1. CASE TryLock(r)
    BY <2>1 DEF TryLock, Goto, NoFault, rowVars
  <2>2. CASE GetPendingEvents(r)
    <3>1. PICK b \in PendingBatches :
            /\ batch' = [batch EXCEPT ![r] = b]
            /\ Goto(r, IF b = {} THEN "unlock" ELSE "publish")
      BY <2>2 DEF GetPendingEvents
    <3>2. b \subseteq Events
      BY DEF PendingBatches, Eligible
    <3> QED
      BY <2>2, <3>1, <3>2 DEF GetPendingEvents, Goto, NoFault, rowVars
  <2>3. CASE Publish(r)
    BY <2>3 DEF Publish, Take, Oldest, Goto, NoFault, rowVars
  <2>4. CASE MarkAsPublished(r)
    BY <2>4 DEF MarkAsPublished, NextRow, Goto, NoFault
  <2>5. CASE MarkAsFailed(r)
    <3>1. status' \in [Events -> Statuses]
      BY <2>5 DEF MarkAsFailed
    <3>2. retry' \in [Events -> Nat]
      BY <2>5 DEF MarkAsFailed
    <3>3. pc' \in [Relays -> PCs] /\ cur' \in [Relays -> SUBSET Events] /\ batch' = batch
      BY <2>5 DEF MarkAsFailed, NextRow, Goto
    <3> QED
      BY <2>5, <3>1, <3>2, <3>3 DEF MarkAsFailed, NoFault
  <2>6. CASE Unlock(r)
    BY <2>6 DEF Unlock, Goto, NoFault, rowVars
  <2> QED
    BY <1>3, <2>1, <2>2, <2>3, <2>4, <2>5, <2>6 DEF RelayStep
<1>4. ASSUME NEW r \in Relays, RelayFault(r)
      PROVE  TypeOK'
  <2> USE DEF Fault
  <2>1. CASE TryLockReplyLost(r)
    BY <2>1 DEF TryLockReplyLost, rowVars, relayVars
  <2>2. CASE GetPendingEventsError(r)
    BY <2>2 DEF GetPendingEventsError, Goto, rowVars
  <2>3. CASE PublishError(r)
    <3>1. PICK e \in Oldest(batch[r]) : Take(r, e) /\ stream' \in {stream, Append(stream, e)}
      BY <2>3 DEF PublishError
    <3>2. e \in Events
      BY <3>1 DEF Oldest
    <3>3. stream \in Seq(Events)
      OBVIOUS
    <3>4. Append(stream, e) \in Seq(Events)
      BY <3>2, <3>3, AppendType, Zenon
    <3>5. stream' \in Seq(Events)
      BY <3>1, <3>3, <3>4, Zenon
    <3>6. /\ Take(r, e) /\ Goto(r, "markFailed") /\ Fault("redis")
          /\ UNCHANGED <<rowVars, now, lock>>
      BY <2>3, <3>1 DEF PublishError
    <3> QED
      BY <3>2, <3>5, <3>6 DEF Take, Goto, rowVars
  <2>4. CASE MarkError(r)
    BY <2>4 DEF MarkError, NextRow, Goto, rowVars
  <2>5. CASE UnlockError(r)
    BY <2>5 DEF UnlockError, Goto, rowVars
  <2>6. CASE Crash(r)
    BY <2>6 DEF Crash, Goto, rowVars
  <2> QED
    BY <1>4, <2>1, <2>2, <2>3, <2>4, <2>5, <2>6 DEF RelayFault
<1>5. CASE LockTimeout
  BY <1>5 DEF LockTimeout, NoFault, rowVars, relayVars
<1>6. CASE LeaseLost
  BY <1>6 DEF LeaseLost, Fault, rowVars, relayVars
<1>7. CASE DeletePublishedBefore \/ DeleteFailedBefore
  BY <1>7 DEF DeletePublishedBefore, DeleteFailedBefore, Purge, relayVars
<1>8. CASE UNCHANGED vars
  BY <1>8 DEF vars
<1> HIDE DEF TypeOK
<1> QED
  BY <1>1, <1>2, <1>3, <1>4, <1>5, <1>6, <1>7, <1>8 DEF Next

\* The rows, the stream, every relay's place in Process, its batch and the lock
\* key stay within their types in every state that can be reached.
THEOREM TypeCorrect == Spec => []TypeOK
<1>1. Init => TypeOK
  BY OutboxAssumption DEF Init, TypeOK, Statuses, PCs, FaultKinds
<1> QED
  BY <1>1, TypeStep, PTL DEF Spec
-----------------------------------------------------------------------------
(* The invariant is inductive                                                 *)

\* The state predicates of the invariant, but for the types.
LEMMA IInvInit == Init => IInv
<1> SUFFICES ASSUME Init PROVE IInv
  OBVIOUS
<1>1. TypeOK
  BY OutboxAssumption DEF Init, TypeOK, Statuses, PCs, FaultKinds
<1>2. Committed = {} /\ Streamed = {}
  BY DEF Init, Committed, Streamed
<1> QED
  BY <1>1, <1>2 DEF Init, IInv, HeldIsCommitted, MarksOneRow, FreshRowsAreUntried,
       OnlyCommittedIsStreamed, PublishedIsStreamed, RetriesDecide

\* A step that leaves rows and stream alone keeps the invariant if every relay
\* holds what it held or nothing, and none starts on a mark.
LEMMA QuietStep ==
    ASSUME IInv, TypeOK', UNCHANGED <<status, retry, stream>>,
           \A r \in Relays :
             /\ batch'[r] \cup cur'[r] \subseteq Committed
             /\ \/ pc'[r] \notin {"markPublished", "markFailed"}
                \/ pc'[r] = pc[r] /\ cur'[r] = cur[r]
    PROVE  IInv'
<1>1. Committed' = Committed /\ Streamed' = Streamed
  BY DEF Committed, Streamed
<1>2. HeldIsCommitted' /\ MarksOneRow'
  BY <1>1 DEF IInv, HeldIsCommitted, MarksOneRow
<1>3. FreshRowsAreUntried' /\ OnlyCommittedIsStreamed' /\ PublishedIsStreamed' /\ RetriesDecide'
  BY <1>1 DEF IInv, FreshRowsAreUntried, OnlyCommittedIsStreamed, PublishedIsStreamed,
       RetriesDecide
<1> QED
  BY <1>2, <1>3 DEF IInv

\* Business transactions and clean-up touch rows that no relay holds open, and
\* the rows they leave committed stay so.
LEMMA RowStep ==
    ASSUME IInv, TypeOK', UNCHANGED <<retry, stream, pc, batch, cur>>,
           \A e \in Events :
             \/ status'[e] = status[e]
             \/ e \notin Committed /\ status'[e] \in {"open", "aborted", "pending"}
             \/ e \in Committed /\ status'[e] = "purged"
    PROVE  IInv'
<1>1. Committed \subseteq Committed' /\ Streamed' = Streamed
  BY DEF Committed, Streamed
<1>2. \A e \in Events : e \notin Committed' => e \notin Committed
  BY <1>1
<1>3. HeldIsCommitted' /\ MarksOneRow' /\ FreshRowsAreUntried' /\ OnlyCommittedIsStreamed'
  BY <1>1, <1>2 DEF IInv, HeldIsCommitted, MarksOneRow, FreshRowsAreUntried,
       OnlyCommittedIsStreamed
<1>4. PublishedIsStreamed'
  BY <1>1 DEF IInv, PublishedIsStreamed
<1>5. RetriesDecide'
  <2> SUFFICES ASSUME NEW e \in Events
               PROVE  /\ status'[e] = "failed" => retry[e] >= GivenUpAfter
                      /\ status'[e] = "pending" => retry[e] < GivenUpAfter
    BY DEF RetriesDecide
  <2>1. CASE status'[e] = status[e]
    BY <2>1 DEF IInv, RetriesDecide
  <2>2. CASE e \notin Committed /\ status'[e] \in {"open", "aborted", "pending"}
    BY <2>2, OutboxAssumption DEF IInv, FreshRowsAreUntried, GivenUpAfter
  <2> QED
    BY <2>1, <2>2
<1> QED
  BY <1>3, <1>4, <1>5 DEF IInv
\* A row goes to the stream: the relay held it, so its transaction committed.
LEMMA StreamStep ==
    ASSUME IInv, TypeOK', UNCHANGED <<status, retry>>,
           NEW r \in Relays, NEW e \in batch[r], Take(r, e),
           \/ stream' = Append(stream, e) /\ pc' = [pc EXCEPT ![r] = "markPublished"]
           \/ stream' \in {stream, Append(stream, e)} /\ pc' = [pc EXCEPT ![r] = "markFailed"]
    PROVE  IInv'
<1>1. e \in Events /\ stream \in Seq(Events)
  BY DEF IInv, TypeOK
<1>2. Committed' = Committed
  BY DEF Committed
<1>3. stream' = Append(stream, e) => Streamed' = Streamed \cup {e}
  <2>1. {Append(stream, e)[i] : i \in DOMAIN Append(stream, e)}
          = {stream[i] : i \in DOMAIN stream} \cup {e}
    BY <1>1, AppendStreams
  <2> QED
    BY <2>1, Zenon DEF Streamed
<1>4. Streamed' \in {Streamed, Streamed \cup {e}}
  <2>1. stream' = stream => Streamed' = Streamed
    BY DEF Streamed
  <2> QED
    BY <1>3, <2>1
<1>5. e \in Committed
  BY DEF IInv, HeldIsCommitted
<1>6. HeldIsCommitted'
  BY <1>2, <1>5 DEF IInv, TypeOK, HeldIsCommitted, Take
<1>7. ASSUME NEW q \in Relays
      PROVE  /\ pc'[q] \in {"markPublished", "markFailed"} => \E f \in Events : cur'[q] = {f}
             /\ pc'[q] = "markPublished" => cur'[q] \subseteq Streamed'
  <2>1. CASE q = r
    BY <1>1, <1>3, <2>1 DEF IInv, TypeOK, Take
  <2>2. CASE q # r
    BY <1>4, <2>2 DEF IInv, TypeOK, MarksOneRow, Take
  <2> QED
    BY <2>1, <2>2
<1>8. MarksOneRow'
  BY <1>7 DEF MarksOneRow
<1>9. OnlyCommittedIsStreamed' /\ PublishedIsStreamed'
  BY <1>2, <1>4, <1>5 DEF IInv, OnlyCommittedIsStreamed, PublishedIsStreamed
<1>10. FreshRowsAreUntried' /\ RetriesDecide'
  BY <1>2 DEF IInv, FreshRowsAreUntried, RetriesDecide
<1> QED
  BY <1>6, <1>8, <1>9, <1>10 DEF IInv

\* MarkAsPublished: the relay's row is in the stream.
LEMMA MarkAsPublishedStep ==
    ASSUME IInv, TypeOK', NEW r \in Relays, MarkAsPublished(r)
    PROVE  IInv'
<1> USE DEF IInv, TypeOK, MarkAsPublished, NextRow, Goto, Marked
<1>1. Streamed' = Streamed
  BY DEF Streamed
<1>2. cur[r] \subseteq Streamed /\ cur[r] \subseteq Committed
  BY DEF MarksOneRow, HeldIsCommitted
<1>3. Committed' = Committed
  BY <1>2 DEF Committed
<1>4. HeldIsCommitted' /\ MarksOneRow'
  BY <1>1, <1>3 DEF HeldIsCommitted, MarksOneRow
<1>5. FreshRowsAreUntried' /\ OnlyCommittedIsStreamed'
  BY <1>1, <1>3 DEF FreshRowsAreUntried, OnlyCommittedIsStreamed
<1>6. PublishedIsStreamed'
  BY <1>1, <1>2 DEF PublishedIsStreamed
<1>7. RetriesDecide'
  BY DEF RetriesDecide
<1> QED
  BY <1>4, <1>5, <1>6, <1>7

\* MarkAsFailed: status and retry_count of the row are written together.
LEMMA MarkAsFailedStep ==
    ASSUME IInv, TypeOK', NEW r \in Relays, MarkAsFailed(r)
    PROVE  IInv'
<1> USE DEF IInv, TypeOK, MarkAsFailed, NextRow, Goto, Marked
<1>1. Streamed' = Streamed
  BY DEF Streamed
<1>2. cur[r] \subseteq Committed
  BY DEF HeldIsCommitted
<1>3. Committed' = Committed
  BY <1>2 DEF Committed
<1>4. HeldIsCommitted' /\ MarksOneRow'
  BY <1>1, <1>3 DEF HeldIsCommitted, MarksOneRow
<1>5. FreshRowsAreUntried' /\ OnlyCommittedIsStreamed'
  BY <1>1, <1>2, <1>3 DEF FreshRowsAreUntried, OnlyCommittedIsStreamed
<1>6. PublishedIsStreamed'
  BY <1>1 DEF PublishedIsStreamed
<1>7. RetriesDecide'
  BY OutboxAssumption DEF RetriesDecide, GivenUpAfter
<1> QED
  BY <1>4, <1>5, <1>6, <1>7

\* Every step of every action keeps the invariant.
LEMMA IInvStep == IInv /\ [Next]_vars => IInv'
<1> SUFFICES ASSUME IInv, [Next]_vars PROVE IInv'
  OBVIOUS
<1>0. TypeOK' /\ TypeOK
  BY TypeStep DEF IInv
<1>1. CASE Tick \/ LockTimeout \/ LeaseLost
  BY <1>0, <1>1, QuietStep DEF Tick, LockTimeout, LeaseLost, rowVars, relayVars, IInv,
       HeldIsCommitted
<1>2. ASSUME NEW e \in Events, CreateInTx(e) \/ Commit(e) \/ Rollback(e)
      PROVE  IInv'
  BY <1>0, <1>2, RowStep DEF CreateInTx, Commit, Rollback, EndTx, relayVars, Committed, TypeOK
<1>3. ASSUME NEW r \in Relays, RelayStep(r)
      PROVE  IInv'
  <2>1. CASE TryLock(r) \/ Unlock(r)
    BY <1>0, <2>1, QuietStep DEF TryLock, Unlock, Goto, rowVars, IInv, HeldIsCommitted, TypeOK
  <2>2. CASE GetPendingEvents(r)
    <3>1. PICK b \in PendingBatches :
            /\ batch' = [batch EXCEPT ![r] = b]
            /\ Goto(r, IF b = {} THEN "unlock" ELSE "publish")
      BY <2>2 DEF GetPendingEvents
    <3>2. b \subseteq Committed
      BY <3>1, BatchesArePending
    <3> QED
      BY <1>0, <2>2, <3>1, <3>2, QuietStep
         DEF GetPendingEvents, Goto, rowVars, IInv, HeldIsCommitted, TypeOK
  <2>3. CASE Publish(r)
    <3>1. PICK e \in batch[r] : Take(r, e) /\ stream' = Append(stream, e)
      BY <2>3 DEF Publish, Oldest
    <3> QED
      BY <1>0, <2>3, <3>1, StreamStep DEF Publish, Goto, rowVars
  <2>4. CASE MarkAsPublished(r)
    BY <1>0, <2>4, MarkAsPublishedStep
  <2>5. CASE MarkAsFailed(r)
    BY <1>0, <2>5, MarkAsFailedStep
  <2> QED
    BY <1>3, <2>1, <2>2, <2>3, <2>4, <2>5 DEF RelayStep
<1>4. ASSUME NEW r \in Relays, RelayFault(r)
      PROVE  IInv'
  <2>1. CASE TryLockReplyLost(r)
    BY <1>0, <2>1, QuietStep DEF TryLockReplyLost, rowVars, relayVars, IInv, HeldIsCommitted
  <2>2. CASE GetPendingEventsError(r) \/ UnlockError(r)
    BY <1>0, <2>2, QuietStep
       DEF GetPendingEventsError, UnlockError, Goto, rowVars, IInv, HeldIsCommitted, TypeOK
  <2>3. CASE PublishError(r)
    <3>1. PICK e \in batch[r] : Take(r, e) /\ stream' \in {stream, Append(stream, e)}
      BY <2>3 DEF PublishError, Oldest
    <3> QED
      BY <1>0, <2>3, <3>1, StreamStep DEF PublishError, Goto, rowVars
  <2>4. CASE MarkError(r) \/ Crash(r)
    BY <1>0, <2>4, QuietStep
       DEF MarkError, Crash, NextRow, Goto, rowVars, IInv, HeldIsCommitted, TypeOK
  <2> QED
    BY <1>4, <2>1, <2>2, <2>3, <2>4 DEF RelayFault
<1>5. CASE DeletePublishedBefore \/ DeleteFailedBefore
  BY <1>0, <1>5, RowStep
     DEF DeletePublishedBefore, DeleteFailedBefore, Purge, relayVars, Committed
<1>6. CASE UNCHANGED vars
  BY <1>0, <1>6, QuietStep DEF vars, IInv, HeldIsCommitted
<1> QED
  BY <1>1, <1>2, <1>3, <1>4, <1>5, <1>6 DEF Next

LEMMA Invariant == Spec => []IInv
BY IInvInit, IInvStep, PTL DEF Spec

\* A published row is in the stream, whatever crashes, lost leases and failed
\* updates come between XADD and MarkAsPublished.
THEOREM PublishedStreamed == Spec => []PublishedIsStreamed
<1>1. IInv => PublishedIsStreamed
  BY DEF IInv
<1> QED
  BY <1>1, Invariant, PTL

\* No row of an open or rolled-back transaction is ever published.
THEOREM CommittedStreamed == Spec => []OnlyCommittedIsStreamed
<1>1. IInv => OnlyCommittedIsStreamed
  BY DEF IInv
<1> QED
  BY <1>1, Invariant, PTL

\* No row is given up before GivenUpAfter publishes failed, and none stays pending
\* where GetPendingEvents cannot see it.
THEOREM RetriesDecided == Spec => []RetriesDecide
<1>1. IInv => RetriesDecide
  BY DEF IInv
<1> QED
  BY <1>1, Invariant, PTL
-----------------------------------------------------------------------------
(* The lock                                                                   *)

\* The body of OnlyHolderReleases, for one relay.
KeepsKey(r) ==
    lock = r /\ Running(r) /\ lock' # r
      => pc'[r] = "idle" \/ faults'["lease"] > faults["lease"]

LEMMA KeepsKeyStep ==
    ASSUME TypeOK, [Next]_vars, NEW r \in Relays
    PROVE  KeepsKey(r)
<1> USE OutboxAssumption DEF KeepsKey, Running, TypeOK
<1>1. ASSUME lock' = lock
      PROVE  KeepsKey(r)
  BY <1>1
<1>2. ASSUME NEW q \in Relays, TryLock(q) \/ TryLockReplyLost(q)
      PROVE  KeepsKey(r)
  BY <1>2 DEF TryLock, TryLockReplyLost
<1>3. ASSUME NEW q \in Relays, Unlock(q)
      PROVE  KeepsKey(r)
  BY <1>3 DEF Unlock, Goto
<1>4. CASE LockTimeout
  BY <1>4 DEF LockTimeout
<1>5. CASE LeaseLost
  BY <1>5 DEF LeaseLost, Fault, FaultKinds
<1>6. ASSUME NEW q \in Relays, RelayStep(q), ~TryLock(q), ~Unlock(q)
      PROVE  lock' = lock
  BY <1>6 DEF RelayStep, GetPendingEvents, Publish, MarkAsPublished, MarkAsFailed
<1>7. ASSUME NEW q \in Relays, RelayFault(q), ~TryLockReplyLost(q)
      PROVE  lock' = lock
  BY <1>7 DEF RelayFault, GetPendingEventsError, PublishError, MarkError, UnlockError, Crash
<1>8. ASSUME \/ Tick \/ UNCHANGED vars \/ DeletePublishedBefore \/ DeleteFailedBefore
             \/ \E e \in Events : CreateInTx(e) \/ Commit(e) \/ Rollback(e)
      PROVE  lock' = lock
  BY <1>8 DEF Tick, vars, DeletePublishedBefore, DeleteFailedBefore, Purge, CreateInTx,
       Commit, Rollback, EndTx
<1> HIDE DEF KeepsKey, TypeOK
<1> QED
  BY <1>1, <1>2, <1>3, <1>4, <1>5, <1>6, <1>7, <1>8 DEF Next

\* While a relay runs, its key leaves it only by its own unlock, its death, or a
\* renewal that failed.
THEOREM HolderReleases == Spec => OnlyHolderReleases
<1>1. TypeOK /\ [Next]_vars
        => [\A r \in Relays :
              lock = r /\ Running(r) /\ lock' # r
                => pc'[r] = "idle" \/ faults'["lease"] > faults["lease"]]_vars
  BY KeepsKeyStep DEF KeepsKey
<1> QED
  BY <1>1, TypeCorrect, PTL DEF Spec, OnlyHolderReleases

\* Relays at work whose key was lost or taken over.
Loose == {r \in Relays : Running(r) /\ lock # r}

LooseNeedsLostLease == LockEnabled => Cardinality(Loose) <= faults["lease"]

\* But for LeaseLost, no step lets go of a key under a relay at work.
LEMMA LooseStep ==
    ASSUME TypeOK, [Next]_vars, LockEnabled
    PROVE  \/ Loose' \subseteq Loose /\ faults'["lease"] \in Nat
                /\ faults'["lease"] >= faults["lease"]
           \/ Loose' \subseteq Loose \cup {lock} /\ faults'["lease"] = faults["lease"] + 1
<1> DEFINE Kept == Loose' \subseteq Loose /\ faults'["lease"] \in Nat
                     /\ faults'["lease"] >= faults["lease"]
<1> USE OutboxAssumption DEF TypeOK, Loose, Running, FaultKinds
<1>1. ASSUME NEW r \in Relays, RelayStep(r)
      PROVE  Kept
  <2> USE DEF NoFault, Goto
  <2>1. CASE TryLock(r)
    BY <2>1 DEF TryLock
  <2>2. CASE GetPendingEvents(r)
    BY <2>2 DEF GetPendingEvents
  <2>3. CASE Publish(r)
    BY <2>3 DEF Publish
  <2>4. CASE MarkAsPublished(r) \/ MarkAsFailed(r)
    BY <2>4 DEF MarkAsPublished, MarkAsFailed, NextRow
  <2>5. CASE Unlock(r)
    BY <2>5 DEF Unlock
  <2> QED
    BY <1>1, <2>1, <2>2, <2>3, <2>4, <2>5 DEF RelayStep
<1>2. ASSUME NEW r \in Relays, RelayFault(r)
      PROVE  Kept
  <2> USE DEF Fault, Goto
  <2>1. CASE TryLockReplyLost(r)
    BY <2>1 DEF TryLockReplyLost, relayVars
  <2>2. CASE GetPendingEventsError(r)
    BY <2>2 DEF GetPendingEventsError
  <2>3. CASE PublishError(r)
    BY <2>3 DEF PublishError
  <2>4. CASE MarkError(r)
    BY <2>4 DEF MarkError, NextRow
  <2>5. CASE UnlockError(r) \/ Crash(r)
    BY <2>5 DEF UnlockError, Crash
  <2> QED
    BY <1>2, <2>1, <2>2, <2>3, <2>4, <2>5 DEF RelayFault
<1>3. CASE LockTimeout
  BY <1>3 DEF LockTimeout, NoFault, relayVars
<1>4. CASE LeaseLost
  BY <1>4 DEF LeaseLost, Fault, relayVars
<1>5. ASSUME \/ Tick \/ UNCHANGED vars \/ DeletePublishedBefore \/ DeleteFailedBefore
             \/ \E e \in Events : CreateInTx(e) \/ Commit(e) \/ Rollback(e)
      PROVE  Kept
  BY <1>5 DEF Tick, vars, DeletePublishedBefore, DeleteFailedBefore, Purge, CreateInTx,
       Commit, Rollback, EndTx, relayVars
<1> QED
  BY <1>1, <1>2, <1>3, <1>4, <1>5 DEF Next

\* Two relays run Process at once only after a renewal failed under a holder:
\* at most one more than the renewals that failed.
THEOREM OverlapBounded == Spec => []OverlapNeedsLostLease
<1>1. ASSUME TypeOK
      PROVE  IsFiniteSet(Loose) /\ Cardinality(Loose) \in Nat
  BY OutboxAssumption, FS_Subset, FS_CardinalityType DEF Loose
<1>2. Init => LooseNeedsLostLease
  <2>1. Init => Loose = {}
    BY DEF Init, Loose, Running
  <2>2. Init => faults["lease"] = 0
    BY DEF Init, FaultKinds
  <2> QED
    BY <2>1, <2>2, FS_EmptySet DEF LooseNeedsLostLease
<1>3. TypeOK /\ LooseNeedsLostLease /\ [Next]_vars => LooseNeedsLostLease'
  <2> SUFFICES ASSUME TypeOK, LooseNeedsLostLease, [Next]_vars, LockEnabled
               PROVE  Cardinality(Loose') <= faults'["lease"]
    BY DEF LooseNeedsLostLease
  <2>1. Cardinality(Loose) <= faults["lease"] /\ faults["lease"] \in Nat
    BY DEF LooseNeedsLostLease, TypeOK, FaultKinds
  <2>2. CASE Loose' \subseteq Loose /\ faults'["lease"] \in Nat
               /\ faults'["lease"] >= faults["lease"]
    <3>1. Cardinality(Loose') <= Cardinality(Loose) /\ Cardinality(Loose') \in Nat
      BY <1>1, <2>2, FS_Subset, FS_CardinalityType
    <3> QED
      BY <1>1, <2>1, <2>2, <3>1
  <2>3. CASE Loose' \subseteq Loose \cup {lock} /\ faults'["lease"] = faults["lease"] + 1
    <3>1. /\ IsFiniteSet(Loose \cup {lock})
          /\ Cardinality(Loose \cup {lock}) <= Cardinality(Loose) + 1
          /\ Cardinality(Loose \cup {lock}) \in Nat
      BY <1>1, FS_AddElement, FS_CardinalityType
    <3>2. Cardinality(Loose') <= Cardinality(Loose \cup {lock}) /\ Cardinality(Loose') \in Nat
      BY <2>3, <3>1, FS_Subset, FS_CardinalityType
    <3> QED
      BY <1>1, <2>1, <2>3, <3>1, <3>2
  <2> QED
    BY <2>2, <2>3, LooseStep
<1>4. TypeOK /\ LooseNeedsLostLease => OverlapNeedsLostLease
  <2> SUFFICES ASSUME TypeOK, LooseNeedsLostLease, LockEnabled
               PROVE  Cardinality({r \in Relays : Running(r)}) <= 1 + faults["lease"]
    BY DEF OverlapNeedsLostLease
  <2>1. /\ IsFiniteSet(Loose \cup {lock})
        /\ Cardinality(Loose \cup {lock}) <= Cardinality(Loose) + 1
        /\ Cardinality(Loose \cup {lock}) \in Nat
    BY <1>1, FS_AddElement, FS_CardinalityType
  <2>2. {r \in Relays : Running(r)} \subseteq Loose \cup {lock}
    BY DEF Loose
  <2>3. /\ Cardinality({r \in Relays : Running(r)}) <= Cardinality(Loose \cup {lock})
        /\ Cardinality({r \in Relays : Running(r)}) \in Nat
    BY <2>1, <2>2, FS_Subset, FS_CardinalityType
  <2>4. Cardinality(Loose) <= faults["lease"] /\ faults["lease"] \in Nat
    BY DEF LooseNeedsLostLease, TypeOK, FaultKinds
  <2> QED
    BY <1>1, <2>1, <2>3, <2>4
<1> QED
  BY <1>2, <1>3, <1>4, TypeCorrect, PTL DEF Spec

-----------------------------------------------------------------------------
(* The outbox implements EventDelivery                                        *)

LEMMA InitRefines == Init => Delivery!Init
BY DEF Init, Delivery!Init, Committed, Abandoned, Streamed

\* Rows, retries and stream as they were, and no row commits or is given up on.
LEMMA StutterRefines ==
    ASSUME UNCHANGED <<retry, stream>>, Committed' = Committed, Abandoned' = Abandoned
    PROVE  UNCHANGED Delivery!deliveryVars
BY DEF Delivery!deliveryVars

LEMMA QuietRefines ==
    ASSUME UNCHANGED <<status, retry, stream>>
    PROVE  UNCHANGED Delivery!deliveryVars
<1>1. Committed' = Committed /\ Abandoned' = Abandoned
  BY DEF Committed, Abandoned, Streamed
<1> QED
  BY <1>1, StutterRefines

\* The transaction of e ends: with a commit, e is accepted.
LEMMA TxRefines ==
    ASSUME IInv, NEW e \in Events, CreateInTx(e) \/ Commit(e) \/ Rollback(e)
    PROVE  [Delivery!Next]_(Delivery!deliveryVars)
<1> USE DEF IInv, TypeOK, CreateInTx, Commit, Rollback, EndTx
<1>1. Abandoned' = Abandoned /\ UNCHANGED <<retry, stream>>
  BY DEF Abandoned, Streamed
<1>2. CASE CreateInTx(e) \/ Rollback(e)
  <2>1. Committed' = Committed
    BY <1>2 DEF Committed
  <2> QED
    BY <1>1, <2>1, StutterRefines
<1>3. CASE Commit(e)
  <2>1. e \notin Committed /\ Committed' = Committed \cup {e}
    BY <1>3 DEF Committed
  <2> QED
    BY <1>1, <2>1 DEF Delivery!Next, Delivery!Accept
<1> QED
  BY <1>2, <1>3

\* XADD of a committed event is a delivery.
LEMMA AppendRefines ==
    ASSUME IInv, UNCHANGED <<status, retry>>, NEW r \in Relays, NEW e \in batch[r],
           stream' = Append(stream, e)
    PROVE  Delivery!Next
<1>1. e \in Events /\ stream \in Seq(Events) /\ e \in Committed
  BY DEF IInv, TypeOK, HeldIsCommitted
<1>2. Streamed' = Streamed \cup {e}
  <2>1. {Append(stream, e)[i] : i \in DOMAIN Append(stream, e)}
          = {stream[i] : i \in DOMAIN stream} \cup {e}
    BY <1>1, AppendStreams
  <2> QED
    BY <2>1, Zenon DEF Streamed
<1>3. Committed' = Committed /\ Abandoned' = Abandoned \ {e}
  BY <1>2 DEF Committed, Abandoned
<1> QED
  BY <1>1, <1>3 DEF Delivery!Next, Delivery!Deliver

LEMMA DeliveredIsStreamed == \A e : Delivery!Delivered(e) <=> e \in Streamed
BY DEF Delivery!Delivered, Streamed

\* MarkAsFailed counts one attempt of the relay's row, unless it was purged.
LEMMA FailureRefines ==
    ASSUME IInv, NEW r \in Relays, MarkAsFailed(r)
    PROVE  [Delivery!Next]_(Delivery!deliveryVars)
<1> USE DEF IInv, TypeOK, MarkAsFailed, Marked
<1>1. PICK e \in Events : cur[r] = {e}
  BY DEF MarksOneRow
<1>2. e \in Committed /\ Streamed' = Streamed /\ UNCHANGED stream
  BY <1>1 DEF HeldIsCommitted, Streamed
<1>3. Committed' = Committed
  BY <1>1, <1>2 DEF Committed
<1>4. CASE status[e] = "purged"
  <2>1. status' = status /\ retry' = retry
    BY <1>1, <1>4
  <2> QED
    BY <1>2, <2>1, QuietRefines
<1>5. CASE status[e] # "purged"
  <2>1. retry' = [retry EXCEPT ![e] = @ + 1]
    BY <1>1, <1>5
  <2>2. /\ status'[e] = IF retry[e] + 1 >= GivenUpAfter THEN "failed" ELSE "pending"
        /\ \A f \in Events \ {e} : status'[f] = status[f]
    BY <1>1, <1>5, OutboxAssumption DEF GivenUpAfter
  <2>3. e \in Abandoned => retry[e] + 1 >= GivenUpAfter
    BY <1>5, OutboxAssumption DEF Abandoned, RetriesDecide, GivenUpAfter
  <2>4. Abandoned' = IF retry[e] + 1 >= GivenUpAfter /\ e \notin Streamed
                       THEN Abandoned \cup {e} ELSE Abandoned
    BY <1>2, <2>2, <2>3 DEF Abandoned
  <2> QED
    BY <1>2, <1>3, <2>1, <2>4, DeliveredIsStreamed DEF Delivery!Next, Delivery!FailAttempt
<1> QED
  BY <1>4, <1>5
\* The other rows a step may change are in the stream already, or given up on
\* already: marking them published and purging them is not seen.
LEMMA MarkRefines ==
    ASSUME IInv, NEW r \in Relays, MarkAsPublished(r)
    PROVE  UNCHANGED Delivery!deliveryVars
<1> USE DEF IInv, TypeOK, MarkAsPublished, Marked
<1>1. cur[r] \subseteq Streamed /\ cur[r] \subseteq Committed /\ Streamed' = Streamed
  BY DEF MarksOneRow, HeldIsCommitted, Streamed
<1>2. Committed' = Committed /\ Abandoned' = Abandoned
  BY <1>1 DEF Committed, Abandoned
<1> QED
  BY <1>2, StutterRefines

LEMMA PurgeRefines ==
    ASSUME IInv, DeletePublishedBefore \/ DeleteFailedBefore
    PROVE  UNCHANGED Delivery!deliveryVars
<1> USE DEF IInv, TypeOK, DeletePublishedBefore, DeleteFailedBefore, Purge
<1>1. UNCHANGED <<retry, stream>> /\ Streamed' = Streamed
  BY DEF Streamed
<1>2. Committed' = Committed /\ Abandoned' = Abandoned
  BY <1>1 DEF Committed, Abandoned, PublishedIsStreamed
<1> QED
  BY <1>1, <1>2, StutterRefines

\* Every step of the outbox is a step of EventDelivery, or none.
LEMMA StepRefines == IInv /\ [Next]_vars => [Delivery!Next]_(Delivery!deliveryVars)
<1> SUFFICES ASSUME IInv, [Next]_vars PROVE [Delivery!Next]_(Delivery!deliveryVars)
  OBVIOUS
<1>1. CASE Tick \/ LockTimeout \/ LeaseLost \/ UNCHANGED vars
  BY <1>1, QuietRefines DEF Tick, LockTimeout, LeaseLost, vars, rowVars
<1>2. ASSUME NEW e \in Events, CreateInTx(e) \/ Commit(e) \/ Rollback(e)
      PROVE  [Delivery!Next]_(Delivery!deliveryVars)
  BY <1>2, TxRefines
<1>3. ASSUME NEW r \in Relays, RelayStep(r)
      PROVE  [Delivery!Next]_(Delivery!deliveryVars)
  <2>1. CASE TryLock(r) \/ Unlock(r) \/ GetPendingEvents(r)
    BY <2>1, QuietRefines DEF TryLock, Unlock, GetPendingEvents, rowVars
  <2>2. CASE Publish(r)
    BY <2>2, AppendRefines DEF Publish, Oldest, rowVars
  <2>3. CASE MarkAsPublished(r)
    BY <2>3, MarkRefines
  <2>4. CASE MarkAsFailed(r)
    BY <2>4, FailureRefines
  <2> QED
    BY <1>3, <2>1, <2>2, <2>3, <2>4 DEF RelayStep
<1>4. ASSUME NEW r \in Relays, RelayFault(r)
      PROVE  [Delivery!Next]_(Delivery!deliveryVars)
  <2>1. CASE TryLockReplyLost(r) \/ GetPendingEventsError(r) \/ UnlockError(r)
               \/ MarkError(r) \/ Crash(r)
    BY <2>1, QuietRefines DEF TryLockReplyLost, GetPendingEventsError, UnlockError, MarkError,
         Crash, rowVars
  <2>2. CASE PublishError(r)
    <3>1. PICK e \in batch[r] : stream' \in {stream, Append(stream, e)}
      BY <2>2 DEF PublishError, Oldest
    <3>2. UNCHANGED <<status, retry>>
      BY <2>2 DEF PublishError, rowVars
    <3> QED
      BY <3>1, <3>2, AppendRefines, QuietRefines
  <2> QED
    BY <1>4, <2>1, <2>2 DEF RelayFault
<1>5. CASE DeletePublishedBefore \/ DeleteFailedBefore
  BY <1>5, PurgeRefines
<1> QED
  BY <1>1, <1>2, <1>3, <1>4, <1>5 DEF Next

\* The outbox keeps its promise: accepted at commit, delivered at least once, or
\* given up on only after GivenUpAfter failures and no delivery.
THEOREM OutboxImplementsDelivery == Spec => ImplementsDelivery
BY InitRefines, StepRefines, Invariant, PTL DEF Spec, ImplementsDelivery, Delivery!Spec

-----------------------------------------------------------------------------
(* The relay: every copy of an event but one is paid for by a fault             *)

\* The entries that carry an event.
Copies(e) == {i \in DOMAIN stream : stream[i] = e}

\* Relays that may still append a copy of e, or whose failed attempt at it is not
\* marked yet, or that have lost their key and are going to read rows.
Due(e) == {r \in Relays : \/ e \in batch[r]
                          \/ pc[r] = "markFailed" /\ e \in cur[r]
                          \/ pc[r] = "fetch" /\ lock # r}

\* The relay that holds the key has e in its hands.
KeyedHas(e) == \E r \in Relays : lock = r /\ e \in batch[r] \cup cur[r]

RelayFaults == faults["redis"] + faults["db"] + faults["lease"] + faults["crash"]

\* The row of e is pending or will be, and no holder of the key is about to end that.
Open(e) == status[e] \notin {"published", "failed", "purged"} /\ ~KeyedHas(e)

\* A relay between two batches holds no row, and none twice.
AwayHoldNothing ==
    \A r \in Relays : /\ pc[r] \in {"idle", "fetch", "unlock"} => batch[r] = {}
                      /\ pc[r] \in {"idle", "fetch", "unlock", "publish"} => cur[r] = {}
                      /\ batch[r] \cap cur[r] = {}

\* The copies there are and may still come are as many as the faults so far, and
\* one more unless the row can be read again.
Counts(e) ==
    /\ Cardinality(Copies(e)) + Cardinality(Due(e)) <= RelayFaults + 1
    /\ Open(e) => Cardinality(Copies(e)) + Cardinality(Due(e)) <= RelayFaults

CopiesArePaid == LockEnabled => \A e \in Events : Counts(e)

-----------------------------------------------------------------------------

LEMMA CountsAreNatural ==
    ASSUME TypeOK, NEW e
    PROVE  /\ IsFiniteSet(Copies(e)) /\ Cardinality(Copies(e)) \in Nat
           /\ IsFiniteSet(Due(e)) /\ Cardinality(Due(e)) \in Nat
           /\ RelayFaults \in Nat
<1>1. IsFiniteSet(DOMAIN stream)
  <2>1. DOMAIN stream = 1..Len(stream) /\ Len(stream) \in Nat
    BY DEF TypeOK
  <2> QED
    BY <2>1, FS_Interval
<1>2. IsFiniteSet(Copies(e))
  BY <1>1, FS_Subset DEF Copies
<1>3. IsFiniteSet(Due(e))
  BY OutboxAssumption, FS_Subset DEF Due
<1>4. RelayFaults \in Nat
  BY DEF TypeOK, FaultKinds, RelayFaults
<1> QED
  BY <1>2, <1>3, <1>4, FS_CardinalityType

LEMMA CountsAreNaturalThen ==
    ASSUME NEW e
    PROVE  (TypeOK => /\ IsFiniteSet(Copies(e)) /\ Cardinality(Copies(e)) \in Nat
                      /\ IsFiniteSet(Due(e)) /\ Cardinality(Due(e)) \in Nat
                      /\ RelayFaults \in Nat)'
<1>1. TypeOK => /\ IsFiniteSet(Copies(e)) /\ Cardinality(Copies(e)) \in Nat
                /\ IsFiniteSet(Due(e)) /\ Cardinality(Due(e)) \in Nat
                /\ RelayFaults \in Nat
  BY CountsAreNatural
<1> QED
  BY <1>1, PTL

\* A fault is counted once, whatever its kind.
LEMMA FaultsAdd ==
    ASSUME TypeOK
    PROVE  /\ NoFault => RelayFaults' = RelayFaults
           /\ \A k \in FaultKinds : Fault(k) => RelayFaults' = RelayFaults + 1
<1>1. NoFault => RelayFaults' = RelayFaults
  BY DEF NoFault, RelayFaults
<1>2. ASSUME NEW k \in FaultKinds, Fault(k) PROVE RelayFaults' = RelayFaults + 1
  <2>1. \A j \in FaultKinds : faults[j] \in Nat /\ faults'[j] = IF j = k THEN faults[j] + 1 ELSE faults[j]
    BY <1>2 DEF Fault, TypeOK
  <2>2. /\ faults["redis"] \in Nat /\ faults["db"] \in Nat
        /\ faults["lease"] \in Nat /\ faults["crash"] \in Nat
    BY <2>1 DEF FaultKinds
  <2>3. CASE k = "redis"
    BY <2>1, <2>2, <2>3 DEF RelayFaults, FaultKinds
  <2>4. CASE k = "db"
    BY <2>1, <2>2, <2>4 DEF RelayFaults, FaultKinds
  <2>5. CASE k = "lease"
    BY <2>1, <2>2, <2>5 DEF RelayFaults, FaultKinds
  <2>6. CASE k = "crash"
    BY <2>1, <2>2, <2>6 DEF RelayFaults, FaultKinds
  <2> QED
    BY <2>3, <2>4, <2>5, <2>6 DEF FaultKinds
<1> QED
  BY <1>1, <1>2

\* XADD of an event adds one copy of it and no copy of another.
LEMMA CopiesGrow ==
    ASSUME TypeOK, NEW e \in Events, NEW f \in Events, stream' = Append(stream, f)
    PROVE  /\ Cardinality(Copies(e)') <= Cardinality(Copies(e)) + 1
           /\ e # f => Copies(e)' = Copies(e)
<1>1. PICK n : n = Len(stream) OBVIOUS
<1>2. /\ n \in Nat /\ DOMAIN stream = 1..n /\ DOMAIN stream' = 1..(n + 1)
      /\ stream'[n + 1] = f /\ \A i \in 1..n : stream'[i] = stream[i]
  BY <1>1 DEF TypeOK
<1>3. 1..(n + 1) = 1..n \cup {n + 1} /\ n + 1 \notin 1..n
  BY <1>2
<1>4. Copies(e)' = IF e = f THEN Copies(e) \cup {n + 1} ELSE Copies(e)
  BY <1>2, <1>3 DEF Copies
<1>5. Cardinality(Copies(e) \cup {n + 1}) <= Cardinality(Copies(e)) + 1
  <2>1. IsFiniteSet(Copies(e)) /\ Cardinality(Copies(e)) \in Nat
    BY CountsAreNatural
  <2>2. Cardinality(Copies(e) \cup {n + 1})
          = IF n + 1 \in Copies(e) THEN Cardinality(Copies(e)) ELSE Cardinality(Copies(e)) + 1
    BY <2>1, FS_AddElement
  <2> QED
    BY <2>1, <2>2
<1>6. Cardinality(Copies(e)) <= Cardinality(Copies(e)) + 1
  BY CountsAreNatural
<1> QED
  BY <1>4, <1>5, <1>6

\* How a set of relays that loses or gains one of them counts.
LEMMA SetsCount ==
    ASSUME NEW D, NEW E, IsFiniteSet(D), NEW r
    PROVE  /\ E \subseteq D => Cardinality(E) <= Cardinality(D)
           /\ E \subseteq D \ {r} /\ r \in D => Cardinality(E) + 1 <= Cardinality(D)
           /\ E \subseteq D \cup {r} => Cardinality(E) <= Cardinality(D) + 1
<1>1. Cardinality(D) \in Nat
  BY FS_CardinalityType
<1>2. E \subseteq D => Cardinality(E) <= Cardinality(D)
  BY FS_Subset
<1>3. ASSUME E \subseteq D \ {r}, r \in D PROVE Cardinality(E) + 1 <= Cardinality(D)
  <2>1. IsFiniteSet(D \ {r}) /\ Cardinality(D \ {r}) = Cardinality(D) - 1
    BY <1>3, FS_RemoveElement
  <2>2. Cardinality(E) <= Cardinality(D \ {r}) /\ IsFiniteSet(E)
    BY <1>3, <2>1, FS_Subset
  <2>3. Cardinality(E) \in Nat
    BY <2>2, FS_CardinalityType
  <2> QED
    BY <1>1, <2>1, <2>2, <2>3
<1>4. ASSUME E \subseteq D \cup {r} PROVE Cardinality(E) <= Cardinality(D) + 1
  <2>1. IsFiniteSet(D \cup {r}) /\ Cardinality(D \cup {r}) <= Cardinality(D) + 1
    BY <1>1, FS_AddElement
  <2>2. Cardinality(E) <= Cardinality(D \cup {r}) /\ IsFiniteSet(E)
    BY <1>4, <2>1, FS_Subset
  <2>3. Cardinality(E) \in Nat /\ Cardinality(D \cup {r}) \in Nat
    BY <2>1, <2>2, FS_CardinalityType
  <2> QED
    BY <1>1, <2>1, <2>2, <2>3
<1> QED
  BY <1>2, <1>3, <1>4

LEMMA AwayStep ==
    ASSUME TypeOK, AwayHoldNothing, [Next]_vars
    PROVE  AwayHoldNothing'
<1> USE DEF TypeOK, AwayHoldNothing
<1>1. ASSUME UNCHANGED relayVars PROVE AwayHoldNothing'
  BY <1>1 DEF relayVars
<1>2. CASE \/ Tick \/ LockTimeout \/ LeaseLost \/ DeletePublishedBefore \/ DeleteFailedBefore
           \/ \E e \in Events : CreateInTx(e) \/ Commit(e) \/ Rollback(e)
           \/ UNCHANGED vars
  <2>1. UNCHANGED relayVars
    BY <1>2 DEF Tick, LockTimeout, LeaseLost, DeletePublishedBefore, DeleteFailedBefore, Purge,
       CreateInTx, Commit, Rollback, EndTx, vars, relayVars
  <2> QED
    BY <1>1, <2>1
<1>3. ASSUME NEW r \in Relays, RelayStep(r) \/ RelayFault(r) PROVE AwayHoldNothing'
  <2>1. CASE TryLock(r) \/ Unlock(r) \/ UnlockError(r)
    BY <2>1 DEF TryLock, Unlock, UnlockError, Goto
  <2>2. CASE TryLockReplyLost(r)
    BY <1>1, <2>2 DEF TryLockReplyLost
  <2>3. CASE GetPendingEvents(r)
    BY <2>3 DEF GetPendingEvents, Goto
  <2>4. CASE GetPendingEventsError(r)
    BY <2>4 DEF GetPendingEventsError, Goto
  <2>5. CASE Publish(r) \/ PublishError(r)
    BY <2>5 DEF Publish, PublishError, Goto, Take
  <2>6. CASE MarkAsPublished(r) \/ MarkAsFailed(r) \/ MarkError(r)
    BY <2>6 DEF MarkAsPublished, MarkAsFailed, MarkError, Goto, NextRow
  <2>7. CASE Crash(r)
    BY <2>7 DEF Crash, Goto
  <2> QED
    BY <1>3, <2>1, <2>2, <2>3, <2>4, <2>5, <2>6, <2>7 DEF RelayStep, RelayFault
<1> QED
  BY <1>2, <1>3 DEF Next

\* The arithmetic of a step.
LEMMA CountsFollow ==
    ASSUME TypeOK, TypeOK', NEW e, Counts(e),
           \/ /\ Cardinality(Copies(e)') + Cardinality(Due(e)') + RelayFaults
                   <= Cardinality(Copies(e)) + Cardinality(Due(e)) + RelayFaults'
              /\ \/ Open(e)' => Open(e)
                 \/ Cardinality(Copies(e)') + Cardinality(Due(e)') + RelayFaults + 1
                      <= Cardinality(Copies(e)) + Cardinality(Due(e)) + RelayFaults'
           \/ /\ Cardinality(Copies(e)') + Cardinality(Due(e)')
                   <= Cardinality(Copies(e)) + Cardinality(Due(e)) + 1
              /\ RelayFaults' = RelayFaults
              /\ Open(e) /\ ~Open(e)'
    PROVE  Counts(e)'
<1>1. PICK c, d, f : c = Cardinality(Copies(e)) /\ d = Cardinality(Due(e)) /\ f = RelayFaults
  OBVIOUS
<1>2. PICK c1, d1, f1 : c1 = Cardinality(Copies(e)') /\ d1 = Cardinality(Due(e)') /\ f1 = RelayFaults'
  OBVIOUS
<1>3. c \in Nat /\ d \in Nat /\ f \in Nat
  BY <1>1, CountsAreNatural
<1>4. c1 \in Nat /\ d1 \in Nat /\ f1 \in Nat
  BY <1>2, CountsAreNaturalThen
<1>5. c + d <= f + 1 /\ (Open(e) => c + d <= f)
  BY <1>1 DEF Counts
<1>6. \/ c1 + d1 + f <= c + d + f1 /\ ((Open(e)' => Open(e)) \/ c1 + d1 + f + 1 <= c + d + f1)
      \/ c1 + d1 <= c + d + 1 /\ f1 = f /\ Open(e) /\ ~Open(e)'
  BY <1>1, <1>2
<1>7. c1 + d1 <= f1 + 1
  BY <1>3, <1>4, <1>5, <1>6
<1>8. Open(e)' => c1 + d1 <= f1
  BY <1>3, <1>4, <1>5, <1>6
<1> QED
  BY <1>2, <1>7, <1>8 DEF Counts

\* A step that leaves the stream alone and gives no relay anything to append.
LEMMA QuietCounts ==
    ASSUME TypeOK, TypeOK', NEW e, Counts(e), stream' = stream, Due(e)' \subseteq Due(e),
           RelayFaults' \in {RelayFaults, RelayFaults + 1},
           \/ Open(e)' => Open(e)
           \/ RelayFaults' = RelayFaults + 1
           \/ \E r \in Due(e) : Due(e)' \subseteq Due(e) \ {r}
    PROVE  Counts(e)'
<1>1. Copies(e)' = Copies(e)
  BY DEF Copies
<1>2. /\ Cardinality(Copies(e)) \in Nat /\ Cardinality(Due(e)) \in Nat /\ RelayFaults \in Nat
      /\ IsFiniteSet(Due(e)) /\ Cardinality(Due(e)') \in Nat
  BY CountsAreNatural, CountsAreNaturalThen
<1>3. Cardinality(Due(e)') <= Cardinality(Due(e))
  BY <1>2, SetsCount
<1>4. CASE (Open(e)' => Open(e)) \/ RelayFaults' = RelayFaults + 1
  <2>1. Cardinality(Copies(e)') = Cardinality(Copies(e))
    BY <1>1
  <2> QED
    BY <1>2, <1>3, <1>4, <2>1, CountsFollow
<1>5. CASE \E r \in Due(e) : Due(e)' \subseteq Due(e) \ {r}
  <2>1. PICK r \in Due(e) : Due(e)' \subseteq Due(e) \ {r}
    BY <1>5
  <2>2. Cardinality(Due(e)') + 1 <= Cardinality(Due(e))
    BY <1>2, <2>1, SetsCount
  <2>3. Cardinality(Copies(e)') = Cardinality(Copies(e))
    BY <1>1
  <2> QED
    BY <1>2, <2>2, <2>3, CountsFollow
<1> QED
  BY <1>4, <1>5

-----------------------------------------------------------------------------
(* The steps of the relay                                                      *)

\* Transactions, the clock and the clean-up give no relay a row to publish.
LEMMA BusinessCounts ==
    ASSUME IInv, TypeOK', AwayHoldNothing, NEW e \in Events, Counts(e),
           \/ Tick \/ DeletePublishedBefore \/ DeleteFailedBefore \/ UNCHANGED vars
           \/ \E x \in Events : CreateInTx(x) \/ Commit(x) \/ Rollback(x)
    PROVE  Counts(e)'
<1>1. UNCHANGED <<stream, pc, batch, cur, lock, faults>>
  BY DEF Tick, DeletePublishedBefore, DeleteFailedBefore, Purge, CreateInTx, Commit, Rollback, EndTx,
     vars, relayVars
<1>2. Due(e)' = Due(e) /\ RelayFaults' = RelayFaults /\ KeyedHas(e)' = KeyedHas(e)
  BY <1>1 DEF Due, RelayFaults, KeyedHas
<1>3. status'[e] \notin {"published", "failed", "purged"}
        => status[e] \notin {"published", "failed", "purged"}
  BY DEF IInv, TypeOK, Tick, DeletePublishedBefore, DeleteFailedBefore, Purge, CreateInTx, Commit,
     Rollback, EndTx, vars, rowVars
<1>4. Open(e)' => Open(e)
  BY <1>2, <1>3 DEF Open
<1> QED
  BY <1>1, <1>2, <1>4, QuietCounts DEF IInv

\* The key changes hands only when its relay holds nothing, or with a fault.
LEMMA KeyCounts ==
    ASSUME IInv, TypeOK', AwayHoldNothing, NEW e \in Events, Counts(e), LockEnabled,
           \/ LockTimeout \/ LeaseLost
           \/ \E r \in Relays : \/ TryLock(r) \/ TryLockReplyLost(r) \/ Unlock(r) \/ UnlockError(r)
                                \/ GetPendingEventsError(r) \/ Crash(r)
    PROVE  Counts(e)'
<1>1. TypeOK /\ NoRelay \notin Relays
  BY OutboxAssumption DEF IInv
<1>2. CASE LockTimeout
  <2>1. Due(e)' \subseteq Due(e) /\ ~KeyedHas(e)
    BY <1>1, <1>2 DEF LockTimeout, Due, KeyedHas, AwayHoldNothing, Running, relayVars
  <2>2. status' = status /\ stream' = stream /\ RelayFaults' = RelayFaults
    BY <1>1, <1>2, FaultsAdd DEF LockTimeout, rowVars
  <2>3. Open(e)' => Open(e)
    BY <2>1, <2>2 DEF Open
  <2> QED
    BY <1>1, <2>1, <2>2, <2>3, QuietCounts
<1>3. CASE LeaseLost
  <2>1. status' = status /\ stream' = stream /\ RelayFaults' = RelayFaults + 1
    BY <1>1, <1>3, FaultsAdd DEF LeaseLost, rowVars, FaultKinds
  <2>2. CASE pc[lock] = "fetch"
    <3>1. Due(e)' \subseteq Due(e) \cup {lock} /\ ~KeyedHas(e)
      BY <1>1, <1>3, <2>2 DEF LeaseLost, Due, KeyedHas, AwayHoldNothing, relayVars
    <3>2. Open(e)' => Open(e)
      BY <2>1, <3>1 DEF Open
    <3>3. Copies(e)' = Copies(e)
      BY <2>1 DEF Copies
    <3>4. /\ Cardinality(Copies(e)) \in Nat /\ Cardinality(Due(e)) \in Nat /\ RelayFaults \in Nat
          /\ IsFiniteSet(Due(e)) /\ Cardinality(Due(e)') \in Nat
      BY <1>1, CountsAreNatural, CountsAreNaturalThen
    <3>5. Cardinality(Due(e)') <= Cardinality(Due(e)) + 1
      BY <3>1, <3>4, SetsCount
    <3>6. Cardinality(Copies(e)') = Cardinality(Copies(e))
      BY <3>3
    <3>7. Cardinality(Copies(e)') + Cardinality(Due(e)') + RelayFaults
            <= Cardinality(Copies(e)) + Cardinality(Due(e)) + RelayFaults'
      BY <2>1, <3>4, <3>5, <3>6
    <3> QED
      BY <1>1, <3>2, <3>7, CountsFollow
  <2>3. CASE pc[lock] # "fetch"
    <3>1. Due(e)' \subseteq Due(e)
      BY <1>1, <1>3, <2>3 DEF LeaseLost, Due, relayVars
    <3> QED
      BY <1>1, <2>1, <3>1, QuietCounts
  <2> QED
    BY <2>2, <2>3
<1>4. ASSUME NEW r \in Relays, TryLock(r) \/ TryLockReplyLost(r) PROVE Counts(e)'
  <2>1. Due(e)' \subseteq Due(e) /\ ~KeyedHas(e)
    BY <1>1, <1>4 DEF TryLock, TryLockReplyLost, Due, KeyedHas, Goto, relayVars, TypeOK
  <2>2. status' = status /\ stream' = stream /\ RelayFaults' \in {RelayFaults, RelayFaults + 1}
    BY <1>1, <1>4, FaultsAdd DEF TryLock, TryLockReplyLost, rowVars, FaultKinds
  <2>3. Open(e)' => Open(e)
    BY <2>1, <2>2 DEF Open
  <2> QED
    BY <1>1, <2>1, <2>2, <2>3, QuietCounts
<1>5. ASSUME NEW r \in Relays, Unlock(r) PROVE Counts(e)'
  <2>1. Due(e)' \subseteq Due(e)
    BY <1>1, <1>5 DEF Unlock, Due, Goto, TypeOK
  <2>2. KeyedHas(e) => KeyedHas(e)'
    BY <1>1, <1>5 DEF Unlock, KeyedHas, AwayHoldNothing
  <2>3. status' = status /\ stream' = stream /\ RelayFaults' = RelayFaults
    BY <1>1, <1>5, FaultsAdd DEF Unlock, rowVars
  <2>4. Open(e)' => Open(e)
    BY <2>2, <2>3 DEF Open
  <2> QED
    BY <1>1, <2>1, <2>3, <2>4, QuietCounts
<1>6. ASSUME NEW r \in Relays, UnlockError(r) \/ GetPendingEventsError(r) \/ Crash(r)
      PROVE  Counts(e)'
  <2>1. Due(e)' \subseteq Due(e)
    BY <1>1, <1>6 DEF UnlockError, GetPendingEventsError, Crash, Due, Goto, TypeOK, AwayHoldNothing
  <2>2. stream' = stream /\ RelayFaults' = RelayFaults + 1
    BY <1>1, <1>6, FaultsAdd DEF UnlockError, GetPendingEventsError, Crash, FaultKinds
  <2> QED
    BY <1>1, <2>1, <2>2, QuietCounts
<1> QED
  BY <1>2, <1>3, <1>4, <1>5, <1>6

\* GetPendingEvents: the holder of the key takes a row that is paid for; a relay
\* that lost its key was counted when it lost it.
LEMMA FetchCounts ==
    ASSUME IInv, TypeOK', AwayHoldNothing, NEW e \in Events, Counts(e),
           NEW r \in Relays, GetPendingEvents(r)
    PROVE  Counts(e)'
<1>1. TypeOK /\ pc[r] = "fetch" /\ batch[r] = {} /\ cur[r] = {}
  BY DEF IInv, GetPendingEvents, AwayHoldNothing
<1>2. PICK b \in PendingBatches : /\ batch' = [batch EXCEPT ![r] = b]
                                  /\ Goto(r, IF b = {} THEN "unlock" ELSE "publish")
  BY DEF GetPendingEvents
<1>3. /\ status' = status /\ stream' = stream /\ cur' = cur /\ lock' = lock
      /\ RelayFaults' = RelayFaults
  BY <1>1, FaultsAdd DEF GetPendingEvents, rowVars
<1>4. /\ batch'[r] = b /\ pc'[r] \in {"unlock", "publish"}
      /\ \A q \in Relays \ {r} : batch'[q] = batch[q] /\ pc'[q] = pc[q]
  BY <1>1, <1>2 DEF Goto, TypeOK
<1>5. e \in b => status[e] = "pending"
  BY DEF PendingBatches, Eligible
<1>6. CASE e \in b /\ lock = r
  <2>1. ~KeyedHas(e) /\ KeyedHas(e)'
    BY <1>1, <1>3, <1>4, <1>6 DEF KeyedHas
  <2>2. Open(e) /\ ~Open(e)'
    BY <1>5, <1>6, <2>1 DEF Open
  <2>3. Due(e)' \subseteq Due(e) \cup {r}
    BY <1>3, <1>4 DEF Due
  <2>4. Copies(e)' = Copies(e)
    BY <1>3 DEF Copies
  <2>5. /\ Cardinality(Copies(e)) \in Nat /\ Cardinality(Due(e)) \in Nat
        /\ IsFiniteSet(Due(e)) /\ Cardinality(Due(e)') \in Nat
    BY <1>1, CountsAreNatural, CountsAreNaturalThen
  <2>6. Cardinality(Due(e)') <= Cardinality(Due(e)) + 1
    BY <2>3, <2>5, SetsCount
  <2>7. Cardinality(Copies(e)') = Cardinality(Copies(e))
    BY <2>4
  <2>8. Cardinality(Copies(e)') + Cardinality(Due(e)')
          <= Cardinality(Copies(e)) + Cardinality(Due(e)) + 1
    BY <2>5, <2>6, <2>7
  <2> QED
    BY <1>1, <1>3, <2>2, <2>8, CountsFollow
<1>7. CASE ~(e \in b /\ lock = r)
  <2>1. Due(e)' \subseteq Due(e)
    BY <1>1, <1>3, <1>4, <1>7 DEF Due
  <2>2. KeyedHas(e) => KeyedHas(e)'
    BY <1>1, <1>3, <1>4 DEF KeyedHas
  <2>3. Open(e)' => Open(e)
    BY <1>3, <2>2 DEF Open
  <2> QED
    BY <1>1, <1>3, <2>1, <2>3, QuietCounts
<1> QED
  BY <1>6, <1>7

\* XADD turns a copy that was due into one that is there; one that fails is a fault.
LEMMA PublishCounts ==
    ASSUME IInv, TypeOK', AwayHoldNothing, NEW e \in Events, Counts(e),
           NEW r \in Relays, Publish(r) \/ PublishError(r)
    PROVE  Counts(e)'
<1>1. TypeOK /\ pc[r] = "publish" /\ cur[r] = {}
  BY DEF IInv, Publish, PublishError, AwayHoldNothing
<1>2. PICK x \in batch[r] : /\ Take(r, x)
                            /\ \/ stream' = Append(stream, x)
                               \/ PublishError(r) /\ stream' = stream
  BY DEF Publish, PublishError, Oldest
<1>3. x \in Events
  BY <1>1 DEF TypeOK
<1>4. /\ batch'[r] = batch[r] \ {x} /\ cur'[r] = {x}
      /\ \A q \in Relays \ {r} : batch'[q] = batch[q] /\ cur'[q] = cur[q] /\ pc'[q] = pc[q]
  BY <1>1, <1>2 DEF Take, TypeOK, Publish, PublishError, Goto
<1>5. status' = status /\ lock' = lock
  BY DEF Publish, PublishError, rowVars
<1>6. KeyedHas(e) => KeyedHas(e)'
  BY <1>1, <1>4, <1>5 DEF KeyedHas
<1>7. Open(e)' => Open(e)
  BY <1>5, <1>6 DEF Open
<1>8. /\ Cardinality(Copies(e)) \in Nat /\ Cardinality(Due(e)) \in Nat /\ RelayFaults \in Nat
      /\ IsFiniteSet(Due(e)) /\ Cardinality(Due(e)') \in Nat /\ Cardinality(Copies(e)') \in Nat
  BY <1>1, CountsAreNatural, CountsAreNaturalThen
<1>9. CASE stream' = stream \/ x # e
  <2>1. Copies(e)' = Copies(e)
    <3>1. stream' = stream => Copies(e)' = Copies(e)
      BY DEF Copies
    <3> QED
      BY <1>1, <1>2, <1>3, <1>9, <3>1, CopiesGrow
  <2>2. Due(e)' \subseteq Due(e)
    <3>1. pc'[r] \in {"markPublished", "markFailed"}
      BY <1>1 DEF Publish, PublishError, Goto, TypeOK
    <3> QED
      BY <1>2, <1>4, <1>5, <3>1 DEF Due
  <2>3. RelayFaults' \in {RelayFaults, RelayFaults + 1}
    <3>1. CASE Publish(r)
      <4>1. NoFault
        BY <3>1 DEF Publish
      <4> QED
        BY <1>1, <4>1, FaultsAdd
    <3>2. CASE PublishError(r)
      <4>1. Fault("redis") /\ "redis" \in FaultKinds
        BY <3>2 DEF PublishError, FaultKinds
      <4> QED
        BY <1>1, <4>1, FaultsAdd
    <3> QED
      BY <3>1, <3>2
  <2>4. Cardinality(Due(e)') <= Cardinality(Due(e)) /\ Cardinality(Copies(e)') = Cardinality(Copies(e))
    BY <1>8, <2>1, <2>2, SetsCount
  <2>5. Cardinality(Copies(e)') + Cardinality(Due(e)') + RelayFaults
          <= Cardinality(Copies(e)) + Cardinality(Due(e)) + RelayFaults'
    BY <1>8, <2>3, <2>4
  <2> QED
    BY <1>1, <1>7, <2>5, CountsFollow
<1>10. CASE stream' = Append(stream, x) /\ x = e
  <2>1. Cardinality(Copies(e)') <= Cardinality(Copies(e)) + 1
    BY <1>1, <1>3, <1>10, CopiesGrow
  <2>2. CASE Publish(r)
    <3>1. pc'[r] = "markPublished" /\ RelayFaults' = RelayFaults
      BY <1>1, <2>2, FaultsAdd DEF Publish, Goto, TypeOK
    <3>2. r \in Due(e) /\ Due(e)' \subseteq Due(e) \ {r}
      BY <1>2, <1>4, <1>5, <1>10, <3>1 DEF Due
    <3>3. Cardinality(Due(e)') + 1 <= Cardinality(Due(e))
      BY <1>8, <3>2, SetsCount
    <3>4. Cardinality(Copies(e)') + Cardinality(Due(e)') + RelayFaults
            <= Cardinality(Copies(e)) + Cardinality(Due(e)) + RelayFaults'
      BY <1>8, <2>1, <3>1, <3>3
    <3> QED
      BY <1>1, <1>7, <3>4, CountsFollow
  <2>3. CASE PublishError(r)
    <3>1. RelayFaults' = RelayFaults + 1
      BY <1>1, <2>3, FaultsAdd DEF PublishError, FaultKinds
    <3>2. Due(e)' \subseteq Due(e)
      BY <1>2, <1>4, <1>5, <1>10 DEF Due
    <3>3. Cardinality(Due(e)') <= Cardinality(Due(e))
      BY <1>8, <3>2, SetsCount
    <3>4. Cardinality(Copies(e)') + Cardinality(Due(e)') + RelayFaults
            <= Cardinality(Copies(e)) + Cardinality(Due(e)) + RelayFaults'
      BY <1>8, <2>1, <3>1, <3>3
    <3> QED
      BY <1>1, <1>7, <3>4, CountsFollow
  <2> QED
    BY <2>2, <2>3
<1> QED
  BY <1>2, <1>9, <1>10

\* A mark that is written settles the row or uses up the attempt that was counted.
LEMMA MarkCounts ==
    ASSUME IInv, TypeOK', AwayHoldNothing, NEW e \in Events, Counts(e),
           NEW r \in Relays, MarkAsPublished(r) \/ MarkAsFailed(r) \/ MarkError(r)
    PROVE  Counts(e)'
<1>1. TypeOK /\ pc[r] \in {"markPublished", "markFailed"}
  BY DEF IInv, MarkAsPublished, MarkAsFailed, MarkError
<1>2. /\ cur'[r] = {} /\ pc'[r] \in {"unlock", "publish"} /\ batch' = batch /\ lock' = lock
      /\ stream' = stream
      /\ \A q \in Relays \ {r} : cur'[q] = cur[q] /\ pc'[q] = pc[q]
  BY <1>1 DEF MarkAsPublished, MarkAsFailed, MarkError, NextRow, Goto, TypeOK
<1>3. Due(e)' \subseteq Due(e)
  BY <1>2 DEF Due
<1>4. CASE MarkError(r)
  <2>1. RelayFaults' = RelayFaults + 1
    BY <1>1, <1>4, FaultsAdd DEF MarkError, FaultKinds
  <2> QED
    BY <1>1, <1>2, <1>3, <2>1, QuietCounts
<1>5. CASE MarkAsPublished(r) \/ MarkAsFailed(r)
  <2>1. RelayFaults' = RelayFaults
    BY <1>1, <1>5, FaultsAdd DEF MarkAsPublished, MarkAsFailed
  <2>2. CASE e \notin cur[r]
    <3>1. status'[e] = status[e]
      BY <1>1, <1>5, <2>2 DEF MarkAsPublished, MarkAsFailed, Marked, TypeOK
    <3>2. KeyedHas(e) => KeyedHas(e)'
      BY <1>2, <2>2 DEF KeyedHas
    <3>3. Open(e)' => Open(e)
      BY <3>1, <3>2 DEF Open
    <3> QED
      BY <1>1, <1>2, <1>3, <2>1, <3>3, QuietCounts
  <2>3. CASE e \in cur[r] /\ MarkAsPublished(r)
    <3>1. ~Open(e)'
      BY <1>1, <2>3 DEF MarkAsPublished, Marked, TypeOK, Open
    <3> QED
      BY <1>1, <1>2, <1>3, <2>1, <3>1, QuietCounts
  <2>4. CASE e \in cur[r] /\ MarkAsFailed(r)
    <3>1. r \in Due(e) /\ Due(e)' \subseteq Due(e) \ {r}
      BY <1>2, <2>4 DEF Due, MarkAsFailed, AwayHoldNothing
    <3> QED
      BY <1>1, <1>2, <1>3, <2>1, <3>1, QuietCounts
  <2> QED
    BY <1>5, <2>2, <2>3, <2>4
<1> QED
  BY <1>4, <1>5

LEMMA CountsStep ==
    ASSUME IInv, AwayHoldNothing, CopiesArePaid, [Next]_vars
    PROVE  CopiesArePaid'
<1> SUFFICES ASSUME LockEnabled, NEW e \in Events, Counts(e) PROVE Counts(e)'
  BY DEF CopiesArePaid
<1>1. TypeOK'
  BY TypeStep DEF IInv
<1>2. ASSUME NEW r \in Relays, RelayStep(r) \/ RelayFault(r) PROVE Counts(e)'
  <2>1. \/ \/ TryLock(r) \/ TryLockReplyLost(r) \/ Unlock(r) \/ UnlockError(r)
           \/ GetPendingEventsError(r) \/ Crash(r)
        \/ GetPendingEvents(r)
        \/ Publish(r) \/ PublishError(r)
        \/ MarkAsPublished(r) \/ MarkAsFailed(r) \/ MarkError(r)
    BY <1>2 DEF RelayStep, RelayFault
  <2> QED
    BY <1>1, <2>1, KeyCounts, FetchCounts, PublishCounts, MarkCounts
<1>3. CASE LockTimeout \/ LeaseLost
  BY <1>1, <1>3, KeyCounts
<1>4. CASE \/ Tick \/ DeletePublishedBefore \/ DeleteFailedBefore \/ UNCHANGED vars
           \/ \E x \in Events : CreateInTx(x) \/ Commit(x) \/ Rollback(x)
  BY <1>1, <1>4, BusinessCounts
<1> QED
  BY <1>2, <1>3, <1>4 DEF Next

LEMMA CountsInit ==
    ASSUME Init
    PROVE  AwayHoldNothing /\ CopiesArePaid
<1>1. AwayHoldNothing
  BY DEF Init, AwayHoldNothing
<1>2. ASSUME NEW e \in Events PROVE Counts(e)
  <2>1. Copies(e) = {} /\ Due(e) = {}
    BY DEF Init, Copies, Due
  <2>2. RelayFaults = 0
    BY DEF Init, RelayFaults, FaultKinds
  <2> QED
    BY <2>1, <2>2, FS_EmptySet DEF Counts
<1> QED
  BY <1>1, <1>2 DEF CopiesArePaid

-----------------------------------------------------------------------------
(* The consumers: every entry is handed to one of them, once                    *)

\* Nothing below the cursor is handed out again, and what is handed out is in the
\* hands of one consumer, or has been.
HandedOutOnce ==
    /\ cursor \in Nat /\ cursor <= Len(stream)
    /\ next \in [Consumers -> Nat] /\ last \in [Consumers -> Nat]
    /\ \A c \in Consumers : next[c] >= 1 /\ last[c] <= cursor
    /\ \A c, d \in Consumers : c # d => Group!InHand(c) \cap Group!InHand(d) = {}
    /\ handlerLog \in Seq(Consumers \X Nat)
    /\ \A i \in DOMAIN handlerLog :
         /\ handlerLog[i][2] >= 1 /\ handlerLog[i][2] <= cursor
         /\ \A c \in Consumers : handlerLog[i][2] \notin Group!InHand(c)
    /\ Group!EntryHandledAtMostOnce

\* XREADGROUP hands out a piece of the stream right behind the cursor.
LEMMA DeliverIs ==
    ASSUME stream \in Seq(Events), cursor \in Nat, cursor <= Len(stream), Group!Deliver
    PROVE  /\ Group!LastNew \in Nat /\ Group!LastNew > cursor /\ Group!LastNew <= Len(stream)
           /\ cursor' = Group!LastNew
<1>1. Len(stream) \in Nat /\ ReadCount \in Nat
  BY GroupAssumption
<1>2. PICK m : m = Group!LastNew
  OBVIOUS
<1>3. m \in Nat /\ m <= Len(stream)
  BY <1>1, <1>2 DEF Group!LastNew
<1>4. (cursor + 1)..m # {} /\ cursor' = m
  BY <1>2 DEF Group!NewEntries, Group!Deliver
<1> QED
  BY <1>2, <1>3, <1>4

LEMMA HandedOutStep ==
    ASSUME stream \in Seq(Events), HandedOutOnce, Group!GroupNext
    PROVE  HandedOutOnce'
<1>1. PICK c \in Consumers : Group!ConsumerStep(c) \/ Group!ConsumerFault(c)
  BY DEF Group!GroupNext
<1> USE DEF Group!InHand
<1>2. CASE Group!XReadGroup(c)
  <2> HIDE DEF Group!InHand
  <2>1. PICK m \in Nat : /\ m > cursor /\ m <= Len(stream) /\ cursor' = m
                         /\ next' = [next EXCEPT ![c] = cursor + 1] /\ last' = [last EXCEPT ![c] = m]
    BY <1>2, DeliverIs DEF Group!XReadGroup, HandedOutOnce
  <2> USE DEF Group!InHand
  <2>2. UNCHANGED <<stream, handlerLog>>
    BY <1>2 DEF Group!XReadGroup
  <2>3. next'[c] = cursor + 1 /\ last'[c] = m
        /\ \A d \in Consumers \ {c} : next'[d] = next[d] /\ last'[d] = last[d]
    BY <2>1 DEF HandedOutOnce
  <2>4. Group!EntryHandledAtMostOnce'
    BY <2>2 DEF HandedOutOnce, Group!EntryHandledAtMostOnce
  <2>5. next' \in [Consumers -> Nat] /\ last' \in [Consumers -> Nat]
    BY <2>1 DEF HandedOutOnce
  <2>6. \A d \in Consumers : next'[d] >= 1 /\ last'[d] <= cursor'
    BY <2>1, <2>3, <2>5 DEF HandedOutOnce
  <2>7. ASSUME NEW d \in Consumers, NEW x \in Consumers, d # x
        PROVE  (next'[d]..last'[d]) \cap (next'[x]..last'[x]) = {}
    <3>1. \A y \in Consumers : last[y] \in Nat /\ next[y] \in Nat /\ last[y] <= cursor
      BY DEF HandedOutOnce
    <3>2. CASE d # c /\ x # c
      BY <2>3, <2>7, <3>2 DEF HandedOutOnce
    <3>3. CASE d = c
      BY <2>1, <2>3, <2>7, <3>1, <3>3 DEF HandedOutOnce
    <3>4. CASE x = c
      BY <2>1, <2>3, <2>7, <3>1, <3>4 DEF HandedOutOnce
    <3> QED
      BY <3>2, <3>3, <3>4
  <2>8. ASSUME NEW i \in DOMAIN handlerLog, NEW d \in Consumers
        PROVE  handlerLog[i][2] >= 1 /\ handlerLog[i][2] <= cursor'
               /\ handlerLog[i][2] \notin next'[d]..last'[d]
    <3>1. /\ handlerLog[i][2] \in Nat /\ handlerLog[i][2] >= 1 /\ handlerLog[i][2] <= cursor
          /\ handlerLog[i][2] \notin next[d]..last[d] /\ cursor \in Nat
      BY DEF HandedOutOnce
    <3> QED
      BY <2>1, <2>3, <3>1
  <2>9. \A d, x \in Consumers : d # x => Group!InHand(d)' \cap Group!InHand(x)' = {}
    BY <2>7
  <2>10. \A i \in DOMAIN handlerLog' :
           /\ handlerLog'[i][2] >= 1 /\ handlerLog'[i][2] <= cursor'
           /\ \A d \in Consumers : handlerLog'[i][2] \notin Group!InHand(d)'
    BY <1>1, <2>2, <2>8
  <2> QED
    BY <2>1, <2>2, <2>4, <2>5, <2>6, <2>9, <2>10 DEF HandedOutOnce
<1>3. CASE Group!Handle(c)
  <2>1. PICK n : n = next[c] OBVIOUS
  <2>2. /\ n \in Nat /\ n >= 1 /\ n <= last[c] /\ last[c] <= cursor /\ last[c] \in Nat /\ cursor \in Nat
        /\ handlerLog' = Append(handlerLog, <<c, n>>) /\ next' = [next EXCEPT ![c] = n + 1]
        /\ UNCHANGED <<stream, cursor, last>>
    BY <1>3, <2>1 DEF Group!Handle, HandedOutOnce
  <2>3. PICK k : k = Len(handlerLog) OBVIOUS
  <2>4. /\ k \in Nat /\ DOMAIN handlerLog = 1..k /\ DOMAIN handlerLog' = 1..(k + 1)
        /\ handlerLog'[k + 1] = <<c, n>> /\ \A i \in 1..k : handlerLog'[i] = handlerLog[i]
        /\ handlerLog' \in Seq(Consumers \X Nat)
    BY <2>2, <2>3 DEF HandedOutOnce
  <2>5. /\ next' \in [Consumers -> Nat] /\ next'[c] = n + 1
        /\ \A d \in Consumers \ {c} : next'[d] = next[d]
    BY <2>2 DEF HandedOutOnce
  <2>6. \A d \in Consumers : /\ Group!InHand(d)' \subseteq Group!InHand(d)
                             /\ n \notin Group!InHand(d)'
    <3>1. ASSUME NEW d \in Consumers
          PROVE  next'[d]..last'[d] \subseteq next[d]..last[d] /\ n \notin next'[d]..last'[d]
      <4>1. next[d] \in Nat /\ last[d] \in Nat
        BY DEF HandedOutOnce
      <4>2. CASE d = c
        BY <2>1, <2>2, <2>5, <4>1, <4>2
      <4>3. CASE d # c
        <5>1. n \in next[c]..last[c]
          BY <2>1, <2>2
        <5>2. n \notin next[d]..last[d]
          BY <4>3, <5>1 DEF HandedOutOnce
        <5> QED
          BY <2>2, <2>5, <4>3, <5>2
      <4> QED
        BY <4>2, <4>3
    <3> QED
      BY <3>1
  <2>7. \A d, x \in Consumers : d # x => Group!InHand(d)' \cap Group!InHand(x)' = {}
    <3>1. \A d, x \in Consumers : d # x => Group!InHand(d) \cap Group!InHand(x) = {}
      BY DEF HandedOutOnce
    <3> HIDE DEF Group!InHand
    <3> QED
      BY <2>6, <3>1
  <2>8. \A i \in 1..k : /\ handlerLog[i][2] >= 1 /\ handlerLog[i][2] <= cursor
                        /\ handlerLog[i][2] # n
                        /\ \A d \in Consumers : handlerLog[i][2] \notin Group!InHand(d)'
    <3>1. \A i \in 1..k : /\ handlerLog[i][2] >= 1 /\ handlerLog[i][2] <= cursor
                          /\ \A d \in Consumers : handlerLog[i][2] \notin Group!InHand(d)
      BY <2>4 DEF HandedOutOnce
    <3>2. n \in Group!InHand(c)
      BY <2>1, <2>2
    <3> HIDE DEF Group!InHand
    <3> QED
      BY <2>6, <3>1, <3>2
  <2>9. \A i \in 1..(k + 1) : i \in 1..k \/ i = k + 1
    BY <2>4
  <2>10. \A i \in DOMAIN handlerLog' :
           /\ handlerLog'[i][2] >= 1 /\ handlerLog'[i][2] <= cursor'
           /\ \A d \in Consumers : handlerLog'[i][2] \notin Group!InHand(d)'
    <3> HIDE DEF Group!InHand
    <3> QED
      BY <2>2, <2>4, <2>6, <2>8, <2>9
  <2>11. Group!EntryHandledAtMostOnce'
    <3>1. \A i, j \in 1..k : handlerLog[i][2] = handlerLog[j][2] => i = j
      BY <2>4 DEF HandedOutOnce, Group!EntryHandledAtMostOnce
    <3> QED
      BY <2>4, <2>8, <2>9, <3>1 DEF Group!EntryHandledAtMostOnce
  <2>12. \A d \in Consumers : next'[d] >= 1 /\ last'[d] <= cursor'
    BY <2>2, <2>5 DEF HandedOutOnce
  <2> QED
    BY <2>2, <2>4, <2>5, <2>7, <2>10, <2>11, <2>12 DEF HandedOutOnce
<1>4. CASE Group!HandleError(c) \/ Group!CrashConsumer(c)
  <2>1. /\ UNCHANGED <<stream, cursor, last, handlerLog>>
        /\ next' \in [Consumers -> Nat] /\ next'[c] \in {next[c] + 1, last[c] + 1}
        /\ \A d \in Consumers \ {c} : next'[d] = next[d]
    <3>1. CASE Group!HandleError(c)
      BY <3>1 DEF Group!HandleError, HandedOutOnce
    <3>2. CASE Group!CrashConsumer(c)
      BY <3>2 DEF Group!CrashConsumer, HandedOutOnce
    <3> QED
      BY <1>4, <3>1, <3>2
  <2>2. ASSUME NEW d \in Consumers
        PROVE  next'[d]..last'[d] \subseteq next[d]..last[d] /\ next'[d] >= 1
    <3>1. next[d] \in Nat /\ last[d] \in Nat /\ next[d] >= 1
      BY DEF HandedOutOnce
    <3>2. CASE d = c
      BY <2>1, <3>1, <3>2
    <3>3. CASE d # c
      BY <2>1, <3>1, <3>3
    <3> QED
      BY <3>2, <3>3
  <2>4. \A d \in Consumers : Group!InHand(d)' \subseteq Group!InHand(d) /\ next'[d] >= 1
    BY <2>2
  <2>3. Group!EntryHandledAtMostOnce'
    BY <2>1 DEF HandedOutOnce, Group!EntryHandledAtMostOnce
  <2> HIDE DEF Group!InHand
  <2>5. \A d, x \in Consumers : d # x => Group!InHand(d)' \cap Group!InHand(x)' = {}
    <3>1. \A d, x \in Consumers : d # x => Group!InHand(d) \cap Group!InHand(x) = {}
      BY DEF HandedOutOnce
    <3> QED
      BY <2>4, <3>1
  <2>6. \A i \in DOMAIN handlerLog' :
          /\ handlerLog'[i][2] >= 1 /\ handlerLog'[i][2] <= cursor'
          /\ \A d \in Consumers : handlerLog'[i][2] \notin Group!InHand(d)'
    <3>1. handlerLog' = handlerLog /\ cursor' = cursor
      BY <2>1
    <3>2. ASSUME NEW i \in DOMAIN handlerLog
          PROVE  /\ handlerLog[i][2] >= 1 /\ handlerLog[i][2] <= cursor
                 /\ \A d \in Consumers : handlerLog[i][2] \notin Group!InHand(d)'
      BY <2>4 DEF HandedOutOnce
    <3> QED
      BY <3>1, <3>2
  <2> QED
    BY <2>1, <2>3, <2>4, <2>5, <2>6 DEF HandedOutOnce
<1>5. CASE Group!XReadGroupReplyLost(c)
  <2>1. PICK m \in Nat : m > cursor /\ m <= Len(stream) /\ cursor' = m
    BY <1>5, DeliverIs DEF Group!XReadGroupReplyLost, HandedOutOnce
  <2>2. UNCHANGED <<stream, next, last, handlerLog>>
    BY <1>5 DEF Group!XReadGroupReplyLost
  <2>3. Group!EntryHandledAtMostOnce'
    BY <2>2 DEF HandedOutOnce, Group!EntryHandledAtMostOnce
  <2>4. \A d \in Consumers : next'[d] >= 1 /\ last'[d] <= cursor'
    BY <2>1, <2>2 DEF HandedOutOnce
  <2>5. \A i \in DOMAIN handlerLog : handlerLog[i][2] >= 1 /\ handlerLog[i][2] <= cursor'
    <3>1. \A i \in DOMAIN handlerLog : handlerLog[i][2] \in Nat /\ cursor \in Nat
                                       /\ handlerLog[i][2] >= 1 /\ handlerLog[i][2] <= cursor
      BY DEF HandedOutOnce
    <3> QED
      BY <2>1, <3>1
  <2> QED
    BY <2>1, <2>2, <2>3, <2>4, <2>5 DEF HandedOutOnce
<1>6. CASE \/ Group!XAck(c) \/ Group!XAckError(c)
           \/ Group!CreateGroup(c) \/ Group!CreateGroupError(c)
  <2>1. UNCHANGED <<stream, cursor, next, last, handlerLog>>
    BY <1>6 DEF Group!XAck, Group!XAckError, Group!CreateGroup, Group!CreateGroupError
  <2> QED
    BY <2>1 DEF HandedOutOnce, Group!EntryHandledAtMostOnce
<1> QED
  BY <1>1, <1>2, <1>3, <1>4, <1>5, <1>6 DEF Group!ConsumerStep, Group!ConsumerFault

\* A step of the relay side leaves the stream as it is or appends to it.
LEMMA StreamGrows ==
    ASSUME stream \in Seq(Events), TypeOK, Next
    PROVE  stream' = stream \/ \E e \in Events : stream' = Append(stream, e)
<1>1. CASE \/ Tick \/ LockTimeout \/ LeaseLost \/ DeletePublishedBefore \/ DeleteFailedBefore
           \/ \E e \in Events : CreateInTx(e) \/ Commit(e) \/ Rollback(e)
  BY <1>1 DEF Tick, LockTimeout, LeaseLost, DeletePublishedBefore, DeleteFailedBefore, Purge,
     CreateInTx, Commit, Rollback, EndTx
<1>2. ASSUME NEW r \in Relays, RelayStep(r) \/ RelayFault(r)
      PROVE  stream' = stream \/ \E e \in Events : stream' = Append(stream, e)
  <2>1. CASE Publish(r) \/ PublishError(r)
    BY <2>1 DEF Publish, PublishError, Oldest, TypeOK
  <2>2. CASE ~(Publish(r) \/ PublishError(r))
    BY <1>2, <2>2 DEF RelayStep, RelayFault, TryLock, TryLockReplyLost, Unlock, UnlockError,
       GetPendingEvents, GetPendingEventsError, MarkAsPublished, MarkAsFailed, MarkError, Crash
  <2> QED
    BY <2>1, <2>2
<1> QED
  BY <1>1, <1>2 DEF Next

\* XADD only appends: what was handed out stays handed out.
LEMMA HandedOutGrows ==
    ASSUME stream \in Seq(Events), HandedOutOnce, UNCHANGED groupVars,
           Len(stream) <= Len(stream'), Len(stream') \in Nat
    PROVE  HandedOutOnce'
<1>1. UNCHANGED <<cursor, next, last, handlerLog>>
  BY DEF groupVars
<1>2. cursor \in Nat /\ cursor <= Len(stream) /\ Len(stream) \in Nat
  BY DEF HandedOutOnce
<1>3. cursor' \in Nat /\ cursor' <= Len(stream')
  BY <1>1, <1>2
<1>4. \A c \in Consumers : Group!InHand(c)' = Group!InHand(c)
  BY <1>1 DEF Group!InHand
<1>5. Group!EntryHandledAtMostOnce'
  BY <1>1 DEF HandedOutOnce, Group!EntryHandledAtMostOnce
<1> QED
  BY <1>1, <1>3, <1>4, <1>5 DEF HandedOutOnce

LEMMA HandedOutInit ==
    ASSUME PipelineInit
    PROVE  HandedOutOnce
<1>1. /\ stream = <<>> /\ cursor = 0 /\ handlerLog = <<>>
      /\ next = [c \in Consumers |-> 1] /\ last = [c \in Consumers |-> 0]
  BY DEF PipelineInit, Init, Group!GroupInit
<1>2. \A c \in Consumers : Group!InHand(c) = {}
  BY <1>1 DEF Group!InHand
<1> QED
  BY <1>1, <1>2 DEF HandedOutOnce, Group!EntryHandledAtMostOnce

\* A handler run of an event is the run of one copy of it.
LEMMA RunsAreCopies ==
    ASSUME TypeOK, HandedOutOnce, NEW e \in Events
    PROVE  Cardinality(HandlerRuns(e)) <= Cardinality(Copies(e))
<1>1. PICK f : f = [i \in HandlerRuns(e) |-> handlerLog[i][2]]
  OBVIOUS
<1>2. ASSUME NEW i \in HandlerRuns(e) PROVE handlerLog[i][2] \in Copies(e)
  <2>1. /\ i \in DOMAIN handlerLog /\ stream[handlerLog[i][2]] = e
        /\ handlerLog[i][2] \in Nat /\ handlerLog[i][2] >= 1 /\ handlerLog[i][2] <= cursor
        /\ cursor \in Nat /\ cursor <= Len(stream) /\ Len(stream) \in Nat
    BY DEF HandlerRuns, HandedOutOnce, TypeOK
  <2>2. handlerLog[i][2] \in 1..Len(stream) /\ DOMAIN stream = 1..Len(stream)
    BY <2>1 DEF TypeOK
  <2> QED
    BY <2>1, <2>2 DEF Copies
<1>3. \A i, j \in HandlerRuns(e) : f[i] = f[j] => i = j
  BY <1>1 DEF HandlerRuns, HandedOutOnce, Group!EntryHandledAtMostOnce
<1>4. f \in Injection(HandlerRuns(e), Copies(e))
  BY <1>1, <1>2, <1>3 DEF Injection, IsInjective
<1> QED
  BY <1>4, CountsAreNatural, FS_Injection DEF ExistsInjection

-----------------------------------------------------------------------------

PipelineInv == IInv /\ AwayHoldNothing /\ CopiesArePaid /\ HandedOutOnce

LEMMA PipelineInvInit == PipelineInit => PipelineInv
  BY IInvInit, CountsInit, HandedOutInit DEF PipelineInit, PipelineInv

LEMMA PipelineInvStep == PipelineInv /\ [PipelineNext]_pipelineVars => PipelineInv'
<1> SUFFICES ASSUME PipelineInv, [PipelineNext]_pipelineVars PROVE PipelineInv'
  OBVIOUS
<1>1. stream \in Seq(Events) /\ TypeOK
  BY DEF PipelineInv, IInv, TypeOK
<1>2. ASSUME [Next]_vars PROVE IInv' /\ AwayHoldNothing' /\ CopiesArePaid'
  BY <1>1, <1>2, IInvStep, AwayStep, CountsStep DEF PipelineInv
<1>3. CASE Next /\ UNCHANGED groupVars
  <2>1. stream' = stream \/ \E e \in Events : stream' = Append(stream, e)
    BY <1>1, <1>3, StreamGrows
  <2>2. Len(stream) <= Len(stream') /\ Len(stream') \in Nat
    BY <1>1, <2>1
  <2>3. HandedOutOnce'
    BY <1>1, <1>3, <2>2, HandedOutGrows DEF PipelineInv
  <2> QED
    BY <1>2, <1>3, <2>3 DEF PipelineInv
<1>4. CASE Group!GroupNext /\ UNCHANGED <<rowVars, now, relayVars, lock, faults>>
  <2>1. stream' = stream
    BY <1>4 DEF Group!GroupNext, Group!ConsumerStep, Group!ConsumerFault, Group!XReadGroup,
       Group!XReadGroupReplyLost, Group!Handle, Group!HandleError, Group!XAck, Group!XAckError,
       Group!CrashConsumer, Group!CreateGroup, Group!CreateGroupError
  <2>2. UNCHANGED vars
    BY <1>4, <2>1 DEF vars, rowVars, relayVars
  <2>3. HandedOutOnce'
    BY <1>1, <1>4, HandedOutStep DEF PipelineInv
  <2> QED
    BY <1>2, <2>2, <2>3 DEF PipelineInv
<1>5. CASE UNCHANGED pipelineVars
  <2>1. UNCHANGED vars /\ UNCHANGED groupVars
    BY <1>5 DEF pipelineVars
  <2>2. stream' = stream
    BY <2>1 DEF vars
  <2>3. HandedOutOnce'
    BY <1>1, <2>1, <2>2, HandedOutGrows DEF PipelineInv
  <2> QED
    BY <1>2, <2>1, <2>3 DEF PipelineInv
<1> QED
  BY <1>3, <1>4, <1>5 DEF PipelineNext

LEMMA PipelineInvHolds == PipelineSpec => []PipelineInv
  BY PipelineInvInit, PipelineInvStep, PTL DEF PipelineSpec

\* With the lock enabled, handlers run for an event at most once more than there
\* were faults on the relay side, and never twice for one stream entry, whatever
\* the consumers suffer: Process publishes a row before it marks it, and the loop
\* of Subscribe reads with ">" only.
THEOREM RepeatsArePaid == PipelineSpec => []RepeatsAreRelayFaults
<1>1. PipelineInv => RepeatsAreRelayFaults
  <2> SUFFICES ASSUME PipelineInv PROVE RepeatsAreRelayFaults
    OBVIOUS
  <2>1. TypeOK /\ Group!EntryHandledAtMostOnce
    BY DEF PipelineInv, IInv, HandedOutOnce
  <2>2. ASSUME LockEnabled, NEW e \in Events
        PROVE  Cardinality(HandlerRuns(e)) <= 1 + RelayFaults
    <3>1. Cardinality(HandlerRuns(e)) <= Cardinality(Copies(e))
      BY <2>1, RunsAreCopies DEF PipelineInv
    <3>2. Cardinality(Copies(e)) + Cardinality(Due(e)) <= RelayFaults + 1
      BY <2>2 DEF PipelineInv, CopiesArePaid, Counts
    <3>3. Cardinality(Copies(e)) \in Nat /\ Cardinality(Due(e)) \in Nat /\ RelayFaults \in Nat
      BY <2>1, CountsAreNatural
    <3>4. Cardinality(HandlerRuns(e)) \in Nat
      <4>1. DOMAIN handlerLog = 1..Len(handlerLog) /\ Len(handlerLog) \in Nat
        BY DEF PipelineInv, HandedOutOnce
      <4>2. IsFiniteSet(DOMAIN handlerLog) /\ HandlerRuns(e) \subseteq DOMAIN handlerLog
        BY <4>1, FS_Interval DEF HandlerRuns
      <4> QED
        BY <4>2, FS_Subset, FS_CardinalityType
    <3> QED
      BY <3>1, <3>2, <3>3, <3>4
  <2>3. RelayFaults = faults["redis"] + faults["db"] + faults["lease"] + faults["crash"]
    BY DEF RelayFaults
  <2>4. \A j \in FaultKinds : faults[j] \in Nat
    BY <2>1 DEF TypeOK
  <2>5. 1 + RelayFaults = 1 + faults["redis"] + faults["db"] + faults["lease"] + faults["crash"]
    BY <2>3, <2>4 DEF FaultKinds
  <2> QED
    BY <2>1, <2>2, <2>5 DEF RepeatsAreRelayFaults
<1> QED
  BY <1>1, PipelineInvHolds, PTL
=============================================================================
