----------------------------- MODULE SSEBrokerProofs -----------------------------
(* What holds of the broker for any number of connections, ids, subjects and     *)
(* events, and for any size of its queues and limits.                            *)
EXTENDS SSEBroker, SequenceTheorems, TLAPS

-----------------------------------------------------------------------------
(* The SSE broker: the inductive invariant.                                    *)

\* A connection that was registered, and one that has not given its id back.
Joined(c) == conn[c].state \in {"open", "closing", "closed"}
Holding(c) == conn[c].state \in {"open", "closing"}

\* A connection that was served has an id and a subject; indexes and snapshots name only such.
JoinedAreNamed ==
    /\ \A c \in Conns : conn[c].state = "served" \/ Joined(c) =>
                            conn[c].id \in ConnIds /\ conn[c].subject \in Subjects
    /\ \A k \in Keys, i \in ConnIds : index[k][i] # Nobody => Joined(index[k][i])
    /\ \A j \in Jobs : \A c \in job[j].left : Joined(c)

\* Histories speak of connections that have not given their id back.
HistoriesAreHeld ==
    /\ \A c \in clashed : Holding(c)
    /\ \A e \in Events : \A c \in due[e] : Holding(c)
    /\ \A e \in Events : job[e].step \in {"idle", "appended"} => due[e] = {}

\* Of two connections with one id each is known to have clashed.
SameIdClashes ==
    \A c, d \in Conns : Holding(c) /\ Holding(d) /\ conn[c].id = conn[d].id =>
                          c = d \/ {c, d} \subseteq clashed

\* The indexes know an open connection of its own.
OwnIsIndexed == \A c \in Conns : Own(c) => \A k \in KeysOf(c) : index[k][conn[c].id] = c

\* The drain is going to close every open connection, or has: nobody registers while it
\* is at work.
DrainHasAll ==
    /\ job["drain"].step # "idle" => draining
    /\ job["drain"].step = "closing" => \A c \in Conns : Own(c) => c \in job["drain"].left
    /\ DrainEndsAll

\* A publish has given its event to an open connection of its snapshot, or is about to, or
\* is going to unregister it as slow.
DueAreServed ==
    \A e \in Events : \A c \in due[e] :
        Own(c) => \/ Received(c, e)
                  \/ job[e].step # "done" /\ (c \in job[e].left \/ conn[c].id \in job[e].slow)

\* A replay was read from the stream as it was, up to the limit.
ReplaysAreWhole ==
    /\ stream \in Seq(Events \cup Range(Past))
    /\ \A c \in Conns :
          /\ conn[c].read <= Len(stream)
          /\ conn[c].state \in {"served", "open"} /\ conn[c].last > 0 =>
               \A i \in (conn[c].last + 1) .. conn[c].read :
                   i <= conn[c].last + ReplayLimit => stream[i] \in got[c] \cup Range(queue[c])

ConnRow == [state : {"idle", "served", "open", "closing", "closed", "refused"},
            id : ConnIds \cup {Nobody}, subject : Subjects \cup {Nobody}, last : Nat, read : Nat]
JobRow == [step : {"idle", "appended", "sending", "closing", "done"},
           left : SUBSET Conns, slow : SUBSET ConnIds, victim : Conns \cup {Nobody}]

\* BrokerTypeOK, with the rows named.
BrokerTyped ==
    /\ conn \in [Conns -> ConnRow] /\ clashed \subseteq Conns
    /\ index \in [Keys -> [ConnIds -> Conns \cup {Nobody}]]
    /\ draining \in BOOLEAN /\ job \in [Jobs -> JobRow]
    /\ due \in [Events -> SUBSET Conns]
    /\ queue \in [Conns -> Seq(Events)] /\ \A c \in Conns : Len(queue[c]) <= QueueCapacity
    /\ got \in [Conns -> SUBSET (Events \cup Range(Past))]

\* The two say the same.
LEMMA BrokerTypes == BrokerTyped <=> BrokerTypeOK
BY ZenonT(30) DEF BrokerTyped, BrokerTypeOK, ConnRow, JobRow

BrokerInv == /\ BrokerTyped /\ JoinedAreNamed /\ HistoriesAreHeld /\ SameIdClashes
             /\ OwnIsIndexed /\ DrainHasAll /\ DueAreServed /\ ReplaysAreWhole

USE BrokerAssumption

\* Closing a connection leaves all but its state.
LEMMA ClosedType ==
    ASSUME BrokerTyped, NEW c \in Conns
    PROVE  /\ Closed(c) \in [Conns -> ConnRow]
           /\ \A d \in Conns : \/ Closed(c)[d] = conn[d]
                               \/ /\ d = c /\ conn[c].state = "open"
                                  /\ Closed(c)[d] = [conn[d] EXCEPT !.state = "closing"]
           /\ Closed(c)[c].state # "open"
<1>1. conn \in [Conns -> ConnRow]
  BY DEF BrokerTyped
<1>2. [conn[c] EXCEPT !.state = "closing"] \in ConnRow
  BY <1>1 DEF ConnRow
<1>3. CASE conn[c].state = "open"
  <2>1. Closed(c) = [conn EXCEPT ![c] = [conn[c] EXCEPT !.state = "closing"]]
    BY <1>1, <1>3 DEF Closed
  <2> QED
    BY <1>1, <1>2, <1>3, <2>1 DEF ConnRow
<1>4. CASE conn[c].state # "open"
  BY <1>1, <1>4 DEF Closed
<1> QED
  BY <1>3, <1>4

\* What is replayed comes from the stream.
LEMMA ReplayType ==
    ASSUME NEW S, stream \in Seq(S), NEW last \in 0 .. Len(stream)
    PROVE  /\ Range(ReplayAfter(last)) \subseteq S
           /\ \A i \in (last + 1) .. Len(stream) :
                i <= last + ReplayLimit => stream[i] \in Range(ReplayAfter(last))
<1> DEFINE n == IF last + ReplayLimit < Len(stream) THEN last + ReplayLimit ELSE Len(stream)
<1>1. ReplayLimit \in Nat /\ n \in Nat /\ last <= n /\ n <= Len(stream)
  OBVIOUS
<1>2. /\ DOMAIN SubSeq(stream, last + 1, n) = 1 .. (n - last)
      /\ \A i \in 1 .. (n - last) : SubSeq(stream, last + 1, n)[i] = stream[last + i]
  BY <1>1, SubSeqProperties
<1>3. ReplayAfter(last) = SubSeq(stream, last + 1, n)
  BY DEF ReplayAfter
<1>4. \A i \in 1 .. (n - last) : stream[last + i] \in S
  BY <1>1
<1> HIDE DEF n
<1>5. Range(ReplayAfter(last)) \subseteq S
  BY <1>2, <1>3, <1>4 DEF Range
<1>6. ASSUME NEW i \in (last + 1) .. Len(stream), i <= last + ReplayLimit
      PROVE  stream[i] \in Range(ReplayAfter(last))
  <2>1. i - last \in 1 .. (n - last) /\ last + (i - last) = i
    BY <1>6 DEF n
  <2> QED
    BY <1>2, <1>3, <2>1 DEF Range
<1> QED
  BY <1>5, <1>6

\* What a queue holds, one event more and one less.
LEMMA QueueHolds ==
    ASSUME NEW s \in Seq(Events), NEW e \in Events
    PROVE  /\ Range(s) \subseteq Events
           /\ Range(Append(s, e)) = Range(s) \cup {e}
           /\ s # <<>> => /\ Tail(s) \in Seq(Events) /\ Head(s) \in Events
                          /\ Len(Tail(s)) = Len(s) - 1
                          /\ Range(s) = Range(Tail(s)) \cup {Head(s)}
<1>1. Range(s) \subseteq Events
  BY DEF Range
<1>2. Range(Append(s, e)) = Range(s) \cup {e}
  <2>1. /\ DOMAIN Append(s, e) = 1 .. (Len(s) + 1) /\ DOMAIN s = 1 .. Len(s)
        /\ \A i \in 1 .. Len(s) : Append(s, e)[i] = s[i]
        /\ Append(s, e)[Len(s) + 1] = e /\ Len(s) \in Nat
    BY AppendProperties
  <2>2. Range(Append(s, e)) \subseteq Range(s) \cup {e}
    BY <2>1 DEF Range
  <2>3. Range(s) \subseteq Range(Append(s, e))
    BY <2>1 DEF Range
  <2>4. e \in Range(Append(s, e))
    BY <2>1 DEF Range
  <2> QED
    BY <2>2, <2>3, <2>4
<1>3. ASSUME s # <<>>
      PROVE  /\ Tail(s) \in Seq(Events) /\ Head(s) \in Events
             /\ Len(Tail(s)) = Len(s) - 1
             /\ Range(s) = Range(Tail(s)) \cup {Head(s)}
  <2>1. /\ Tail(s) \in Seq(Events) /\ Head(s) \in Events /\ Head(s) = s[1]
        /\ Len(Tail(s)) = Len(s) - 1 /\ Len(s) \in Nat \ {0}
        /\ \A i \in 1 .. Len(s) - 1 : Tail(s)[i] = s[i + 1]
    BY <1>3, HeadTailProperties
  <2>2. DOMAIN s = 1 .. Len(s) /\ DOMAIN Tail(s) = 1 .. (Len(s) - 1)
    BY <2>1
  <2>3. ASSUME NEW x \in Range(s) PROVE x \in Range(Tail(s)) \cup {Head(s)}
    <3>1. PICK i \in 1 .. Len(s) : s[i] = x
      BY <2>2 DEF Range
    <3>2. CASE i = 1
      BY <2>1, <3>1, <3>2
    <3>3. CASE i # 1
      <4>1. i - 1 \in 1 .. (Len(s) - 1) /\ (i - 1) + 1 = i
        BY <3>3, <2>1
      <4>2. Tail(s)[i - 1] = x
        BY <2>1, <3>1, <4>1
      <4> QED
        BY <2>2, <4>1, <4>2 DEF Range
    <3> QED
      BY <3>2, <3>3
  <2>4. ASSUME NEW x \in Range(Tail(s)) \cup {Head(s)} PROVE x \in Range(s)
    <3>1. CASE x = Head(s)
      BY <2>1, <2>2, <3>1 DEF Range
    <3>2. CASE x \in Range(Tail(s))
      <4>1. PICK i \in 1 .. (Len(s) - 1) : Tail(s)[i] = x
        BY <2>2, <3>2 DEF Range
      <4>2. s[i + 1] = x /\ i + 1 \in DOMAIN s
        BY <2>1, <2>2, <4>1
      <4> QED
        BY <4>2 DEF Range
    <3> QED
      BY <2>4, <3>1, <3>2
  <2> QED
    BY <2>1, <2>3, <2>4
<1> QED
  BY <1>1, <1>2, <1>3

-----------------------------------------------------------------------------
(* Types.                                                                      *)

\* An index without an id.
LEMMA WithoutIdType ==
    ASSUME index \in [Keys -> [ConnIds -> Conns \cup {Nobody}]], NEW i \in ConnIds
    PROVE  /\ WithoutId(i) \in [Keys -> [ConnIds -> Conns \cup {Nobody}]]
           /\ \A k \in Keys, h \in ConnIds :
                 \/ WithoutId(i)[k][h] = index[k][h]
                 \/ h = i /\ index["all"][i] # Nobody /\ WithoutId(i)[k][h] = Nobody
<1>1. CASE index["all"][i] = Nobody
  BY <1>1 DEF WithoutId
<1>2. CASE index["all"][i] # Nobody
  BY <1>2 DEF WithoutId
<1> QED
  BY <1>1, <1>2

Steps == {"idle", "appended", "sending", "closing", "done"}

\* What a step of job j makes of it; the others stay.
JobIs(j, st, l, sl, v) ==
    /\ job' \in [Jobs -> JobRow]
    /\ job'[j].step = st /\ job'[j].left = l /\ job'[j].slow = sl /\ job'[j].victim = v
    /\ \A k \in Jobs : k # j => job'[k] = job[k]

\* The updates of a job that the actions write, field by field.
LEMMA JobPut ==
    ASSUME job \in [Jobs -> JobRow], NEW j \in Jobs, NEW st \in Steps, NEW l \in SUBSET Conns,
           NEW sl \in SUBSET ConnIds, NEW v \in Conns \cup {Nobody}
    PROVE  /\ job' = [job EXCEPT ![j].step = st]
                => JobIs(j, st, job[j].left, job[j].slow, job[j].victim)
           /\ job' = [job EXCEPT ![j].left = l]
                => JobIs(j, job[j].step, l, job[j].slow, job[j].victim)
           /\ job' = [job EXCEPT ![j].step = st, ![j].left = l]
                => JobIs(j, st, l, job[j].slow, job[j].victim)
           /\ job' = [job EXCEPT ![j].left = l, ![j].slow = sl]
                => JobIs(j, job[j].step, l, sl, job[j].victim)
           /\ job' = [job EXCEPT ![j].left = l, ![j].victim = v]
                => JobIs(j, job[j].step, l, job[j].slow, v)
           /\ job' = [job EXCEPT ![j].step = st, ![j].victim = v]
                => JobIs(j, st, job[j].left, job[j].slow, v)
           /\ job' = [job EXCEPT ![j].step = st, ![j].slow = sl, ![j].victim = v]
                => JobIs(j, st, job[j].left, sl, v)
<1>1. ASSUME job' = [job EXCEPT ![j].step = st]
      PROVE  JobIs(j, st, job[j].left, job[j].slow, job[j].victim)
  <2>1. PICK r : r = [job[j] EXCEPT !.step = st]
    OBVIOUS
  <2>2. /\ r \in JobRow /\ r.step = st /\ r.left = job[j].left
        /\ r.slow = job[j].slow /\ r.victim = job[j].victim
    BY <2>1 DEF JobRow, Steps
  <2>3. job' = [job EXCEPT ![j] = r]
    BY <1>1, <2>1
  <2> QED
    BY <2>2, <2>3 DEF JobIs
<1>2. ASSUME job' = [job EXCEPT ![j].left = l]
      PROVE  JobIs(j, job[j].step, l, job[j].slow, job[j].victim)
  <2>1. PICK r : r = [job[j] EXCEPT !.left = l]
    OBVIOUS
  <2>2. /\ r \in JobRow /\ r.step = job[j].step /\ r.left = l
        /\ r.slow = job[j].slow /\ r.victim = job[j].victim
    BY <2>1 DEF JobRow, Steps
  <2>3. job' = [job EXCEPT ![j] = r]
    BY <1>2, <2>1
  <2> QED
    BY <2>2, <2>3 DEF JobIs
<1>3. ASSUME job' = [job EXCEPT ![j].step = st, ![j].left = l]
      PROVE  JobIs(j, st, l, job[j].slow, job[j].victim)
  <2>1. PICK r : r = [job[j] EXCEPT !.step = st, !.left = l]
    OBVIOUS
  <2>2. /\ r \in JobRow /\ r.step = st /\ r.left = l
        /\ r.slow = job[j].slow /\ r.victim = job[j].victim
    BY <2>1 DEF JobRow, Steps
  <2>3. job' = [job EXCEPT ![j] = r]
    BY <1>3, <2>1
  <2> QED
    BY <2>2, <2>3 DEF JobIs
<1>4. ASSUME job' = [job EXCEPT ![j].left = l, ![j].slow = sl]
      PROVE  JobIs(j, job[j].step, l, sl, job[j].victim)
  <2>1. PICK r : r = [job[j] EXCEPT !.left = l, !.slow = sl]
    OBVIOUS
  <2>2. /\ r \in JobRow /\ r.step = job[j].step /\ r.left = l
        /\ r.slow = sl /\ r.victim = job[j].victim
    BY <2>1 DEF JobRow, Steps
  <2>3. job' = [job EXCEPT ![j] = r]
    BY <1>4, <2>1
  <2> QED
    BY <2>2, <2>3 DEF JobIs
<1>5. ASSUME job' = [job EXCEPT ![j].left = l, ![j].victim = v]
      PROVE  JobIs(j, job[j].step, l, job[j].slow, v)
  <2>1. PICK r : r = [job[j] EXCEPT !.left = l, !.victim = v]
    OBVIOUS
  <2>2. /\ r \in JobRow /\ r.step = job[j].step /\ r.left = l
        /\ r.slow = job[j].slow /\ r.victim = v
    BY <2>1 DEF JobRow, Steps
  <2>3. job' = [job EXCEPT ![j] = r]
    BY <1>5, <2>1
  <2> QED
    BY <2>2, <2>3 DEF JobIs
<1>6. ASSUME job' = [job EXCEPT ![j].step = st, ![j].victim = v]
      PROVE  JobIs(j, st, job[j].left, job[j].slow, v)
  <2>1. PICK r : r = [job[j] EXCEPT !.step = st, !.victim = v]
    OBVIOUS
  <2>2. /\ r \in JobRow /\ r.step = st /\ r.left = job[j].left
        /\ r.slow = job[j].slow /\ r.victim = v
    BY <2>1 DEF JobRow, Steps
  <2>3. job' = [job EXCEPT ![j] = r]
    BY <1>6, <2>1
  <2> QED
    BY <2>2, <2>3 DEF JobIs
<1>7. ASSUME job' = [job EXCEPT ![j].step = st, ![j].slow = sl, ![j].victim = v]
      PROVE  JobIs(j, st, job[j].left, sl, v)
  <2>1. PICK r : r = [job[j] EXCEPT !.step = st, !.slow = sl, !.victim = v]
    OBVIOUS
  <2>2. /\ r \in JobRow /\ r.step = st /\ r.left = job[j].left
        /\ r.slow = sl /\ r.victim = v
    BY <2>1 DEF JobRow, Steps
  <2>3. job' = [job EXCEPT ![j] = r]
    BY <1>7, <2>1
  <2> QED
    BY <2>2, <2>3 DEF JobIs
<1> QED
  BY <1>1, <1>2, <1>3, <1>4, <1>5, <1>6, <1>7

\* What the steps of a publish, of the drain and of a revocation make of their job.
LEMMA JobEffects ==
    ASSUME BrokerTyped, NEW e \in Events
    PROVE  /\ StoreEvent(e) =>
                JobIs(e, "appended", job[e].left, job[e].slow, job[e].victim)
           /\ PublishToChannel(e) =>
                JobIs(e, "sending", {index["channel"][i] : i \in Registered("channel")},
                      job[e].slow, job[e].victim)
           /\ \A i \in ConnIds : Unregister(e, i) =>
                JobIs(e, "closing", job[e].left, job[e].slow \ {i}, index["all"][i])
           /\ CloseSlow(e) => JobIs(e, "sending", job[e].left, job[e].slow, job[e].victim)
           /\ PublishReturns(e) => JobIs(e, "done", job[e].left, job[e].slow, Nobody)
<1>1. job \in [Jobs -> JobRow] /\ index \in [Keys -> [ConnIds -> Conns \cup {Nobody}]]
  BY DEF BrokerTyped
<1>2. e \in Jobs /\ job[e].left \in SUBSET Conns /\ job[e].slow \in SUBSET ConnIds
      /\ {"all", "channel"} \subseteq Keys
  BY <1>1 DEF Jobs, JobRow, Keys
<1>3. "appended" \in Steps /\ "sending" \in Steps /\ "closing" \in Steps /\ "done" \in Steps
  BY DEF Steps
<1>4. ASSUME StoreEvent(e)
      PROVE  JobIs(e, "appended", job[e].left, job[e].slow, job[e].victim)
  BY <1>1, <1>2, <1>3, <1>4, JobPut DEF StoreEvent, JobRow
<1>5. ASSUME PublishToChannel(e)
      PROVE  JobIs(e, "sending", {index["channel"][i] : i \in Registered("channel")},
                   job[e].slow, job[e].victim)
  <2>1. PICK l : l = {index["channel"][i] : i \in Registered("channel")}
    OBVIOUS
  <2>2. l \in SUBSET Conns
    BY <1>1, <1>2, <2>1 DEF Registered
  <2>3. job' = [job EXCEPT ![e].step = "sending", ![e].left = l]
    BY <1>5, <2>1 DEF PublishToChannel
  <2>4. JobIs(e, "sending", l, job[e].slow, job[e].victim)
    BY <1>1, <1>2, <1>3, <2>2, <2>3, JobPut DEF JobRow
  <2> QED
    BY <2>1, <2>4
<1>6. ASSUME NEW i \in ConnIds, Unregister(e, i)
      PROVE  JobIs(e, "closing", job[e].left, job[e].slow \ {i}, index["all"][i])
  <2>1. PICK sl, v : sl = job[e].slow \ {i} /\ v = index["all"][i]
    OBVIOUS
  <2>2. sl \in SUBSET ConnIds /\ v \in Conns \cup {Nobody}
    BY <1>1, <1>2, <2>1
  <2>3. job' = [job EXCEPT ![e].step = "closing", ![e].slow = sl, ![e].victim = v]
    BY <1>6, <2>1, <1>1, <1>2 DEF Unregister
  <2>4. JobIs(e, "closing", job[e].left, sl, v)
    BY <1>1, <1>2, <1>3, <2>2, <2>3, JobPut DEF JobRow
  <2> QED
    BY <2>1, <2>4
<1>7. ASSUME CloseSlow(e)
      PROVE  JobIs(e, "sending", job[e].left, job[e].slow, job[e].victim)
  BY <1>1, <1>2, <1>3, <1>7, JobPut DEF CloseSlow, JobRow
<1>8. ASSUME PublishReturns(e) PROVE JobIs(e, "done", job[e].left, job[e].slow, Nobody)
  BY <1>1, <1>2, <1>3, <1>8, JobPut DEF PublishReturns, JobRow
<1> QED
  BY <1>4, <1>5, <1>6, <1>7, <1>8

\* The same for a snapshot, for the closing of what it holds, and for one Enqueue.
LEMMA CloserEffects ==
    ASSUME BrokerTyped, NEW j \in Jobs
    PROVE  /\ \A k \in Keys : Snapshot(j, k) =>
                JobIs(j, "closing", {index[k][i] : i \in Registered(k)},
                      job[j].slow, job[j].victim)
           /\ CloseNext(j) =>
                \/ \E c \in job[j].left :
                      /\ conn' = Closed(c)
                      /\ JobIs(j, "closing", job[j].left \ {c}, job[j].slow, c)
                \/ /\ job[j].left = {} /\ UNCHANGED conn
                   /\ JobIs(j, "done", job[j].left, job[j].slow, Nobody)
           /\ \A c \in Conns : Enqueue(j, c) =>
                \/ /\ conn[c].state = "open" /\ Len(queue[c]) < QueueCapacity
                   /\ queue' = [queue EXCEPT ![c] = Append(@, j)]
                   /\ JobIs(j, "sending", job[j].left \ {c}, job[j].slow, job[j].victim)
                \/ /\ UNCHANGED queue
                   /\ conn[c].id \in ConnIds =>
                         JobIs(j, "sending", job[j].left \ {c}, job[j].slow \cup {conn[c].id},
                               job[j].victim)
<1>1. job \in [Jobs -> JobRow] /\ index \in [Keys -> [ConnIds -> Conns \cup {Nobody}]]
  BY DEF BrokerTyped
<1>2. /\ job[j].left \in SUBSET Conns /\ job[j].slow \in SUBSET ConnIds
      /\ job[j].victim \in Conns \cup {Nobody}
  BY <1>1 DEF Jobs, JobRow
<1>3. "closing" \in Steps /\ "done" \in Steps
  BY DEF Steps
<1>4. ASSUME NEW k \in Keys, Snapshot(j, k)
      PROVE  JobIs(j, "closing", {index[k][i] : i \in Registered(k)}, job[j].slow, job[j].victim)
  <2>1. PICK l : l = {index[k][i] : i \in Registered(k)}
    OBVIOUS
  <2>2. l \in SUBSET Conns
    BY <1>1, <2>1 DEF Registered
  <2>3. job' = [job EXCEPT ![j].step = "closing", ![j].left = l]
    BY <1>4, <2>1 DEF Snapshot
  <2>4. JobIs(j, "closing", l, job[j].slow, job[j].victim)
    BY <1>1, <1>2, <1>3, <2>2, <2>3, JobPut DEF JobRow
  <2> QED
    BY <2>1, <2>4
<1>5. ASSUME CloseNext(j)
      PROVE  \/ \E c \in job[j].left :
                   /\ conn' = Closed(c)
                   /\ JobIs(j, "closing", job[j].left \ {c}, job[j].slow, c)
             \/ /\ job[j].left = {} /\ UNCHANGED conn
                /\ JobIs(j, "done", job[j].left, job[j].slow, Nobody)
  <2>1. job[j].step = "closing"
    BY <1>5 DEF CloseNext
  <2>2. ASSUME NEW c \in job[j].left, conn' = Closed(c),
               job' = [job EXCEPT ![j].left = @ \ {c}, ![j].victim = c]
        PROVE  JobIs(j, "closing", job[j].left \ {c}, job[j].slow, c)
    <3>1. PICK l : l = job[j].left \ {c}
      OBVIOUS
    <3>2. l \in SUBSET Conns /\ c \in Conns \cup {Nobody}
      BY <1>2, <3>1
    <3>3. job' = [job EXCEPT ![j].left = l, ![j].victim = c]
      BY <2>2, <3>1, <1>1
    <3>4. JobIs(j, job[j].step, l, job[j].slow, c)
      BY <1>1, <1>2, <1>3, <2>1, <3>2, <3>3, JobPut
    <3> QED
      BY <2>1, <3>1, <3>4
  <2>3. ASSUME job' = [job EXCEPT ![j].step = "done", ![j].victim = Nobody]
        PROVE  JobIs(j, "done", job[j].left, job[j].slow, Nobody)
    BY <1>1, <1>2, <1>3, <2>3, JobPut
  <2> QED
    BY <1>5, <2>2, <2>3 DEF CloseNext
<1>6. ASSUME NEW c \in Conns, Enqueue(j, c)
      PROVE  \/ /\ conn[c].state = "open" /\ Len(queue[c]) < QueueCapacity
                /\ queue' = [queue EXCEPT ![c] = Append(@, j)]
                /\ JobIs(j, "sending", job[j].left \ {c}, job[j].slow, job[j].victim)
             \/ /\ UNCHANGED queue
                /\ conn[c].id \in ConnIds =>
                     JobIs(j, "sending", job[j].left \ {c}, job[j].slow \cup {conn[c].id},
                           job[j].victim)
  <2>1. job[j].step = "sending"
    BY <1>6 DEF Enqueue
  <2>2. PICK l, sl : l = job[j].left \ {c} /\ sl = job[j].slow \cup {conn[c].id}
    OBVIOUS
  <2>3. l \in SUBSET Conns
    BY <1>2, <2>2
  <2>4. CASE conn[c].state = "open" /\ Len(queue[c]) < QueueCapacity
    <3>1. job' = [job EXCEPT ![j].left = l] /\ queue' = [queue EXCEPT ![c] = Append(@, j)]
      BY <1>6, <1>1, <2>2, <2>4 DEF Enqueue
    <3>2. JobIs(j, job[j].step, l, job[j].slow, job[j].victim)
      BY <1>1, <1>2, <1>3, <2>3, <3>1, JobPut
    <3> QED
      BY <2>1, <2>2, <2>4, <3>1, <3>2
  <2>5. CASE ~(conn[c].state = "open" /\ Len(queue[c]) < QueueCapacity)
    <3>0. /\ job' = [job EXCEPT ![j].left = @ \ {c}, ![j].slow = @ \cup {conn[c].id}]
          /\ UNCHANGED queue
      BY <1>6, <2>5 DEF Enqueue
    <3>1. job' = [job EXCEPT ![j].left = l, ![j].slow = sl] /\ UNCHANGED queue
      BY <1>1, <2>2, <3>0 DEF JobRow
    <3>2. ASSUME conn[c].id \in ConnIds
          PROVE  JobIs(j, job[j].step, l, sl, job[j].victim)
      <4>1. sl \in SUBSET ConnIds
        BY <1>2, <2>2, <3>2
      <4> QED
        BY <1>1, <1>2, <1>3, <2>1, <2>3, <3>1, <4>1, JobPut DEF Steps
    <3> QED
      BY <2>1, <2>2, <3>1, <3>2
  <2> QED
    BY <2>4, <2>5
<1> QED
  BY <1>4, <1>5, <1>6

-----------------------------------------------------------------------------
(* What the other steps do to the connections.                                 *)

\* What a step makes of connection c; the others stay.
ConnIs(c, st, id, su, la, re) ==
    /\ conn' \in [Conns -> ConnRow]
    /\ conn'[c].state = st /\ conn'[c].id = id /\ conn'[c].subject = su
    /\ conn'[c].last = la /\ conn'[c].read = re
    /\ \A d \in Conns : d # c => conn'[d] = conn[d]

\* Every step that ends with a Close leaves the connections as they are, but for one that
\* is open no longer.
ClosesOnly(c) ==
    /\ conn' \in [Conns -> ConnRow]
    /\ \A d \in Conns : d # c => conn'[d] = conn[d]
    /\ conn'[c].state # "open" /\ conn'[c].id = conn[c].id /\ conn'[c].subject = conn[c].subject
    /\ conn'[c].last = conn[c].last /\ conn'[c].read = conn[c].read
    /\ \/ conn'[c].state = conn[c].state
       \/ conn[c].state = "open" /\ conn'[c].state = "closing"

\* What Serve, Register, OnClose and a Close make of the connections.
LEMMA ConnEffects ==
    ASSUME BrokerTyped, NEW c \in Conns
    PROVE  /\ Serve(c) => \E id \in ConnIds, su \in Subjects, la \in 0 .. Len(stream) :
                /\ stream \in Seq(Events \cup Range(Past)) =>
                        ConnIs(c, "served", id, su, la, Len(stream))
                /\ got' = [got EXCEPT ![c] = IF la = 0 THEN {} ELSE Range(ReplayAfter(la))]
           /\ Register(c) =>
                \/ /\ MayRegister(c) /\ UNCHANGED got
                   /\ ConnIs(c, "open", conn[c].id, conn[c].subject, conn[c].last, conn[c].read)
                \/ /\ ~MayRegister(c) /\ got' = [got EXCEPT ![c] = {}]
                   /\ UNCHANGED <<index, clashed>>
                   /\ ConnIs(c, "refused", Nobody, Nobody, 0, 0)
           /\ OnClose(c) => ConnIs(c, "closed", conn[c].id, conn[c].subject, 0, 0)
           /\ conn' = Closed(c) => ClosesOnly(c)
<1>1. conn \in [Conns -> ConnRow] /\ conn[c] \in ConnRow
  BY DEF BrokerTyped
<1>2. ASSUME Serve(c)
      PROVE  \E id \in ConnIds, su \in Subjects, la \in 0 .. Len(stream) :
                /\ stream \in Seq(Events \cup Range(Past)) =>
                        ConnIs(c, "served", id, su, la, Len(stream))
                /\ got' = [got EXCEPT ![c] = IF la = 0 THEN {} ELSE Range(ReplayAfter(la))]
  <2>1. PICK id \in ConnIds, su \in Subjects, la \in 0 .. Len(stream) :
            /\ conn' = [conn EXCEPT ![c] = [state |-> "served", id |-> id, subject |-> su,
                                            last |-> la, read |-> Len(stream)]]
            /\ got' = [got EXCEPT ![c] = IF la = 0 THEN {} ELSE Range(ReplayAfter(la))]
    BY <1>2 DEF Serve
  <2>2. ASSUME stream \in Seq(Events \cup Range(Past))
        PROVE  ConnIs(c, "served", id, su, la, Len(stream))
    <3>1. Len(stream) \in Nat /\ la \in Nat
      BY <2>2
    <3>2. PICK n : n = Len(stream)
      OBVIOUS
    <3>3. PICK r : r = [state |-> "served", id |-> id, subject |-> su, last |-> la, read |-> n]
      OBVIOUS
    <3>4. /\ r \in ConnRow /\ r.state = "served" /\ r.id = id /\ r.subject = su
          /\ r.last = la /\ r.read = n
      BY <3>1, <3>2, <3>3 DEF ConnRow
    <3>5. conn' = [conn EXCEPT ![c] = r]
      BY <2>1, <3>2, <3>3
    <3>6. ConnIs(c, "served", id, su, la, n)
      BY <1>1, <3>4, <3>5 DEF ConnIs
    <3> QED
      BY <3>2, <3>6
  <2> QED
    BY <2>1, <2>2
<1>3. ASSUME Register(c)
      PROVE  \/ /\ MayRegister(c) /\ UNCHANGED got
                /\ ConnIs(c, "open", conn[c].id, conn[c].subject, conn[c].last, conn[c].read)
             \/ /\ ~MayRegister(c) /\ got' = [got EXCEPT ![c] = {}]
                /\ UNCHANGED <<index, clashed>>
                /\ ConnIs(c, "refused", Nobody, Nobody, 0, 0)
  <2>1. CASE MayRegister(c)
    <3>1. conn' = [conn EXCEPT ![c].state = "open"] /\ UNCHANGED got
      BY <1>3, <2>1 DEF Register
    <3>2. ConnIs(c, "open", conn[c].id, conn[c].subject, conn[c].last, conn[c].read)
      BY <1>1, <3>1 DEF ConnIs, ConnRow
    <3> QED
      BY <2>1, <3>1, <3>2
  <2>2. CASE ~MayRegister(c)
    <3>1. PICK r : r = [state |-> "refused", id |-> Nobody, subject |-> Nobody,
                        last |-> 0, read |-> 0]
      OBVIOUS
    <3>2. /\ r \in ConnRow /\ r.state = "refused" /\ r.id = Nobody /\ r.subject = Nobody
          /\ r.last = 0 /\ r.read = 0
      BY <3>1 DEF ConnRow
    <3>3. /\ conn' = [conn EXCEPT ![c] = r] /\ got' = [got EXCEPT ![c] = {}]
          /\ UNCHANGED <<index, clashed>>
      BY <1>3, <2>2, <3>1 DEF Register
    <3>4. ConnIs(c, "refused", Nobody, Nobody, 0, 0)
      BY <1>1, <3>2, <3>3 DEF ConnIs
    <3> QED
      BY <2>2, <3>3, <3>4
  <2> QED
    BY <2>1, <2>2
<1>4. ASSUME OnClose(c) PROVE ConnIs(c, "closed", conn[c].id, conn[c].subject, 0, 0)
  <2>1. PICK r : r = [[[conn[c] EXCEPT !.state = "closed"] EXCEPT !.last = 0] EXCEPT !.read = 0]
    OBVIOUS
  <2>2. /\ r \in ConnRow /\ r.state = "closed" /\ r.id = conn[c].id
        /\ r.subject = conn[c].subject /\ r.last = 0 /\ r.read = 0
    BY <1>1, <2>1 DEF ConnRow
  <2>3. conn' = [conn EXCEPT ![c] = r]
    BY <1>1, <1>4, <2>1 DEF OnClose
  <2> QED
    BY <1>1, <2>2, <2>3 DEF ConnIs
<1>5. ASSUME conn' = Closed(c) PROVE ClosesOnly(c)
  <2>1. /\ Closed(c) \in [Conns -> ConnRow]
        /\ \A d \in Conns : \/ Closed(c)[d] = conn[d]
                            \/ /\ d = c /\ conn[c].state = "open"
                               /\ Closed(c)[d] = [conn[d] EXCEPT !.state = "closing"]
        /\ Closed(c)[c].state # "open"
    BY ClosedType
  <2>2. CASE conn'[c] = conn[c]
    BY <1>1, <1>5, <2>1, <2>2 DEF ClosesOnly
  <2>3. CASE conn[c].state = "open" /\ conn'[c] = [conn[c] EXCEPT !.state = "closing"]
    BY <1>1, <1>5, <2>1, <2>3 DEF ClosesOnly, ConnRow
  <2> QED
    BY <1>5, <2>1, <2>2, <2>3
<1> QED
  BY <1>2, <1>3, <1>4, <1>5

-----------------------------------------------------------------------------
(* The steps of the jobs that close nothing.                                   *)

\* A connection is its own after a step of a job only if it was before: no event's job
\* gives up a victim.
LEMMA OwnIsNotGained ==
    ASSUME NEW j \in Jobs, NEW st, NEW l, NEW sl, NEW v, JobIs(j, st, l, sl, v),
           UNCHANGED <<conn, clashed>>, j \in Events => job[j].step # "closing",
           NEW c \in Conns, Own(c)'
    PROVE  Own(c)
<1>1. ASSUME NEW e \in Events, job[e].step = "closing", job[e].victim = c PROVE FALSE
  <2>1. e # j /\ e \in Jobs
    BY <1>1 DEF Jobs
  <2>2. job'[e] = job[e]
    BY <2>1 DEF JobIs
  <2> QED
    BY <1>1, <2>2 DEF Own
<1> QED
  BY <1>1 DEF Own

\* What such a step leaves of the invariant when it writes to nobody's index.
LEMMA JobOnly ==
    ASSUME BrokerInv, NEW j \in Jobs, NEW st \in Steps, NEW l, NEW sl, NEW v,
           JobIs(j, st, l, sl, v),
           UNCHANGED <<conn, clashed, index>>, j \in Events => job[j].step # "closing",
           \A c \in l : Joined(c)
    PROVE  JoinedAreNamed' /\ SameIdClashes' /\ OwnIsIndexed'
<1>1. JoinedAreNamed'
  <2>1. ASSUME NEW k \in Jobs, NEW c \in job'[k].left PROVE Joined(c)'
    BY <2>1 DEF BrokerInv, JoinedAreNamed, Joined, JobIs
  <2> QED
    BY <2>1 DEF BrokerInv, JoinedAreNamed, Joined
<1>2. SameIdClashes'
  BY DEF BrokerInv, SameIdClashes, Holding
<1>3. OwnIsIndexed'
  <2>1. ASSUME NEW c \in Conns, Own(c)', NEW k \in KeysOf(c) PROVE index[k][conn[c].id] = c
    <3>1. Own(c)
      BY <2>1, OwnIsNotGained
    <3> QED
      BY <2>1, <3>1 DEF BrokerInv, OwnIsIndexed
  <2> QED
    BY <2>1 DEF OwnIsIndexed, KeysOf
<1> QED
  BY <1>1, <1>2, <1>3

\* The entries of an index are of registered connections.
LEMMA SnapshotJoined ==
    ASSUME BrokerInv, NEW k \in Keys
    PROVE  \A c \in {index[k][i] : i \in Registered(k)} : Joined(c) /\ c \in Conns
BY DEF BrokerInv, BrokerTyped, JoinedAreNamed, Registered

\* The steps of a publish.
LEMMA StoreKeeps ==
    ASSUME BrokerInv, NEW e \in Events, StoreEvent(e)
    PROVE  BrokerInv'
<1>1. /\ JobIs(e, "appended", job[e].left, job[e].slow, job[e].victim)
      /\ job[e].step = "idle" /\ UNCHANGED <<conn, queue, got, index, draining, due, clashed>>
      /\ e \in Jobs /\ "appended" \in Steps /\ e # "drain"
  BY JobEffects DEF BrokerInv, StoreEvent, Jobs, Steps
<1>2. \A c \in job[e].left : Joined(c)
  BY <1>1 DEF BrokerInv, JoinedAreNamed
<1>3. JoinedAreNamed' /\ SameIdClashes' /\ OwnIsIndexed'
  BY <1>1, <1>2, JobOnly
<1>4. \A c \in Conns : Own(c)' => Own(c)
  BY <1>1, OwnIsNotGained
<1>5. BrokerTyped'
  BY <1>1 DEF BrokerInv, BrokerTyped, JobIs
<1>6. HistoriesAreHeld'
  BY <1>1 DEF BrokerInv, HistoriesAreHeld, Holding, JobIs, Jobs
<1>7. DrainHasAll'
  <2>1. job'["drain"] = job["drain"]
    BY <1>1 DEF JobIs, Jobs
  <2> QED
    BY <1>1, <1>4, <2>1 DEF BrokerInv, DrainHasAll, DrainEndsAll
<1>8. DueAreServed'
  <2> SUFFICES ASSUME NEW x \in Events, NEW c \in due'[x], Own(c)'
               PROVE  \/ Received(c, x)'
                      \/ job'[x].step # "done" /\ (c \in job'[x].left \/ conn'[c].id \in job'[x].slow)
    BY DEF DueAreServed
  <2>1. CASE x = e
    BY <1>1, <2>1 DEF BrokerInv, HistoriesAreHeld
  <2>2. CASE x # e
    <3>1. job'[x] = job[x] /\ c \in Conns
      BY <1>1, <2>2 DEF JobIs, Jobs, BrokerInv, BrokerTyped
    <3> QED
      BY <1>1, <1>4, <3>1 DEF BrokerInv, DueAreServed, Received
  <2> QED
    BY <2>1, <2>2
<1>9. ReplaysAreWhole'
  <2>1. CASE UNCHANGED stream
    BY <1>1, <2>1 DEF BrokerInv, ReplaysAreWhole
  <2>2. CASE stream' = Append(stream, e)
    <3>1. stream \in Seq(Events \cup Range(Past)) /\ \A c \in Conns : conn[c].read <= Len(stream)
      BY DEF BrokerInv, ReplaysAreWhole
    <3>2. /\ stream' \in Seq(Events \cup Range(Past)) /\ Len(stream') = Len(stream) + 1
          /\ \A i \in 1 .. Len(stream) : stream'[i] = stream[i]
      BY <2>2, <3>1
    <3>3. ASSUME NEW c \in Conns
          PROVE  conn[c].read \in Nat /\ conn[c].last \in Nat /\ conn[c].read <= Len(stream')
                 /\ \A i \in (conn[c].last + 1) .. conn[c].read : stream'[i] = stream[i]
      <4>1. conn[c].read \in Nat /\ conn[c].last \in Nat /\ conn[c].read <= Len(stream)
            /\ Len(stream) \in Nat
        BY <3>1 DEF BrokerInv, BrokerTyped, ConnRow
      <4>2. \A i \in (conn[c].last + 1) .. conn[c].read : i \in 1 .. Len(stream)
        BY <4>1
      <4> QED
        BY <3>2, <4>1, <4>2
    <3> QED
      BY <1>1, <3>2, <3>3 DEF BrokerInv, ReplaysAreWhole
  <2> QED
    BY <2>1, <2>2 DEF StoreEvent
<1> QED
  BY <1>3, <1>5, <1>6, <1>7, <1>8, <1>9 DEF BrokerInv

\* A snapshot holds every open connection of its own: the channel's index names them.
LEMMA PublishKeeps ==
    ASSUME BrokerInv, NEW e \in Events, PublishToChannel(e)
    PROVE  BrokerInv'
<1>0. PICK l : l = {index["channel"][i] : i \in Registered("channel")}
  OBVIOUS
<1>1. /\ JobIs(e, "sending", l, job[e].slow, job[e].victim) /\ "channel" \in Keys
      /\ job[e].step = "appended" /\ UNCHANGED <<conn, queue, got, index, stream, draining, clashed>>
      /\ due' = [due EXCEPT ![e] = In("open")]
      /\ e \in Jobs /\ "sending" \in Steps /\ e # "drain"
  BY <1>0, JobEffects DEF BrokerInv, PublishToChannel, Jobs, Steps, Keys
<1>2. \A c \in l : Joined(c)
  BY <1>0, <1>1, SnapshotJoined
<1>3. JoinedAreNamed' /\ SameIdClashes' /\ OwnIsIndexed'
  BY <1>1, <1>2, JobOnly
<1>4. \A c \in Conns : Own(c)' => Own(c)
  BY <1>1, OwnIsNotGained
<1>5. BrokerTyped'
  BY <1>1 DEF BrokerInv, BrokerTyped, JobIs, In
<1>6. HistoriesAreHeld'
  <2>1. ASSUME NEW x \in Events
        PROVE  /\ \A c \in due'[x] : Holding(c)
               /\ job'[x].step \in {"idle", "appended"} => due'[x] = {}
    <3>1. CASE x = e
      BY <1>1, <3>1 DEF BrokerInv, BrokerTyped, In, Holding, JobIs
    <3>2. CASE x # e
      BY <1>1, <3>2 DEF BrokerInv, BrokerTyped, HistoriesAreHeld, JobIs, Jobs
    <3> QED
      BY <3>1, <3>2
  <2> QED
    BY <1>1, <2>1 DEF BrokerInv, HistoriesAreHeld, Holding
<1>7. DrainHasAll'
  <2>1. job'["drain"] = job["drain"]
    BY <1>1 DEF JobIs, Jobs
  <2> QED
    BY <1>1, <1>4, <2>1 DEF BrokerInv, DrainHasAll, DrainEndsAll
<1>8. DueAreServed'
  <2> SUFFICES ASSUME NEW x \in Events, NEW c \in due'[x], Own(c)'
               PROVE  \/ Received(c, x)'
                      \/ job'[x].step # "done" /\ (c \in job'[x].left \/ conn'[c].id \in job'[x].slow)
    BY DEF DueAreServed
  <2>0. due \in [Events -> SUBSET Conns]
    BY DEF BrokerInv, BrokerTyped
  <2>1. CASE x = e
    <3>1. c \in Conns /\ conn[c].state = "open" /\ Own(c)
      BY <1>1, <1>4, <2>0, <2>1 DEF In
    <3>2. index["channel"][conn[c].id] = c /\ conn[c].id \in ConnIds /\ c # Nobody
      BY <3>1 DEF BrokerInv, OwnIsIndexed, KeysOf, JoinedAreNamed, Joined
    <3>3. c \in l
      BY <1>0, <3>2 DEF Registered
    <3> QED
      BY <1>1, <2>1, <3>3 DEF JobIs
  <2>2. CASE x # e
    <3>1. job'[x] = job[x] /\ c \in Conns /\ c \in due[x]
      BY <1>1, <2>0, <2>2 DEF JobIs, Jobs
    <3> QED
      BY <1>1, <1>4, <3>1 DEF BrokerInv, DueAreServed, Received
  <2> QED
    BY <2>1, <2>2
<1>9. ReplaysAreWhole'
  BY <1>1 DEF BrokerInv, ReplaysAreWhole
<1> QED
  BY <1>3, <1>5, <1>6, <1>7, <1>8, <1>9 DEF BrokerInv

\* A connection leaves a publish's snapshot with the event, or with its id among the slow.
LEMMA EnqueueKeeps ==
    ASSUME BrokerInv, NEW e \in Events, NEW c \in Conns, Enqueue(e, c)
    PROVE  BrokerInv'
<1>0. /\ e \in Jobs /\ "sending" \in Steps /\ e # "drain" /\ BrokerTyped
      /\ job[e].step = "sending" /\ c \in job[e].left /\ conn[c].id \in ConnIds
      /\ UNCHANGED <<conn, got, index, stream, draining, due, clashed>>
  BY DEF BrokerInv, Enqueue, Jobs, Steps, JoinedAreNamed
<1>1. PICK sl : /\ JobIs(e, "sending", job[e].left \ {c}, sl, job[e].victim)
                /\ \/ /\ conn[c].state = "open" /\ Len(queue[c]) < QueueCapacity
                      /\ queue' = [queue EXCEPT ![c] = Append(queue[c], e)] /\ sl = job[e].slow
                   \/ UNCHANGED queue /\ sl = job[e].slow \cup {conn[c].id}
  <2>1. CASE /\ conn[c].state = "open" /\ Len(queue[c]) < QueueCapacity
             /\ queue' = [queue EXCEPT ![c] = Append(@, e)]
             /\ JobIs(e, "sending", job[e].left \ {c}, job[e].slow, job[e].victim)
    BY <1>0, <2>1 DEF BrokerTyped
  <2>2. CASE /\ UNCHANGED queue
             /\ JobIs(e, "sending", job[e].left \ {c}, job[e].slow \cup {conn[c].id}, job[e].victim)
    BY <2>2
  <2>3. \/ /\ conn[c].state = "open" /\ Len(queue[c]) < QueueCapacity
           /\ queue' = [queue EXCEPT ![c] = Append(@, e)]
           /\ JobIs(e, "sending", job[e].left \ {c}, job[e].slow, job[e].victim)
        \/ /\ UNCHANGED queue
           /\ conn[c].id \in ConnIds =>
                JobIs(e, "sending", job[e].left \ {c}, job[e].slow \cup {conn[c].id},
                      job[e].victim)
    BY <1>0, CloserEffects
  <2> QED
    BY <1>0, <2>1, <2>2, <2>3
<1>2. \A d \in job[e].left \ {c} : Joined(d)
  BY <1>0 DEF BrokerInv, JoinedAreNamed
<1>3. JoinedAreNamed' /\ SameIdClashes' /\ OwnIsIndexed'
  BY <1>0, <1>1, <1>2, JobOnly
<1>4. \A d \in Conns : Own(d)' => Own(d)
  BY <1>0, <1>1, OwnIsNotGained
<1>5. /\ queue' \in [Conns -> Seq(Events)] /\ \A d \in Conns : Len(queue'[d]) <= QueueCapacity
      /\ \A d \in Conns : Range(queue[d]) \subseteq Range(queue'[d])
      /\ UNCHANGED queue \/ e \in Range(queue'[c])
  <2>1. CASE UNCHANGED queue
    BY <1>0, <2>1 DEF BrokerTyped
  <2>2. CASE queue' = [queue EXCEPT ![c] = Append(queue[c], e)] /\ Len(queue[c]) < QueueCapacity
    <3>1. /\ queue[c] \in Seq(Events) /\ Append(queue[c], e) \in Seq(Events)
          /\ Len(Append(queue[c], e)) = Len(queue[c]) + 1 /\ Len(queue[c]) \in Nat
          /\ queue \in [Conns -> Seq(Events)] /\ \A d \in Conns : Len(queue[d]) <= QueueCapacity
      BY <1>0 DEF BrokerTyped
    <3>2. Range(Append(queue[c], e)) = Range(queue[c]) \cup {e}
      BY <3>1, QueueHolds
    <3> QED
      BY <2>2, <3>1, <3>2
  <2> QED
    BY <1>1, <2>1, <2>2
<1>6. BrokerTyped'
  BY <1>0, <1>1, <1>5 DEF BrokerTyped, JobIs
<1>7. HistoriesAreHeld'
  BY <1>0, <1>1 DEF BrokerInv, HistoriesAreHeld, Holding, JobIs, Jobs
<1>8. DrainHasAll'
  <2>1. job'["drain"] = job["drain"]
    BY <1>0, <1>1 DEF JobIs, Jobs
  <2> QED
    BY <1>0, <1>4, <2>1 DEF BrokerInv, DrainHasAll, DrainEndsAll
<1>9. DueAreServed'
  <2> SUFFICES ASSUME NEW x \in Events, NEW d \in due'[x], Own(d)'
               PROVE  \/ Received(d, x)'
                      \/ job'[x].step # "done" /\ (d \in job'[x].left \/ conn'[d].id \in job'[x].slow)
    BY DEF DueAreServed
  <2>1. d \in Conns /\ d \in due[x] /\ Own(d)
    BY <1>0, <1>4 DEF BrokerTyped
  <2>2. \/ Received(d, x)
        \/ job[x].step # "done" /\ (d \in job[x].left \/ conn[d].id \in job[x].slow)
    BY <2>1 DEF BrokerInv, DueAreServed
  <2>3. CASE Received(d, x)
    BY <1>0, <1>5, <2>1, <2>3 DEF Received
  <2>4. CASE x # e
    <3>1. job'[x] = job[x]
      BY <1>1, <2>4 DEF JobIs, Jobs
    <3> QED
      BY <1>0, <2>2, <2>3, <3>1
  <2>5. CASE x = e /\ d = c
    BY <1>0, <1>1, <1>5, <2>5 DEF JobIs, Received
  <2>6. CASE x = e /\ d # c
    BY <1>0, <1>1, <2>2, <2>3, <2>6 DEF JobIs
  <2> QED
    BY <2>4, <2>5, <2>6
<1>10. ReplaysAreWhole'
  <2>1. /\ stream \in Seq(Events \cup Range(Past))
        /\ \A d \in Conns :
              /\ conn[d].read <= Len(stream)
              /\ conn[d].state \in {"served", "open"} /\ conn[d].last > 0 =>
                   \A i \in (conn[d].last + 1) .. conn[d].read :
                       i <= conn[d].last + ReplayLimit =>
                           stream[i] \in got[d] \cup Range(queue'[d])
    BY <1>5 DEF BrokerInv, ReplaysAreWhole
  <2> QED
    BY <1>0, <2>1 DEF ReplaysAreWhole
<1> QED
  BY <1>3, <1>6, <1>7, <1>8, <1>9, <1>10 DEF BrokerInv

\* A publish returns when nobody is left and no slow consumer is to be unregistered.
LEMMA ReturnKeeps ==
    ASSUME BrokerInv, NEW e \in Events, PublishReturns(e)
    PROVE  BrokerInv'
<1>1. /\ JobIs(e, "done", job[e].left, job[e].slow, Nobody)
      /\ job[e].step = "sending" /\ job[e].left = {} /\ job[e].slow = {}
      /\ UNCHANGED <<conn, queue, got, index, stream, draining, due, clashed>>
      /\ e \in Jobs /\ "done" \in Steps /\ e # "drain"
  BY JobEffects DEF BrokerInv, PublishReturns, Jobs, Steps
<1>2. \A c \in job[e].left : Joined(c)
  BY <1>1
<1>3. JoinedAreNamed' /\ SameIdClashes' /\ OwnIsIndexed'
  BY <1>1, <1>2, JobOnly
<1>4. \A c \in Conns : Own(c)' => Own(c)
  BY <1>1, OwnIsNotGained
<1>5. BrokerTyped'
  BY <1>1 DEF BrokerInv, BrokerTyped, JobIs
<1>6. HistoriesAreHeld'
  BY <1>1 DEF BrokerInv, HistoriesAreHeld, Holding, JobIs, Jobs
<1>7. DrainHasAll'
  <2>1. job'["drain"] = job["drain"]
    BY <1>1 DEF JobIs, Jobs
  <2> QED
    BY <1>1, <1>4, <2>1 DEF BrokerInv, DrainHasAll, DrainEndsAll
<1>8. DueAreServed'
  <2> SUFFICES ASSUME NEW x \in Events, NEW c \in due'[x], Own(c)'
               PROVE  \/ Received(c, x)'
                      \/ job'[x].step # "done" /\ (c \in job'[x].left \/ conn'[c].id \in job'[x].slow)
    BY DEF DueAreServed
  <2>1. /\ c \in Conns /\ Own(c)
        /\ \/ Received(c, x)
           \/ job[x].step # "done" /\ (c \in job[x].left \/ conn[c].id \in job[x].slow)
    BY <1>1, <1>4 DEF BrokerInv, BrokerTyped, DueAreServed
  <2>2. CASE x = e
    BY <1>1, <2>1, <2>2 DEF Received
  <2>3. CASE x # e
    <3>1. job'[x] = job[x]
      BY <1>1, <2>3 DEF JobIs, Jobs
    <3> QED
      BY <1>1, <2>1, <3>1 DEF Received
  <2> QED
    BY <2>2, <2>3
<1>9. ReplaysAreWhole'
  BY <1>1 DEF BrokerInv, ReplaysAreWhole
<1> QED
  BY <1>3, <1>5, <1>6, <1>7, <1>8, <1>9 DEF BrokerInv

\* The snapshot of the drain and of a revocation: the one of the drain is of everybody.
LEMMA SnapshotKeeps ==
    ASSUME BrokerInv, NEW j \in Jobs, NEW k \in Keys, j \notin Events, Snapshot(j, k),
           j = "drain" => draining /\ k = "all"
    PROVE  BrokerInv'
<1>0. PICK l : l = {index[k][i] : i \in Registered(k)}
  OBVIOUS
<1>1. /\ JobIs(j, "closing", l, job[j].slow, job[j].victim) /\ "closing" \in Steps
      /\ UNCHANGED <<conn, queue, got, index, stream, draining, due, clashed>>
  BY <1>0, CloserEffects DEF BrokerInv, Snapshot, Steps
<1>2. \A c \in l : Joined(c)
  BY <1>0, SnapshotJoined
<1>3. JoinedAreNamed' /\ SameIdClashes' /\ OwnIsIndexed'
  BY <1>1, <1>2, JobOnly
<1>4. \A c \in Conns : Own(c)' => Own(c)
  BY <1>1, OwnIsNotGained
<1>5. BrokerTyped'
  BY <1>1 DEF BrokerInv, BrokerTyped, JobIs
<1>6. \A e \in Events : job'[e] = job[e]
  BY <1>1 DEF JobIs, Jobs
<1>7. HistoriesAreHeld'
  BY <1>1, <1>6 DEF BrokerInv, HistoriesAreHeld, Holding
<1>8. DrainHasAll'
  <2>1. CASE j = "drain"
    <3>1. ASSUME NEW c \in Conns, Own(c)' PROVE c \in l
      <4>1. Own(c) /\ conn[c].state = "open"
        BY <1>4, <3>1 DEF Own
      <4>2. index["all"][conn[c].id] = c /\ conn[c].id \in ConnIds /\ c # Nobody
        BY <4>1 DEF BrokerInv, OwnIsIndexed, KeysOf, JoinedAreNamed, Joined
      <4> QED
        BY <1>0, <2>1, <4>2 DEF Registered
    <3> QED
      BY <1>1, <2>1, <3>1 DEF DrainHasAll, DrainEndsAll, JobIs
  <2>2. CASE j # "drain"
    <3>1. job'["drain"] = job["drain"]
      BY <1>1, <2>2 DEF JobIs, Jobs
    <3> QED
      BY <1>1, <1>4, <3>1 DEF BrokerInv, DrainHasAll, DrainEndsAll
  <2> QED
    BY <2>1, <2>2
<1>9. DueAreServed'
  BY <1>1, <1>4, <1>6 DEF BrokerInv, BrokerTyped, DueAreServed, Received
<1>10. ReplaysAreWhole'
  BY <1>1 DEF BrokerInv, ReplaysAreWhole
<1> QED
  BY <1>3, <1>5, <1>7, <1>8, <1>9, <1>10 DEF BrokerInv

-----------------------------------------------------------------------------
(* The steps that close a connection.                                          *)

\* After a Close a connection is its own only if it was before, and if it is another one.
LEMMA CloseOwns ==
    ASSUME NEW c \in Conns, ClosesOnly(c), UNCHANGED clashed,
           \A e \in Events : job'[e].step = job[e].step /\ job'[e].victim = job[e].victim,
           NEW d \in Conns, Own(d)'
    PROVE  Own(d) /\ d # c /\ conn'[d] = conn[d]
BY DEF Own, ClosesOnly

\* What a Close leaves of the invariant.
LEMMA CloseLeaves ==
    ASSUME BrokerInv, NEW c \in Conns, ClosesOnly(c), UNCHANGED <<clashed, index, stream, got, queue>>,
           \A d \in Conns : Own(d)' => Own(d) /\ d # c /\ conn'[d] = conn[d],
           job' \in [Jobs -> JobRow], \A k \in Jobs : job'[k].left \subseteq job[k].left
    PROVE  JoinedAreNamed' /\ SameIdClashes' /\ OwnIsIndexed' /\ ReplaysAreWhole'
<1>0. /\ \A d \in Conns : conn'[d].id = conn[d].id /\ conn'[d].subject = conn[d].subject
      /\ \A d \in Conns : Joined(d) <=> Joined(d)'
      /\ \A d \in Conns : Holding(d) <=> Holding(d)'
  BY DEF ClosesOnly, Joined, Holding
<1>1. JoinedAreNamed'
  <2>1. \A d \in Conns : conn'[d].state = "served" \/ Joined(d)' =>
                            conn[d].id \in ConnIds /\ conn[d].subject \in Subjects
    BY <1>0 DEF BrokerInv, JoinedAreNamed, ClosesOnly
  <2>2. \A k \in Keys, i \in ConnIds : index[k][i] # Nobody => Joined(index[k][i])'
    BY <1>0 DEF BrokerInv, BrokerTyped, JoinedAreNamed
  <2>3. ASSUME NEW k \in Jobs, NEW d \in job'[k].left PROVE Joined(d)'
    BY <1>0, <2>3 DEF BrokerInv, JoinedAreNamed, JobRow
  <2> QED
    BY <1>0, <2>1, <2>2, <2>3 DEF JoinedAreNamed, Joined
<1>2. SameIdClashes'
  BY <1>0 DEF BrokerInv, SameIdClashes, Holding
<1>3. OwnIsIndexed'
  <2>1. ASSUME NEW d \in Conns, Own(d)', NEW k \in {"all", "channel", conn'[d].subject}
        PROVE  index'[k][conn'[d].id] = d
    BY <2>1 DEF BrokerInv, OwnIsIndexed, KeysOf
  <2> QED
    BY <2>1 DEF OwnIsIndexed, KeysOf
<1>4. ReplaysAreWhole'
  BY DEF BrokerInv, ReplaysAreWhole, ClosesOnly
<1> QED
  BY <1>1, <1>2, <1>3, <1>4

\* The Close of a slow consumer: its id is out of the indexes already.
LEMMA CloseSlowKeeps ==
    ASSUME BrokerInv, NEW e \in Events, CloseSlow(e)
    PROVE  BrokerInv'
<1>1. /\ JobIs(e, "sending", job[e].left, job[e].slow, job[e].victim)
      /\ job[e].step = "closing"
      /\ UNCHANGED <<queue, got, index, stream, draining, due, clashed>>
      /\ e \in Jobs /\ "sending" \in Steps /\ e # "drain" /\ BrokerTyped
      /\ conn' = IF job[e].victim = Nobody THEN conn ELSE Closed(job[e].victim)
  BY JobEffects DEF BrokerInv, CloseSlow, Jobs, Steps
<1>2. job'["drain"] = job["drain"] /\ job' \in [Jobs -> JobRow]
  BY <1>1 DEF JobIs, Jobs
<1>3. /\ \A k \in Jobs : job'[k].left = job[k].left /\ job'[k].slow = job[k].slow
      /\ \A x \in Events : job'[x].step = job[x].step \/ x = e
      /\ \A x \in Events : job'[x].victim = job[x].victim
  BY <1>1 DEF JobIs, Jobs
<1>4. \/ UNCHANGED conn /\ job[e].victim \notin Conns
      \/ job[e].victim \in Conns /\ ClosesOnly(job[e].victim)
  <2>1. CASE job[e].victim = Nobody
    BY <1>1, <2>1
  <2>2. CASE job[e].victim # Nobody
    <3>1. job[e].victim \in Conns
      BY <1>1, <2>2 DEF BrokerTyped, JobRow
    <3> QED
      BY <1>1, <2>2, <3>1, ConnEffects
  <2> QED
    BY <2>1, <2>2
<1>5. \A d \in Conns : Own(d)' => Own(d) /\ d # job[e].victim /\ conn'[d] = conn[d]
  <2> SUFFICES ASSUME NEW d \in Conns, Own(d)'
               PROVE  Own(d) /\ d # job[e].victim /\ conn'[d] = conn[d]
    OBVIOUS
  <2>1. d # job[e].victim /\ conn'[d] = conn[d]
    BY <1>4 DEF Own, ClosesOnly
  <2>2. ASSUME NEW x \in Events, job[x].step = "closing", job[x].victim = d PROVE FALSE
    BY <1>3, <2>1, <2>2 DEF Own
  <2> QED
    BY <1>1, <2>1, <2>2 DEF Own
<1>6. JoinedAreNamed' /\ SameIdClashes' /\ OwnIsIndexed' /\ ReplaysAreWhole'
  <2>1. CASE job[e].victim \in Conns /\ ClosesOnly(job[e].victim)
    BY <1>1, <1>2, <1>3, <1>5, <2>1, CloseLeaves
  <2>2. CASE UNCHANGED conn
    <3>1. OwnIsIndexed'
      BY <1>1, <1>5, <2>2 DEF BrokerInv, OwnIsIndexed, KeysOf
    <3>2. JoinedAreNamed'
      BY <1>1, <1>3, <2>2 DEF BrokerInv, JoinedAreNamed, Joined
    <3> QED
      BY <1>1, <2>2, <3>1, <3>2 DEF BrokerInv, SameIdClashes, Holding, ReplaysAreWhole
  <2> QED
    BY <1>4, <2>1, <2>2
<1>7. BrokerTyped'
  BY <1>1, <1>2, <1>4 DEF BrokerTyped, ClosesOnly
<1>8. HistoriesAreHeld'
  <2>1. \A d \in Conns : Holding(d) => Holding(d)'
    BY <1>4 DEF Holding, ClosesOnly
  <2>2. \A x \in Events : job'[x].step \in {"idle", "appended"} => job[x].step \in {"idle", "appended"}
    BY <1>1, <1>3 DEF JobIs
  <2> QED
    BY <1>1, <2>1, <2>2 DEF BrokerInv, BrokerTyped, HistoriesAreHeld
<1>9. DrainHasAll'
  BY <1>1, <1>2, <1>5 DEF BrokerInv, DrainHasAll, DrainEndsAll
<1>10. DueAreServed'
  <2> SUFFICES ASSUME NEW x \in Events, NEW d \in due'[x], Own(d)'
               PROVE  \/ Received(d, x)'
                      \/ job'[x].step # "done" /\ (d \in job'[x].left \/ conn'[d].id \in job'[x].slow)
    BY DEF DueAreServed
  <2>1. /\ d \in Conns /\ Own(d) /\ conn'[d] = conn[d]
        /\ \/ Received(d, x)
           \/ job[x].step # "done" /\ (d \in job[x].left \/ conn[d].id \in job[x].slow)
    BY <1>1, <1>5 DEF BrokerInv, BrokerTyped, DueAreServed
  <2>2. x \in Jobs /\ (job'[x].step = "done" => job[x].step = "done")
    BY <1>1, <1>3 DEF JobIs, Jobs
  <2> QED
    BY <1>1, <1>3, <2>1, <2>2 DEF Received
<1> QED
  BY <1>6, <1>7, <1>8, <1>9, <1>10 DEF BrokerInv

\* The Close of the next connection of a snapshot, or its end.
LEMMA CloseNextKeeps ==
    ASSUME BrokerInv, NEW j \in Jobs, j \notin Events, CloseNext(j)
    PROVE  BrokerInv'
<1>1. /\ UNCHANGED <<queue, got, index, stream, draining, due, clashed>> /\ BrokerTyped
      /\ job[j].step = "closing" /\ "closing" \in Steps /\ "done" \in Steps
  BY DEF BrokerInv, CloseNext, Steps
<1>2. CASE \E c \in job[j].left : /\ conn' = Closed(c)
                                  /\ JobIs(j, "closing", job[j].left \ {c}, job[j].slow, c)
  <2>1. PICK c \in job[j].left : /\ conn' = Closed(c)
                                 /\ JobIs(j, "closing", job[j].left \ {c}, job[j].slow, c)
    BY <1>2
  <2>2. c \in Conns /\ ClosesOnly(c)
    BY <1>1, <2>1, ConnEffects DEF BrokerTyped, JobRow
  <2>3. /\ \A x \in Events : job'[x] = job[x]
        /\ \A k \in Jobs : job'[k].left \subseteq job[k].left
        /\ job' \in [Jobs -> JobRow]
    BY <2>1 DEF JobIs, Jobs
  <2>4. \A d \in Conns : Own(d)' => Own(d) /\ d # c /\ conn'[d] = conn[d]
    BY <1>1, <2>2, <2>3, CloseOwns
  <2>5. JoinedAreNamed' /\ SameIdClashes' /\ OwnIsIndexed' /\ ReplaysAreWhole'
    BY <1>1, <2>2, <2>3, <2>4, CloseLeaves
  <2>6. BrokerTyped'
    BY <1>1, <2>2, <2>3 DEF BrokerTyped, ClosesOnly
  <2>7. HistoriesAreHeld'
    <3>1. \A d \in Conns : Holding(d) => Holding(d)'
      BY <2>2 DEF Holding, ClosesOnly
    <3> QED
      BY <1>1, <2>3, <3>1 DEF BrokerInv, BrokerTyped, HistoriesAreHeld
  <2>8. DrainHasAll'
    <3>1. CASE j = "drain"
      BY <1>1, <2>1, <2>4, <3>1 DEF BrokerInv, DrainHasAll, DrainEndsAll, JobIs
    <3>2. CASE j # "drain"
      <4>1. job'["drain"] = job["drain"]
        BY <2>1, <3>2 DEF JobIs, Jobs
      <4> QED
        BY <1>1, <2>4, <4>1 DEF BrokerInv, DrainHasAll, DrainEndsAll
    <3> QED
      BY <3>1, <3>2
  <2>9. DueAreServed'
    BY <1>1, <2>3, <2>4 DEF BrokerInv, BrokerTyped, DueAreServed, Received
  <2> QED
    BY <2>5, <2>6, <2>7, <2>8, <2>9 DEF BrokerInv
<1>3. CASE /\ job[j].left = {} /\ UNCHANGED conn
           /\ JobIs(j, "done", job[j].left, job[j].slow, Nobody)
  <2>1. \A c \in job[j].left : Joined(c)
    BY <1>3
  <2>2. JoinedAreNamed' /\ SameIdClashes' /\ OwnIsIndexed'
    BY <1>1, <1>3, <2>1, JobOnly
  <2>3. \A d \in Conns : Own(d)' => Own(d)
    BY <1>1, <1>3, OwnIsNotGained
  <2>4. \A x \in Events : job'[x] = job[x]
    BY <1>3 DEF JobIs, Jobs
  <2>5. BrokerTyped'
    BY <1>1, <1>3 DEF BrokerTyped, JobIs
  <2>6. HistoriesAreHeld'
    BY <1>1, <1>3, <2>4 DEF BrokerInv, HistoriesAreHeld, Holding
  <2>7. DrainHasAll'
    <3>1. CASE j = "drain"
      BY <1>1, <1>3, <2>3, <3>1 DEF BrokerInv, DrainHasAll, DrainEndsAll, JobIs
    <3>2. CASE j # "drain"
      <4>1. job'["drain"] = job["drain"]
        BY <1>3, <3>2 DEF JobIs, Jobs
      <4> QED
        BY <1>1, <2>3, <4>1 DEF BrokerInv, DrainHasAll, DrainEndsAll
    <3> QED
      BY <3>1, <3>2
  <2>8. DueAreServed'
    BY <1>1, <1>3, <2>3, <2>4 DEF BrokerInv, BrokerTyped, DueAreServed, Received
  <2>9. ReplaysAreWhole'
    BY <1>1, <1>3 DEF BrokerInv, ReplaysAreWhole
  <2> QED
    BY <2>2, <2>5, <2>6, <2>7, <2>8, <2>9 DEF BrokerInv
<1> QED
  BY <1>1, <1>2, <1>3, CloserEffects

\* A turn of loop writes the head of the queue, or closes.
LEMMA LoopKeeps ==
    ASSUME BrokerInv, NEW c \in Conns, Loop(c)
    PROVE  BrokerInv'
<1>1. /\ UNCHANGED <<index, stream, draining, job, due, clashed>> /\ BrokerTyped
      /\ conn[c].state = "open"
  BY DEF BrokerInv, Loop
<1>2. CASE conn' = Closed(c) /\ UNCHANGED <<queue, got>>
  <2>1. ClosesOnly(c)
    BY <1>1, <1>2, ConnEffects
  <2>2. \A d \in Conns : Own(d)' => Own(d) /\ d # c /\ conn'[d] = conn[d]
    BY <1>1, <2>1, CloseOwns
  <2>3. job' \in [Jobs -> JobRow] /\ \A k \in Jobs : job'[k].left \subseteq job[k].left
    BY <1>1 DEF BrokerTyped
  <2>4. JoinedAreNamed' /\ SameIdClashes' /\ OwnIsIndexed' /\ ReplaysAreWhole'
    BY <1>1, <1>2, <2>1, <2>2, <2>3, CloseLeaves
  <2>5. BrokerTyped'
    BY <1>1, <1>2, <2>1 DEF BrokerTyped, ClosesOnly
  <2>6. HistoriesAreHeld'
    <3>1. \A d \in Conns : Holding(d) => Holding(d)'
      BY <2>1 DEF Holding, ClosesOnly
    <3> QED
      BY <1>1, <3>1 DEF BrokerInv, BrokerTyped, HistoriesAreHeld
  <2>7. DrainHasAll'
    BY <1>1, <2>2 DEF BrokerInv, DrainHasAll, DrainEndsAll
  <2>8. DueAreServed'
    BY <1>1, <1>2, <2>2 DEF BrokerInv, BrokerTyped, DueAreServed, Received
  <2> QED
    BY <2>4, <2>5, <2>6, <2>7, <2>8 DEF BrokerInv
<1>3. CASE /\ queue[c] # <<>> /\ UNCHANGED conn
           /\ got' = [got EXCEPT ![c] = @ \cup {Head(queue[c])}]
           /\ queue' = [queue EXCEPT ![c] = Tail(@)]
  <2>1. queue[c] \in Seq(Events) /\ queue \in [Conns -> Seq(Events)]
    BY <1>1 DEF BrokerTyped
  <2>2. /\ Tail(queue[c]) \in Seq(Events) /\ Head(queue[c]) \in Events
        /\ Len(Tail(queue[c])) = Len(queue[c]) - 1
        /\ Range(queue[c]) = Range(Tail(queue[c])) \cup {Head(queue[c])}
    <3>1. queue[c] # <<>> => Head(queue[c]) \in Events
      BY <2>1, HeadTailProperties
    <3> QED
      BY <1>3, <2>1, <3>1, QueueHolds
  <2>3. \A d \in Conns : got'[d] \cup Range(queue'[d]) = got[d] \cup Range(queue[d])
    <3>1. got \in [Conns -> SUBSET (Events \cup Range(Past))]
      BY <1>1 DEF BrokerTyped
    <3>2. ASSUME NEW d \in Conns, d # c PROVE got'[d] = got[d] /\ queue'[d] = queue[d]
      BY <1>3, <2>1, <3>1, <3>2
    <3>3. got'[c] = got[c] \cup {Head(queue[c])} /\ queue'[c] = Tail(queue[c])
      BY <1>3, <2>1, <3>1
    <3>4. got'[c] \cup Range(queue'[c]) = got[c] \cup Range(queue[c])
      BY <2>2, <3>3
    <3> QED
      BY <3>2, <3>4
  <2>4. \A d \in Conns : Own(d)' <=> Own(d)
    BY <1>1, <1>3 DEF Own
  <2>5. BrokerTyped'
    <3>1. queue' \in [Conns -> Seq(Events)] /\ \A d \in Conns : Len(queue'[d]) <= QueueCapacity
      <4>1. Len(Tail(queue[c])) <= QueueCapacity
        BY <1>1, <2>1, <2>2 DEF BrokerTyped
      <4> QED
        BY <1>1, <1>3, <2>1, <2>2, <4>1 DEF BrokerTyped
    <3>2. got' \in [Conns -> SUBSET (Events \cup Range(Past))]
      BY <1>1, <1>3, <2>2 DEF BrokerTyped
    <3> QED
      BY <1>1, <1>3, <3>1, <3>2 DEF BrokerTyped
  <2>6. JoinedAreNamed' /\ HistoriesAreHeld' /\ SameIdClashes'
    BY <1>1, <1>3 DEF BrokerInv, JoinedAreNamed, Joined, HistoriesAreHeld, Holding, SameIdClashes
  <2>7. OwnIsIndexed' /\ DrainHasAll'
    BY <1>1, <1>3, <2>4 DEF BrokerInv, OwnIsIndexed, KeysOf, DrainHasAll, DrainEndsAll
  <2>8. DueAreServed'
    BY <1>1, <1>3, <2>3, <2>4 DEF BrokerInv, BrokerTyped, DueAreServed, Received
  <2>9. ReplaysAreWhole'
    BY <1>1, <1>3, <2>3 DEF BrokerInv, ReplaysAreWhole
  <2> QED
    BY <2>5, <2>6, <2>7, <2>8, <2>9 DEF BrokerInv
<1> QED
  BY <1>2, <1>3 DEF Loop

\* An id taken from the indexes is of no connection of its own that stays.
LEMMA UnregisterKeeps ==
    ASSUME BrokerInv, NEW e \in Events, NEW i \in ConnIds, Unregister(e, i)
    PROVE  BrokerInv'
<1>1. /\ JobIs(e, "closing", job[e].left, job[e].slow \ {i}, index["all"][i])
      /\ job[e].step = "sending" /\ job[e].left = {} /\ index' = WithoutId(i)
      /\ UNCHANGED <<conn, queue, got, stream, draining, due, clashed>>
      /\ e \in Jobs /\ e # "drain" /\ BrokerTyped
  BY JobEffects DEF BrokerInv, Unregister, Jobs
<1>2. /\ index' \in [Keys -> [ConnIds -> Conns \cup {Nobody}]]
      /\ \A k \in Keys, h \in ConnIds :
            index'[k][h] = index[k][h] \/ (h = i /\ index'[k][h] = Nobody)
  BY <1>1, WithoutIdType DEF BrokerTyped
<1>3. \A d \in Conns : Own(d)' => Own(d) /\ d # index["all"][i]
  <2> SUFFICES ASSUME NEW d \in Conns, Own(d)' PROVE Own(d) /\ d # index["all"][i]
    OBVIOUS
  <2>1. d # index["all"][i]
    BY <1>1 DEF Own, JobIs
  <2>2. ASSUME NEW x \in Events, job[x].step = "closing", job[x].victim = d PROVE FALSE
    <3>1. x # e /\ x \in Jobs
      BY <1>1, <2>2 DEF Jobs
    <3>2. job'[x] = job[x]
      BY <1>1, <3>1 DEF JobIs
    <3> QED
      BY <2>2, <3>2 DEF Own
  <2> QED
    BY <1>1, <2>1, <2>2 DEF Own
<1>4. \A d \in Conns : Own(d)' => conn[d].id \in ConnIds /\ conn[d].id # i /\ KeysOf(d) \subseteq Keys
  <2> SUFFICES ASSUME NEW d \in Conns, Own(d)'
               PROVE  conn[d].id \in ConnIds /\ conn[d].id # i /\ KeysOf(d) \subseteq Keys
    OBVIOUS
  <2>1. Own(d) /\ d # index["all"][i] /\ conn[d].state = "open"
    BY <1>3 DEF Own
  <2>2. index["all"][conn[d].id] = d
    BY <2>1 DEF BrokerInv, OwnIsIndexed, KeysOf
  <2>3. conn[d].id \in ConnIds /\ conn[d].subject \in Subjects
    BY <2>1 DEF BrokerInv, JoinedAreNamed, Joined
  <2> QED
    BY <2>1, <2>2, <2>3 DEF KeysOf, Keys
<1>5. BrokerTyped'
  BY <1>1, <1>2 DEF BrokerTyped, JobIs
<1>6. JoinedAreNamed'
  <2>1. \A k \in Keys, h \in ConnIds : index'[k][h] # Nobody => Joined(index'[k][h])
    BY <1>2 DEF BrokerInv, JoinedAreNamed
  <2>2. ASSUME NEW k \in Jobs, NEW d \in job'[k].left PROVE Joined(d)
    BY <1>1, <2>2 DEF BrokerInv, JoinedAreNamed, JobIs
  <2> QED
    BY <1>1, <2>1, <2>2 DEF BrokerInv, JoinedAreNamed, Joined
<1>7. HistoriesAreHeld'
  BY <1>1 DEF BrokerInv, HistoriesAreHeld, Holding, JobIs, Jobs
<1>8. SameIdClashes'
  BY <1>1 DEF BrokerInv, SameIdClashes, Holding
<1>9. OwnIsIndexed'
  <2> SUFFICES ASSUME NEW d \in Conns, Own(d)', NEW k \in KeysOf(d)
               PROVE  index'[k][conn[d].id] = d
    BY <1>1 DEF OwnIsIndexed, KeysOf
  <2>1. index[k][conn[d].id] = d
    BY <1>3 DEF BrokerInv, OwnIsIndexed
  <2>2. k \in Keys /\ conn[d].id \in ConnIds /\ conn[d].id # i
    BY <1>4
  <2> QED
    BY <1>2, <2>1, <2>2
<1>10. DrainHasAll'
  <2>1. job'["drain"] = job["drain"]
    BY <1>1 DEF JobIs, Jobs
  <2> QED
    BY <1>1, <1>3, <2>1 DEF BrokerInv, DrainHasAll, DrainEndsAll
<1>11. DueAreServed'
  <2> SUFFICES ASSUME NEW x \in Events, NEW d \in due'[x], Own(d)'
               PROVE  \/ Received(d, x)'
                      \/ job'[x].step # "done" /\ (d \in job'[x].left \/ conn'[d].id \in job'[x].slow)
    BY DEF DueAreServed
  <2>1. /\ d \in Conns /\ Own(d) /\ conn[d].id # i
        /\ \/ Received(d, x)
           \/ job[x].step # "done" /\ (d \in job[x].left \/ conn[d].id \in job[x].slow)
    BY <1>1, <1>3, <1>4 DEF BrokerInv, BrokerTyped, DueAreServed
  <2>2. CASE x = e
    BY <1>1, <2>1, <2>2 DEF Received, JobIs
  <2>3. CASE x # e
    <3>1. job'[x] = job[x]
      BY <1>1, <2>3 DEF JobIs, Jobs
    <3> QED
      BY <1>1, <2>1, <3>1 DEF Received
  <2> QED
    BY <2>2, <2>3
<1>12. ReplaysAreWhole'
  BY <1>1 DEF BrokerInv, ReplaysAreWhole
<1> QED
  BY <1>5, <1>6, <1>7, <1>8, <1>9, <1>10, <1>11, <1>12 DEF BrokerInv

-----------------------------------------------------------------------------
(* The steps of the connections.                                               *)

\* A client connects and is replayed what it missed.
LEMMA ServeKeeps ==
    ASSUME BrokerInv, NEW c \in Conns, Serve(c)
    PROVE  BrokerInv'
<1>1. /\ UNCHANGED <<queue, index, stream, draining, job, due, clashed>> /\ BrokerTyped
      /\ conn[c].state = "idle" /\ stream \in Seq(Events \cup Range(Past))
  BY DEF BrokerInv, Serve, ReplaysAreWhole
<1>2. PICK id \in ConnIds, su \in Subjects, la \in 0 .. Len(stream) :
          /\ ConnIs(c, "served", id, su, la, Len(stream))
          /\ got' = [got EXCEPT ![c] = IF la = 0 THEN {} ELSE Range(ReplayAfter(la))]
  BY <1>1, ConnEffects
<1>3. /\ Range(ReplayAfter(la)) \subseteq Events \cup Range(Past)
      /\ \A i \in (la + 1) .. Len(stream) :
            i <= la + ReplayLimit => stream[i] \in Range(ReplayAfter(la))
  BY <1>1, ReplayType
<1>4. /\ got' \in [Conns -> SUBSET (Events \cup Range(Past))]
      /\ got'[c] = IF la = 0 THEN {} ELSE Range(ReplayAfter(la))
      /\ \A d \in Conns : d # c => got'[d] = got[d] /\ conn'[d] = conn[d]
  BY <1>1, <1>2, <1>3 DEF BrokerTyped, ConnIs
<1>5. \A d \in Conns : Own(d)' => Own(d) /\ d # c
  BY <1>1, <1>2 DEF Own, ConnIs
<1>6. /\ \A d \in Conns : Joined(d)' <=> Joined(d)
      /\ \A d \in Conns : Holding(d)' <=> Holding(d)
      /\ ~Holding(c) /\ ~Joined(c)
  BY <1>1, <1>2 DEF Joined, Holding, ConnIs
<1>7. BrokerTyped'
  BY <1>1, <1>2, <1>4 DEF BrokerTyped, ConnIs
<1>8. JoinedAreNamed'
  <2>1. \A d \in Conns : conn'[d].state = "served" \/ Joined(d)' =>
                            conn'[d].id \in ConnIds /\ conn'[d].subject \in Subjects
    BY <1>2, <1>4, <1>6 DEF BrokerInv, JoinedAreNamed, ConnIs
  <2>2. \A k \in Keys, i \in ConnIds : index[k][i] # Nobody => Joined(index[k][i])'
    BY <1>1, <1>6 DEF BrokerInv, BrokerTyped, JoinedAreNamed
  <2>3. ASSUME NEW k \in Jobs, NEW d \in job[k].left PROVE Joined(d)'
    BY <1>1, <1>6, <2>3 DEF BrokerInv, BrokerTyped, JoinedAreNamed, JobRow
  <2> QED
    BY <1>1, <2>1, <2>2, <2>3 DEF JoinedAreNamed, Joined
<1>9. HistoriesAreHeld'
  BY <1>1, <1>6 DEF BrokerInv, BrokerTyped, HistoriesAreHeld
<1>10. SameIdClashes'
  <2> SUFFICES ASSUME NEW d \in Conns, NEW x \in Conns, Holding(d)', Holding(x)',
                      conn'[d].id = conn'[x].id
               PROVE  d = x \/ {d, x} \subseteq clashed
    BY <1>1 DEF SameIdClashes
  <2>1. Holding(d) /\ Holding(x) /\ conn'[d] = conn[d] /\ conn'[x] = conn[x]
    BY <1>4, <1>6
  <2> QED
    BY <2>1 DEF BrokerInv, SameIdClashes
<1>11. OwnIsIndexed'
  <2> SUFFICES ASSUME NEW d \in Conns, Own(d)', NEW k \in {"all", "channel", conn'[d].subject}
               PROVE  index[k][conn'[d].id] = d
    BY <1>1 DEF OwnIsIndexed, KeysOf
  <2>1. Own(d) /\ conn'[d] = conn[d]
    BY <1>4, <1>5
  <2> QED
    BY <2>1 DEF BrokerInv, OwnIsIndexed, KeysOf
<1>12. DrainHasAll'
  BY <1>1, <1>5 DEF BrokerInv, DrainHasAll, DrainEndsAll
<1>13. DueAreServed'
  BY <1>1, <1>4, <1>5 DEF BrokerInv, BrokerTyped, DueAreServed, Received
<1>14. ReplaysAreWhole'
  <2>1. ASSUME NEW d \in Conns
        PROVE  /\ conn'[d].read <= Len(stream)
               /\ conn'[d].state \in {"served", "open"} /\ conn'[d].last > 0 =>
                    \A i \in (conn'[d].last + 1) .. conn'[d].read :
                        i <= conn'[d].last + ReplayLimit =>
                            stream[i] \in got'[d] \cup Range(queue[d])
    <3>1. CASE d # c
      BY <1>4, <3>1 DEF BrokerInv, ReplaysAreWhole
    <3>2. CASE d = c
      <4>1. conn'[c].last = la /\ conn'[c].read = Len(stream) /\ Len(stream) \in Nat
        BY <1>1, <1>2 DEF ConnIs
      <4> QED
        BY <1>3, <1>4, <3>2, <4>1
    <3> QED
      BY <3>1, <3>2
  <2> QED
    BY <1>1, <2>1 DEF ReplaysAreWhole
<1> QED
  BY <1>7, <1>8, <1>9, <1>10, <1>11, <1>12, <1>13, <1>14 DEF BrokerInv

\* A registration is refused, or takes its id in the indexes; whoever holds the same id has
\* clashed from then on, and the drain is not at work.
LEMMA RegisterKeeps ==
    ASSUME BrokerInv, NEW c \in Conns, Register(c)
    PROVE  BrokerInv'
<1>1. /\ UNCHANGED <<queue, stream, draining, job, due>> /\ BrokerTyped
      /\ conn[c].state = "served" /\ ~Holding(c) /\ ~Joined(c) /\ ~Own(c)
      /\ conn[c].id \in ConnIds /\ conn[c].subject \in Subjects
  BY DEF BrokerInv, Register, Holding, Joined, Own, JoinedAreNamed
<1>2. CASE /\ ~MayRegister(c) /\ got' = [got EXCEPT ![c] = {}]
           /\ UNCHANGED <<index, clashed>> /\ ConnIs(c, "refused", Nobody, Nobody, 0, 0)
  <2>1. /\ got' \in [Conns -> SUBSET (Events \cup Range(Past))]
        /\ \A d \in Conns : d # c => got'[d] = got[d] /\ conn'[d] = conn[d]
    BY <1>1, <1>2 DEF BrokerTyped, ConnIs
  <2>2. \A d \in Conns : Own(d)' => Own(d) /\ d # c
    BY <1>1, <1>2 DEF Own, ConnIs
  <2>3. /\ \A d \in Conns : Joined(d)' <=> Joined(d)
        /\ \A d \in Conns : Holding(d)' <=> Holding(d)
    BY <1>1, <1>2 DEF Joined, Holding, ConnIs
  <2>4. BrokerTyped'
    BY <1>1, <1>2, <2>1 DEF BrokerTyped, ConnIs
  <2>5. JoinedAreNamed'
    <3>1. \A d \in Conns : conn'[d].state = "served" \/ Joined(d)' =>
                              conn'[d].id \in ConnIds /\ conn'[d].subject \in Subjects
      BY <1>1, <1>2, <2>1, <2>3 DEF BrokerInv, JoinedAreNamed, ConnIs
    <3>2. \A k \in Keys, i \in ConnIds : index[k][i] # Nobody => Joined(index[k][i])'
      BY <1>1, <1>2, <2>3 DEF BrokerInv, BrokerTyped, JoinedAreNamed
    <3>3. ASSUME NEW k \in Jobs, NEW d \in job[k].left PROVE Joined(d)'
      BY <1>1, <2>3, <3>3 DEF BrokerInv, BrokerTyped, JoinedAreNamed, JobRow
    <3> QED
      BY <1>1, <1>2, <3>1, <3>2, <3>3 DEF JoinedAreNamed, Joined
  <2>6. HistoriesAreHeld'
    BY <1>1, <1>2, <2>3 DEF BrokerInv, BrokerTyped, HistoriesAreHeld
  <2>7. SameIdClashes'
    <3> SUFFICES ASSUME NEW d \in Conns, NEW x \in Conns, Holding(d)', Holding(x)',
                        conn'[d].id = conn'[x].id
                 PROVE  d = x \/ {d, x} \subseteq clashed
      BY <1>2 DEF SameIdClashes
    <3>1. Holding(d) /\ Holding(x) /\ conn'[d] = conn[d] /\ conn'[x] = conn[x]
      BY <1>1, <2>1, <2>3
    <3> QED
      BY <3>1 DEF BrokerInv, SameIdClashes
  <2>8. OwnIsIndexed'
    <3> SUFFICES ASSUME NEW d \in Conns, Own(d)', NEW k \in {"all", "channel", conn'[d].subject}
                 PROVE  index[k][conn'[d].id] = d
      BY <1>2 DEF OwnIsIndexed, KeysOf
    <3>1. Own(d) /\ conn'[d] = conn[d]
      BY <2>1, <2>2
    <3> QED
      BY <3>1 DEF BrokerInv, OwnIsIndexed, KeysOf
  <2>9. DrainHasAll'
    BY <1>1, <2>2 DEF BrokerInv, DrainHasAll, DrainEndsAll
  <2>10. DueAreServed'
    BY <1>1, <2>1, <2>2 DEF BrokerInv, BrokerTyped, DueAreServed, Received
  <2>11. ReplaysAreWhole'
    <3>1. conn'[c].read = 0 /\ conn'[c].state = "refused" /\ Len(stream) \in Nat
      BY <1>2 DEF BrokerInv, ReplaysAreWhole, ConnIs
    <3> QED
      BY <1>1, <2>1, <3>1 DEF BrokerInv, ReplaysAreWhole
  <2> QED
    BY <2>4, <2>5, <2>6, <2>7, <2>8, <2>9, <2>10, <2>11 DEF BrokerInv
<1>3. CASE /\ MayRegister(c) /\ UNCHANGED got
           /\ ConnIs(c, "open", conn[c].id, conn[c].subject, conn[c].last, conn[c].read)
  <2>1. /\ index' = [k \in Keys |-> IF k \in KeysOf(c)
                                      THEN [index[k] EXCEPT ![conn[c].id] = c] ELSE index[k]]
        /\ clashed' = IF Holders(c) = {} THEN clashed ELSE clashed \cup {c} \cup Holders(c)
    BY <1>3 DEF Register
  <2>2. /\ index' \in [Keys -> [ConnIds -> Conns \cup {Nobody}]]
        /\ \A k \in Keys, i \in ConnIds : index'[k][i] = index[k][i] \/ index'[k][i] = c
        /\ \A k \in Keys, i \in ConnIds : i # conn[c].id => index'[k][i] = index[k][i]
        /\ \A k \in KeysOf(c) : index'[k][conn[c].id] = c
    <3>1. KeysOf(c) \subseteq Keys /\ index \in [Keys -> [ConnIds -> Conns \cup {Nobody}]]
      BY <1>1 DEF KeysOf, Keys, BrokerTyped
    <3>2. ASSUME NEW k \in KeysOf(c) PROVE index'[k] = [index[k] EXCEPT ![conn[c].id] = c]
      BY <2>1, <3>1, <3>2
    <3>3. ASSUME NEW k \in Keys, k \notin KeysOf(c) PROVE index'[k] = index[k]
      BY <2>1, <3>3
    <3>4. ASSUME NEW k \in Keys
          PROVE  /\ index'[k] \in [ConnIds -> Conns \cup {Nobody}]
                 /\ \A i \in ConnIds : index'[k][i] = index[k][i] \/ index'[k][i] = c
                 /\ \A i \in ConnIds : i # conn[c].id => index'[k][i] = index[k][i]
                 /\ k \in KeysOf(c) => index'[k][conn[c].id] = c
      <4>1. index[k] \in [ConnIds -> Conns \cup {Nobody}]
        BY <3>1
      <4>2. CASE k \in KeysOf(c)
        BY <1>1, <3>2, <4>1, <4>2
      <4>3. CASE k \notin KeysOf(c)
        BY <3>3, <4>1, <4>3
      <4> QED
        BY <4>2, <4>3
    <3>5. index' \in [Keys -> [ConnIds -> Conns \cup {Nobody}]]
      BY <2>1, <3>4
    <3> QED
      BY <3>1, <3>4, <3>5
  <2>3. /\ clashed' \subseteq Conns /\ clashed \subseteq clashed'
        /\ Holders(c) \subseteq clashed' /\ (Holders(c) # {} => c \in clashed')
        /\ \A d \in clashed' : d \in clashed \/ d \in Holders(c) \/ d = c
    BY <1>1, <2>1 DEF Holders, BrokerTyped
  <2>4. \A d \in Conns : d # c => conn'[d] = conn[d]
    BY <1>3 DEF ConnIs
  <2>5. \A d \in Conns : Own(d)' => (d # c => Own(d))
    BY <1>1, <2>3, <2>4 DEF Own
  <2>6. /\ \A d \in Conns : Joined(d)' <=> Joined(d) \/ d = c
        /\ \A d \in Conns : Holding(d)' <=> Holding(d) \/ d = c
    BY <1>1, <1>3, <2>4 DEF Joined, Holding, ConnIs
  <2>7. /\ conn'[c].id = conn[c].id /\ conn'[c].subject = conn[c].subject
        /\ conn'[c].last = conn[c].last /\ conn'[c].read = conn[c].read
    BY <1>3 DEF ConnIs
  <2>8. BrokerTyped'
    BY <1>1, <1>3, <2>2, <2>3 DEF BrokerTyped, ConnIs
  <2>9. JoinedAreNamed'
    <3>1. \A d \in Conns : conn'[d].state = "served" \/ Joined(d)' =>
                              conn'[d].id \in ConnIds /\ conn'[d].subject \in Subjects
      BY <1>1, <2>4, <2>6, <2>7 DEF BrokerInv, JoinedAreNamed
    <3>2. ASSUME NEW k \in Keys, NEW i \in ConnIds, index'[k][i] # Nobody
          PROVE  conn'[index'[k][i]].state \in {"open", "closing", "closed"}
      <4>1. CASE index'[k][i] = c
        BY <2>6, <4>1 DEF Joined
      <4>2. CASE index'[k][i] = index[k][i]
        <5>1. index[k][i] \in Conns /\ Joined(index[k][i])
          BY <1>1, <3>2, <4>2 DEF BrokerInv, BrokerTyped, JoinedAreNamed
        <5> QED
          BY <2>4, <2>6, <4>2, <5>1 DEF Joined
      <4> QED
        BY <2>2, <4>1, <4>2
    <3>3. ASSUME NEW k \in Jobs, NEW d \in job[k].left PROVE Joined(d)'
      BY <1>1, <2>6, <3>3 DEF BrokerInv, BrokerTyped, JoinedAreNamed, JobRow
    <3>4. \A k \in Jobs : \A d \in job'[k].left : conn'[d].state \in {"open", "closing", "closed"}
      BY <1>1, <3>3 DEF Joined
    <3> QED
      BY <3>1, <3>2, <3>4 DEF JoinedAreNamed, Joined
  <2>10. HistoriesAreHeld'
    <3>1. \A d \in clashed' : Holding(d)'
      BY <1>1, <2>3, <2>6 DEF BrokerInv, BrokerTyped, HistoriesAreHeld, Holders, Holding
    <3> QED
      BY <1>1, <2>6, <3>1 DEF BrokerInv, BrokerTyped, HistoriesAreHeld
  <2>11. SameIdClashes'
    <3> SUFFICES ASSUME NEW d \in Conns, NEW x \in Conns, Holding(d)', Holding(x)',
                        conn'[d].id = conn'[x].id, d # x
                 PROVE  {d, x} \subseteq clashed'
      BY DEF SameIdClashes
    <3>1. CASE d # c /\ x # c
      BY <2>3, <2>4, <2>6, <3>1 DEF BrokerInv, SameIdClashes
    <3>2. CASE d = c
      <4>1. x \in Holders(c)
        BY <2>4, <2>6, <2>7, <3>2 DEF Holders, Holding
      <4> QED
        BY <2>3, <3>2, <4>1
    <3>3. CASE x = c
      <4>1. d \in Holders(c)
        BY <2>4, <2>6, <2>7, <3>3 DEF Holders, Holding
      <4> QED
        BY <2>3, <3>3, <4>1
    <3> QED
      BY <3>1, <3>2, <3>3
  <2>12. OwnIsIndexed'
    <3> SUFFICES ASSUME NEW d \in Conns, Own(d)', NEW k \in {"all", "channel", conn'[d].subject}
                 PROVE  index'[k][conn'[d].id] = d
      BY DEF OwnIsIndexed, KeysOf
    <3>1. CASE d = c
      BY <2>2, <2>7, <3>1 DEF KeysOf
    <3>2. CASE d # c
      <4>1. Own(d) /\ conn'[d] = conn[d] /\ Holding(d) /\ d \notin clashed'
        BY <2>4, <2>5, <3>2 DEF Own, Holding
      <4>2. conn[d].id # conn[c].id
        BY <2>3, <3>2, <4>1 DEF Holders, Holding
      <4>3. index[k][conn[d].id] = d
        BY <4>1 DEF BrokerInv, OwnIsIndexed, KeysOf
      <4>4. conn[d].id \in ConnIds /\ k \in Keys
        BY <4>1 DEF BrokerInv, JoinedAreNamed, Holding, Joined, Keys
      <4> QED
        BY <2>2, <4>1, <4>2, <4>3, <4>4
    <3> QED
      BY <3>1, <3>2
  <2>13. DrainHasAll'
    <3>1. ~draining
      BY <1>3 DEF MayRegister
    <3>2. job["drain"].step = "idle"
      BY <3>1 DEF BrokerInv, DrainHasAll
    <3> QED
      BY <1>1, <3>2 DEF DrainHasAll, DrainEndsAll
  <2>14. DueAreServed'
    <3> SUFFICES ASSUME NEW x \in Events, NEW d \in due[x], Own(d)'
                 PROVE  \/ Received(d, x)
                        \/ job[x].step # "done" /\ (d \in job[x].left \/ conn'[d].id \in job[x].slow)
      BY <1>1, <1>3 DEF DueAreServed, Received
    <3>1. d \in Conns /\ d # c
      BY <1>1 DEF BrokerInv, BrokerTyped, HistoriesAreHeld
    <3> QED
      BY <2>4, <2>5, <3>1 DEF BrokerInv, DueAreServed
  <2>15. ReplaysAreWhole'
    <3>1. ASSUME NEW d \in Conns
          PROVE  /\ conn'[d].read = conn[d].read /\ conn'[d].last = conn[d].last
                 /\ conn'[d].state \in {"served", "open"} => conn[d].state \in {"served", "open"}
      BY <1>1, <2>4, <2>7
    <3> QED
      BY <1>1, <1>3, <3>1 DEF BrokerInv, ReplaysAreWhole
  <2> QED
    BY <2>8, <2>9, <2>10, <2>11, <2>12, <2>13, <2>14, <2>15 DEF BrokerInv
<1> QED
  BY <1>1, <1>2, <1>3, ConnEffects

\* Of two connections of their own, one gives up only its own id.
LEMMA OnCloseKeeps ==
    ASSUME BrokerInv, NEW c \in Conns, OnClose(c)
    PROVE  BrokerInv'
<1>1. /\ ConnIs(c, "closed", conn[c].id, conn[c].subject, 0, 0) /\ BrokerTyped
      /\ conn[c].state = "closing" /\ Holding(c) /\ Joined(c) /\ conn[c].id \in ConnIds
      /\ index' = WithoutId(conn[c].id) /\ UNCHANGED <<stream, draining, job>>
      /\ queue' = [queue EXCEPT ![c] = <<>>] /\ got' = [got EXCEPT ![c] = {}]
      /\ due' = [e \in Events |-> due[e] \ {c}] /\ clashed' = clashed \ {c}
  <2>1. BrokerTyped /\ JoinedAreNamed
    BY DEF BrokerInv
  <2>2. ConnIs(c, "closed", conn[c].id, conn[c].subject, 0, 0)
    BY <2>1, ConnEffects
  <2>3. conn[c].state = "closing" /\ Holding(c) /\ Joined(c) /\ conn[c].id \in ConnIds
    BY <2>1 DEF OnClose, Holding, Joined, JoinedAreNamed
  <2> QED
    BY <2>1, <2>2, <2>3 DEF OnClose
<1>2. /\ index' \in [Keys -> [ConnIds -> Conns \cup {Nobody}]]
      /\ \A k \in Keys, h \in ConnIds :
            index'[k][h] = index[k][h] \/ (h = conn[c].id /\ index'[k][h] = Nobody)
  BY <1>1, WithoutIdType DEF BrokerTyped
<1>3. /\ \A d \in Conns : d # c => /\ conn'[d] = conn[d] /\ got'[d] = got[d]
                                   /\ queue'[d] = queue[d]
      /\ \A d \in Conns : Joined(d)' <=> Joined(d)
      /\ \A d \in Conns : Holding(d)' <=> Holding(d) /\ d # c
      /\ conn'[c].id = conn[c].id /\ conn'[c].subject = conn[c].subject /\ conn'[c].read = 0
  BY <1>1 DEF ConnIs, BrokerTyped, Joined, Holding
<1>4. \A d \in Conns : Own(d)' => Own(d) /\ d # c
  BY <1>1, <1>3 DEF Own, ConnIs
<1>5. BrokerTyped'
  <2>1. conn' \in [Conns -> ConnRow] /\ clashed' \subseteq Conns /\ due' \in [Events -> SUBSET Conns]
    BY <1>1 DEF BrokerTyped, ConnIs
  <2>2. <<>> \in Seq(Events) /\ Len(<<>>) <= QueueCapacity
    BY QueueCapacity \in Nat
  <2>3. queue' \in [Conns -> Seq(Events)] /\ \A d \in Conns : Len(queue'[d]) <= QueueCapacity
    <3>1. queue' \in [Conns -> Seq(Events)]
      BY <1>1, <2>2 DEF BrokerTyped
    <3>2. queue'[c] = <<>>
      BY <1>1 DEF BrokerTyped
    <3> QED
      BY <1>1, <1>3, <2>2, <3>1, <3>2 DEF BrokerTyped
  <2>4. got' \in [Conns -> SUBSET (Events \cup Range(Past))]
    BY <1>1 DEF BrokerTyped
  <2> QED
    BY <1>1, <1>2, <2>1, <2>3, <2>4 DEF BrokerTyped
<1>6. JoinedAreNamed'
  <2>1. \A d \in Conns : conn'[d].state = "served" \/ Joined(d)' =>
                            conn'[d].id \in ConnIds /\ conn'[d].subject \in Subjects
    BY <1>1, <1>3 DEF BrokerInv, JoinedAreNamed, ConnIs
  <2>2. ASSUME NEW k \in Keys, NEW i \in ConnIds, index'[k][i] # Nobody
        PROVE  conn'[index'[k][i]].state \in {"open", "closing", "closed"}
    <3>1. index'[k][i] = index[k][i] /\ index[k][i] \in Conns /\ Joined(index[k][i])
      BY <1>1, <1>2, <2>2 DEF BrokerInv, BrokerTyped, JoinedAreNamed
    <3> QED
      BY <1>3, <3>1 DEF Joined
  <2>3. ASSUME NEW k \in Jobs, NEW d \in job[k].left PROVE Joined(d)'
    BY <1>1, <1>3, <2>3 DEF BrokerInv, BrokerTyped, JoinedAreNamed, JobRow
  <2>4. \A k \in Jobs : \A d \in job'[k].left : conn'[d].state \in {"open", "closing", "closed"}
    BY <1>1, <2>3 DEF Joined
  <2> QED
    BY <2>1, <2>2, <2>4 DEF JoinedAreNamed, Joined
<1>7. HistoriesAreHeld'
  BY <1>1, <1>3 DEF BrokerInv, BrokerTyped, HistoriesAreHeld
<1>8. SameIdClashes'
  <2> SUFFICES ASSUME NEW d \in Conns, NEW x \in Conns, Holding(d)', Holding(x)',
                      conn'[d].id = conn'[x].id
               PROVE  d = x \/ {d, x} \subseteq clashed'
    BY DEF SameIdClashes
  <2>1. Holding(d) /\ Holding(x) /\ d # c /\ x # c /\ conn'[d] = conn[d] /\ conn'[x] = conn[x]
    BY <1>3
  <2> QED
    BY <1>1, <2>1 DEF BrokerInv, SameIdClashes
<1>9. OwnIsIndexed'
  <2> SUFFICES ASSUME NEW d \in Conns, Own(d)', NEW k \in {"all", "channel", conn'[d].subject}
               PROVE  index'[k][conn'[d].id] = d
    BY DEF OwnIsIndexed, KeysOf
  <2>1. Own(d) /\ d # c /\ conn'[d] = conn[d] /\ Holding(d) /\ d \notin clashed
    BY <1>3, <1>4 DEF Own, Holding
  <2>2. conn[d].id # conn[c].id
    BY <1>1, <2>1 DEF BrokerInv, SameIdClashes
  <2>3. index[k][conn[d].id] = d /\ conn[d].id \in ConnIds /\ k \in Keys
    BY <2>1 DEF BrokerInv, OwnIsIndexed, KeysOf, Keys, JoinedAreNamed, Joined, Holding
  <2> QED
    BY <1>2, <2>1, <2>2, <2>3
<1>10. DrainHasAll'
  BY <1>1, <1>4 DEF BrokerInv, DrainHasAll, DrainEndsAll
<1>11. DueAreServed'
  <2> SUFFICES ASSUME NEW e \in Events, NEW d \in due'[e], Own(d)'
               PROVE  \/ Received(d, e)'
                      \/ job'[e].step # "done" /\ (d \in job'[e].left \/ conn'[d].id \in job'[e].slow)
    BY DEF DueAreServed
  <2>1. d \in due[e] /\ d \in Conns /\ d # c /\ Own(d) /\ conn'[d] = conn[d]
        /\ got'[d] = got[d] /\ queue'[d] = queue[d]
    BY <1>1, <1>3, <1>4 DEF BrokerTyped
  <2> QED
    BY <1>1, <2>1 DEF BrokerInv, DueAreServed, Received
<1>12. ReplaysAreWhole'
  <2>1. Len(stream) \in Nat /\ conn'[c].state = "closed"
    BY <1>1 DEF BrokerInv, ReplaysAreWhole, ConnIs
  <2> QED
    BY <1>1, <1>3, <2>1 DEF BrokerInv, ReplaysAreWhole
<1> QED
  BY <1>5, <1>6, <1>7, <1>8, <1>9, <1>10, <1>11, <1>12 DEF BrokerInv

\* The flag alone.
LEMMA BeginDrainKeeps ==
    ASSUME BrokerInv, BeginDrain
    PROVE  BrokerInv'
<1>1. /\ UNCHANGED <<conn, queue, got, index, stream, job, due, clashed>> /\ draining' = TRUE
      /\ BrokerTyped
  BY DEF BrokerInv, BeginDrain
<1>2. \A d \in Conns : Own(d)' <=> Own(d)
  BY <1>1 DEF Own
<1>3. BrokerTyped'
  BY <1>1 DEF BrokerTyped
<1>4. JoinedAreNamed' /\ HistoriesAreHeld' /\ SameIdClashes'
  BY <1>1 DEF BrokerInv, JoinedAreNamed, Joined, HistoriesAreHeld, Holding, SameIdClashes
<1>5. OwnIsIndexed' /\ DrainHasAll'
  BY <1>1, <1>2 DEF BrokerInv, OwnIsIndexed, KeysOf, DrainHasAll, DrainEndsAll
<1>6. DueAreServed'
  BY <1>1, <1>2 DEF BrokerInv, BrokerTyped, DueAreServed, Received
<1>7. ReplaysAreWhole'
  BY <1>1 DEF BrokerInv, ReplaysAreWhole
<1> QED
  BY <1>3, <1>4, <1>5, <1>6, <1>7 DEF BrokerInv

-----------------------------------------------------------------------------
(* The theorems.                                                               *)

\* At first nobody is connected and nothing is published.
LEMMA BrokerInvInit == BrokerInit => BrokerInv
<1> SUFFICES ASSUME BrokerInit PROVE BrokerInv
  OBVIOUS
<1>1. PICK r : r = [state |-> "idle", id |-> Nobody, subject |-> Nobody, last |-> 0, read |-> 0]
  OBVIOUS
<1>2. r \in ConnRow /\ r.state = "idle" /\ r.last = 0 /\ r.read = 0
  BY <1>1 DEF ConnRow
<1>3. PICK w : w = [step |-> "idle", left |-> {}, slow |-> {}, victim |-> Nobody]
  OBVIOUS
<1>4. w \in JobRow /\ w.step = "idle" /\ w.left = {} /\ w.slow = {}
  BY <1>3 DEF JobRow
<1>5. /\ conn = [c \in Conns |-> r] /\ job = [j \in Jobs |-> w]
      /\ queue = [c \in Conns |-> <<>>] /\ got = [c \in Conns |-> {}]
      /\ clashed = {} /\ index = NewBroker /\ stream = Past /\ draining = FALSE
      /\ due = [e \in Events |-> {}]
  BY <1>1, <1>3 DEF BrokerInit
<1>6. /\ \A c \in Conns : conn[c].state = "idle" /\ conn[c].read = 0
      /\ \A j \in Jobs : job[j].step = "idle" /\ job[j].left = {}
      /\ "drain" \in Jobs /\ \A e \in Events : e \in Jobs
  BY <1>2, <1>4, <1>5 DEF Jobs
<1>7. BrokerTyped
  <2>1. <<>> \in Seq(Events) /\ Len(<<>>) <= QueueCapacity
    BY QueueCapacity \in Nat
  <2>2. queue \in [Conns -> Seq(Events)] /\ \A c \in Conns : Len(queue[c]) <= QueueCapacity
    BY <1>5, <2>1
  <2>3. index \in [Keys -> [ConnIds -> Conns \cup {Nobody}]]
    BY <1>5 DEF NewBroker
  <2> QED
    BY <1>2, <1>4, <1>5, <2>2, <2>3 DEF BrokerTyped
<1>8. JoinedAreNamed /\ HistoriesAreHeld /\ SameIdClashes
  BY <1>5, <1>6 DEF JoinedAreNamed, Joined, HistoriesAreHeld, SameIdClashes, Holding, NewBroker
<1>9. OwnIsIndexed /\ DrainHasAll /\ DueAreServed
  BY <1>5, <1>6 DEF OwnIsIndexed, Own, DrainHasAll, DrainEndsAll, DueAreServed
<1>10. ReplaysAreWhole
  <2>1. Past \in Seq(Events \cup Range(Past)) /\ Len(Past) \in Nat
    BY Past \in Seq(Range(Past))
  <2> QED
    BY <1>5, <1>6, <2>1 DEF ReplaysAreWhole
<1> QED
  BY <1>7, <1>8, <1>9, <1>10 DEF BrokerInv

\* Every step keeps the invariant.
LEMMA BrokerInvStep == BrokerInv /\ [BrokerNext]_brokerVars => BrokerInv'
<1> SUFFICES ASSUME BrokerInv, [BrokerNext]_brokerVars PROVE BrokerInv'
  OBVIOUS
<1>1. CASE UNCHANGED brokerVars
  BY <1>1 DEF brokerVars, BrokerInv, BrokerTyped, JoinedAreNamed, Joined, HistoriesAreHeld,
     Holding, SameIdClashes, OwnIsIndexed, Own, KeysOf, DrainHasAll, DrainEndsAll, DueAreServed,
     Received, ReplaysAreWhole
<1>2. ASSUME NEW c \in Conns, Serve(c) \/ Register(c) \/ OnClose(c) \/ Loop(c) PROVE BrokerInv'
  BY <1>2, ServeKeeps, RegisterKeeps, OnCloseKeeps, LoopKeeps
<1>3. ASSUME NEW e \in Events,
             StoreEvent(e) \/ PublishToChannel(e) \/ CloseSlow(e) \/ PublishReturns(e)
      PROVE  BrokerInv'
  BY <1>3, StoreKeeps, PublishKeeps, CloseSlowKeeps, ReturnKeeps
<1>4. ASSUME NEW e \in Events, NEW c \in Conns, Enqueue(e, c) PROVE BrokerInv'
  BY <1>4, EnqueueKeeps
<1>5. ASSUME NEW e \in Events, NEW i \in ConnIds, Unregister(e, i) PROVE BrokerInv'
  BY <1>5, UnregisterKeeps
<1>6. CASE BeginDrain
  BY <1>6, BeginDrainKeeps
<1>7. CASE SnapshotAll
  <2>1. "drain" \in Jobs /\ "all" \in Keys /\ "drain" \notin Events
    BY DEF Jobs, Keys
  <2> QED
    BY <1>7, <2>1, SnapshotKeeps DEF SnapshotAll
<1>8. CASE CloseNext("drain")
  <2>1. "drain" \in Jobs /\ "drain" \notin Events
    BY DEF Jobs
  <2> QED
    BY <1>8, <2>1, CloseNextKeeps
<1>9. ASSUME NEW s \in Subjects, RevokeSubject(s) \/ CloseNext(s) PROVE BrokerInv'
  <2>1. s \in Jobs /\ s \in Keys /\ s \notin Events /\ s # "drain"
    BY DEF Jobs, Keys
  <2> QED
    BY <1>9, <2>1, SnapshotKeeps, CloseNextKeeps DEF RevokeSubject
<1> QED
  BY <1>1, <1>2, <1>3, <1>4, <1>5, <1>6, <1>7, <1>8, <1>9 DEF BrokerNext

\* So it always holds.
LEMMA BrokerInvHolds == BrokerSpec => []BrokerInv
BY BrokerInvInit, BrokerInvStep, PTL DEF BrokerSpec

\* Type correctness: what Serve, Register, the publishers and the drain write to the broker's
\* indexes, queues and snapshots is a connection, and no queue outgrows its channel
\* (broker.go, connection.go).
THEOREM BrokerIsTyped == BrokerSpec => []BrokerTypeOK
<1>1. BrokerInv => BrokerTypeOK
  BY BrokerTypes DEF BrokerInv
<1> QED
  BY <1>1, BrokerInvHolds, PTL

\* After BeginDrain has closed the connections of its snapshot none of the process is open
\* (broker.go:306): whoever registered before is in the snapshot, nobody registers after.
THEOREM DrainEnds == BrokerSpec => []DrainEndsAll
<1>1. BrokerInv => DrainEndsAll
  BY DEF BrokerInv, DrainHasAll
<1> QED
  BY <1>1, BrokerInvHolds, PTL

\* An open connection has every event whose publish met it and has returned, and every stored
\* event between its Last-Event-ID and the end of its replay, up to the replay's limit
\* (broker.go:221, handler.go:61).
THEOREM OpenConnectionsMissNothing == BrokerSpec => []OpenMissesNothing
<1>1. BrokerInv => OpenMissesNothing
  <2> SUFFICES ASSUME BrokerInv, NEW c \in Conns, NEW e \in Events,
                      Own(c), job[e].step = "done", ~Received(c, e)
               PROVE  /\ c \notin due[e]
                      /\ conn[c].last > 0 /\ Stored(e)
                           /\ Position(e) \in (conn[c].last + 1)..conn[c].read =>
                         Position(e) > conn[c].last + ReplayLimit
    BY DEF OpenMissesNothing
  <2>1. c \notin due[e]
    BY DEF BrokerInv, DueAreServed
  <2>2. ASSUME conn[c].last > 0, Stored(e), Position(e) \in (conn[c].last + 1)..conn[c].read
        PROVE  Position(e) > conn[c].last + ReplayLimit
    <3>1. stream[Position(e)] = e
      BY <2>2 DEF Stored, Position, Range
    <3>2. conn[c].state = "open" /\ conn[c].last \in Nat /\ conn[c].read \in Nat
      BY DEF Own, BrokerInv, BrokerTyped, ConnRow
    <3>3. ~(Position(e) <= conn[c].last + ReplayLimit)
      BY <2>2, <3>1, <3>2 DEF BrokerInv, ReplaysAreWhole, Received
    <3> QED
      BY <2>2, <3>2, <3>3
  <2> QED
    BY <2>1, <2>2
<1> QED
  BY <1>1, BrokerInvHolds, PTL
=============================================================================
