------------------------------ MODULE SSEBroker ------------------------------
(* The server-sent-event infrastructure of one process: the broker's registry *)
(* of connections and its indexes, the connections' queues and goroutines,    *)
(* the replay store, the handler that joins a replay to a live subscription,  *)
(* and the drain at shutdown (internal/infrastructure/sse).  All connections  *)
(* are of one channel; an event is its own payload.  The code that publishes  *)
(* is the caller's: it appends an event to the replay store and then hands it *)
(* to PublishToChannel, the order the comment at Append asks for.             *)
EXTENDS Naturals, Sequences, FiniteSets, Functions

CONSTANTS Conns,        \* calls of Serve
          ConnIds,      \* connection ids a client may send
          Subjects,     \* authenticated subjects
          Past, Events, \* events stored before; events published now, one call each
          QueueCapacity, MaxConnectionsPerSubject, ReplayLimit,
          Nobody

ASSUME BrokerAssumption ==
    /\ {QueueCapacity, MaxConnectionsPerSubject, ReplayLimit} \subseteq Nat \ {0}
    /\ Nobody \notin Conns /\ Past \in Seq(Range(Past)) /\ Range(Past) \cap Events = {}
    /\ Events \cap Subjects = {} /\ "drain" \notin Events \cup Subjects

VARIABLES conn,      \* each connection: state, id, subject, Last-Event-ID, what its replay read
          queue,     \* its channel of events to send
          got,       \* what has been written to its client
          index,     \* Broker.conns, bySubject and byChannel: id -> connection, by key
          stream,    \* the Redis Stream of the channel; an event's id is its position
          draining,  \* Broker.draining
          job,       \* each publish, the revocations and the drain: what is left to do
          due,       \* history: connections open when an event took its snapshot
          clashed    \* history: connections whose id another one had not given back

brokerVars == <<conn, queue, got, index, stream, draining, job, due, clashed>>

-----------------------------------------------------------------------------
Jobs == Events \cup Subjects \cup {"drain"}
Keys == {"all", "channel"} \cup Subjects

KeysOf(c) == {"all", "channel", conn[c].subject}

In(s) == {c \in Conns : conn[c].state = s}
Registered(k) == {i \in ConnIds : index[k][i] # Nobody}

\* The stream holds each event at most once.
Position(e) == CHOOSE i \in DOMAIN stream : stream[i] = e
Stored(e) == e \in Range(stream)

NewBroker == [k \in Keys |-> [i \in ConnIds |-> Nobody]]

BrokerTypeOK ==
    /\ conn \in [Conns -> [state : {"idle", "served", "open", "closing", "closed", "refused"},
                           id : ConnIds \cup {Nobody}, subject : Subjects \cup {Nobody},
                           last : Nat, read : Nat]]
    /\ clashed \subseteq Conns
    /\ index \in [Keys -> [ConnIds -> Conns \cup {Nobody}]]
    /\ draining \in BOOLEAN
    /\ job \in [Jobs -> [step : {"idle", "appended", "sending", "closing", "done"},
                         left : SUBSET Conns, slow : SUBSET ConnIds, victim : Conns \cup {Nobody}]]
    /\ due \in [Events -> SUBSET Conns]
    /\ queue \in [Conns -> Seq(Events)] /\ \A c \in Conns : Len(queue[c]) <= QueueCapacity
    /\ got \in [Conns -> SUBSET (Events \cup Range(Past))]

BrokerInit ==
    /\ conn = [c \in Conns |-> [state |-> "idle", id |-> Nobody, subject |-> Nobody,
                                last |-> 0, read |-> 0]]
    /\ queue = [c \in Conns |-> <<>>] /\ got = [c \in Conns |-> {}]
    /\ clashed = {}
    /\ index = NewBroker
    /\ stream = Past /\ draining = FALSE
    /\ job = [j \in Jobs |-> [step |-> "idle", left |-> {}, slow |-> {}, victim |-> Nobody]]
    /\ due = [e \in Events |-> {}]

-----------------------------------------------------------------------------
(* Serve: the replay, then the registration.                                 *)

\* Faulty: the newest entries.
ReplayAfter_Newest(last) ==
    SubSeq(stream, IF last + ReplayLimit < Len(stream) THEN Len(stream) - ReplayLimit + 1
                                                       ELSE last + 1, Len(stream))

\* ReplayAfter: the entries after Last-Event-ID, oldest first, at most ReplayLimit of them.
ReplayAfter(last) == SubSeq(stream, last + 1, IF last + ReplayLimit < Len(stream)
                                                THEN last + ReplayLimit ELSE Len(stream))

\* A client connects, for the first time (last = 0: no replay) or again; what it
\* missed is read from the store and written to it.  Register's first look at the flag
\* is taken here: the flag is never reset, so an earlier look refuses no other call.
\* A Serve that fails before leaves nothing behind.
Serve(c) ==
    /\ conn[c].state = "idle" /\ ~draining
    /\ \E id \in ConnIds, subject \in Subjects, last \in 0 .. Len(stream) :
          /\ conn' = [conn EXCEPT ![c] = [state |-> "served", id |-> id, subject |-> subject,
                                          last |-> last, read |-> Len(stream)]]
          /\ got' = [got EXCEPT ![c] = IF last = 0 THEN {} ELSE Range(ReplayAfter(last))]
    /\ UNCHANGED <<queue, index, stream, draining, job, due, clashed>>

\* Register under the lock: the flag again, the subject's limit, the indexes and
\* the goroutine.  An id still in use is overwritten in the indexes it shares.
\* Faulty: the flag is not looked at again.
MayRegister_Once(c) == Cardinality(Registered(conn[c].subject)) < MaxConnectionsPerSubject

MayRegister(c) ==
    ~draining /\ Cardinality(Registered(conn[c].subject)) < MaxConnectionsPerSubject

Holders(c) == {d \in Conns \ {c} : /\ conn[d].id = conn[c].id
                                   /\ conn[d].state \in {"open", "closing"}}

Register(c) ==
    /\ conn[c].state = "served"
    /\ \/ /\ MayRegister(c)
          /\ conn' = [conn EXCEPT ![c].state = "open"]
          /\ index' = [k \in Keys |-> IF k \in KeysOf(c)
                                        THEN [index[k] EXCEPT ![conn[c].id] = c] ELSE index[k]]
          /\ clashed' = IF Holders(c) = {} THEN clashed ELSE clashed \cup {c} \cup Holders(c)
          /\ UNCHANGED got
       \/ /\ ~MayRegister(c)
          /\ conn' = [conn EXCEPT ![c] = [state |-> "refused", id |-> Nobody, subject |-> Nobody,
                                          last |-> 0, read |-> 0]]
          /\ got' = [got EXCEPT ![c] = {}]
          /\ UNCHANGED <<index, clashed>>
    /\ UNCHANGED <<queue, stream, draining, job, due>>

-----------------------------------------------------------------------------
(* The end of a connection.                                                  *)

\* unregisterInternal, under the lock: the id leaves the indexes of the
\* connection that Broker.conns holds for it now.
WithoutId(id) ==
    IF index["all"][id] = Nobody THEN index
    ELSE [k \in Keys |-> IF k \in KeysOf(index["all"][id])
                           THEN [index[k] EXCEPT ![id] = Nobody] ELSE index[k]]

\* Connection.Close: once; what follows the closing of the channel is OnClose.
Closed(c) == IF conn[c].state = "open" THEN [conn EXCEPT ![c].state = "closing"] ELSE conn

\* The callback of a closing connection removes its id; its queue is of no use to
\* anybody, and what its client has is looked at no more.
OnClose(c) ==
    /\ conn[c].state = "closing"
    /\ conn' = [conn EXCEPT ![c].state = "closed", ![c].last = 0, ![c].read = 0]
    /\ index' = WithoutId(conn[c].id)
    /\ queue' = [queue EXCEPT ![c] = <<>>]
    /\ got' = [got EXCEPT ![c] = {}]
    /\ due' = [e \in Events |-> due[e] \ {c}]
    /\ clashed' = clashed \ {c}
    /\ UNCHANGED <<stream, draining, job>>

\* One turn of loop: an event of the queue is written, or the goroutine closes the
\* connection: the context is done, or a write or a heartbeat failed.
Loop(c) ==
    /\ conn[c].state = "open"
    /\ \/ /\ queue[c] # <<>>
          /\ got' = [got EXCEPT ![c] = @ \cup {Head(queue[c])}]
          /\ queue' = [queue EXCEPT ![c] = Tail(@)]
          /\ UNCHANGED conn
       \/ /\ conn' = Closed(c)
          /\ UNCHANGED <<queue, got>>
    /\ UNCHANGED <<index, stream, draining, job, due, clashed>>

-----------------------------------------------------------------------------
(* Publishing: the replay store first, then a snapshot of the channel, then   *)
(* each connection of the snapshot, then the ids of those that were not able. *)

\* RedisReplayStore.Append of a durable event, done or failed.
StoreEvent(e) ==
    /\ job[e].step = "idle"
    /\ \/ stream' = Append(stream, e)
       \/ UNCHANGED stream
    /\ job' = [job EXCEPT ![e].step = "appended"]
    /\ UNCHANGED <<conn, queue, got, index, draining, due, clashed>>

PublishToChannel(e) ==
    /\ job[e].step = "appended"
    /\ job' = [job EXCEPT ![e].step = "sending",
                          ![e].left = {index["channel"][i] : i \in Registered("channel")}]
    /\ due' = [due EXCEPT ![e] = In("open")]
    /\ UNCHANGED <<conn, queue, got, index, stream, draining, clashed>>

\* Enqueue never waits: a closed connection or a full queue is a slow consumer.
Enqueue(e, c) ==
    /\ job[e].step = "sending" /\ c \in job[e].left
    /\ IF conn[c].state = "open" /\ Len(queue[c]) < QueueCapacity
         THEN /\ queue' = [queue EXCEPT ![c] = Append(@, e)]
              /\ job' = [job EXCEPT ![e].left = @ \ {c}]
         ELSE /\ job' = [job EXCEPT ![e].left = @ \ {c}, ![e].slow = @ \cup {conn[c].id}]
              /\ UNCHANGED queue
    /\ UNCHANGED <<conn, got, index, stream, draining, due, clashed>>

\* A call of Close returns when the callback has run.
CloseReturned(j) == job[j].victim # Nobody => conn[job[j].victim].state = "closed"

\* Unregister of a slow consumer: the indexes under the lock, then Close.
Unregister(e, id) ==
    /\ job[e].step = "sending" /\ job[e].left = {} /\ id \in job[e].slow
    /\ CloseReturned(e)
    /\ index' = WithoutId(id)
    /\ job' = [job EXCEPT ![e].step = "closing", ![e].slow = @ \ {id},
                          ![e].victim = index["all"][id]]
    /\ UNCHANGED <<conn, queue, got, stream, draining, due, clashed>>

CloseSlow(e) ==
    /\ job[e].step = "closing"
    /\ conn' = IF job[e].victim = Nobody THEN conn ELSE Closed(job[e].victim)
    /\ job' = [job EXCEPT ![e].step = "sending"]
    /\ UNCHANGED <<queue, got, index, stream, draining, due, clashed>>

PublishReturns(e) ==
    /\ job[e].step = "sending" /\ job[e].left = {} /\ job[e].slow = {}
    /\ CloseReturned(e)
    /\ job' = [job EXCEPT ![e].step = "done", ![e].victim = Nobody]
    /\ UNCHANGED <<conn, queue, got, index, stream, draining, due, clashed>>

-----------------------------------------------------------------------------
(* The drain at shutdown and the revocation of a subject: a snapshot, then a  *)
(* Close of each connection in it.                                            *)

\* BeginDrain sets the flag without the lock ...
BeginDrain ==
    /\ ~draining
    /\ draining' = TRUE
    /\ UNCHANGED <<conn, queue, got, index, stream, job, due, clashed>>

Snapshot(j, k) ==
    /\ job[j].step = "idle"
    /\ job' = [job EXCEPT ![j].step = "closing",
                          ![j].left = {index[k][i] : i \in Registered(k)}]
    /\ UNCHANGED <<conn, queue, got, index, stream, draining, due, clashed>>

\* ... and then takes its snapshot.
SnapshotAll == draining /\ Snapshot("drain", "all")

RevokeSubject(s) == Snapshot(s, s)

CloseNext(j) ==
    /\ job[j].step = "closing" /\ CloseReturned(j)
    /\ \/ \E c \in job[j].left :
             /\ conn' = Closed(c)
             /\ job' = [job EXCEPT ![j].left = @ \ {c}, ![j].victim = c]
       \/ /\ job[j].left = {}
          /\ job' = [job EXCEPT ![j].step = "done", ![j].victim = Nobody]
          /\ UNCHANGED conn
    /\ UNCHANGED <<queue, got, index, stream, draining, due, clashed>>

-----------------------------------------------------------------------------
BrokerNext ==
    \/ \E c \in Conns : Serve(c) \/ Register(c) \/ OnClose(c) \/ Loop(c)
    \/ \E e \in Events : StoreEvent(e) \/ PublishToChannel(e) \/ CloseSlow(e)
                           \/ PublishReturns(e)
    \/ \E e \in Events, c \in Conns : Enqueue(e, c)
    \/ \E e \in Events, i \in ConnIds : Unregister(e, i)
    \/ BeginDrain \/ SnapshotAll \/ CloseNext("drain")
    \/ \E s \in Subjects : RevokeSubject(s) \/ CloseNext(s)

BrokerSpec == BrokerInit /\ [][BrokerNext]_brokerVars

-----------------------------------------------------------------------------
(* Properties.  They are about open connections that no publisher is about to *)
(* close as slow: it has taken the index entry already.  A connection whose   *)
(* id is in use by another is outside their promise: the broker knows         *)
(* connections by id only (broker.go:89), and the end of either takes the     *)
(* entry of the other away.                                                   *)

Own(c) == /\ conn[c].state = "open" /\ c \notin clashed
          /\ ~ \E e \in Events : job[e].step = "closing" /\ job[e].victim = c

Received(c, e) == e \in got[c] \cup Range(queue[c])

\* Once BeginDrain (broker.go:306) is through its snapshot no connection of this
\* process is open: a Register that passed the first look at the flag either is in
\* the snapshot or meets the second look.
DrainEndsAll == job["drain"].step = "done" => \A c \in Conns : ~Own(c)

\* An open connection has, in its queue or on the wire, every event whose publish
\* (broker.go:221) took its snapshot while it was open and has returned: who misses
\* one is disconnected, so that the client comes back with its Last-Event-ID.  A
\* client that came back (handler.go:61) misses a later stored event only when more
\* than ReplayLimit were waiting, or when it was stored after the replay was read and
\* its snapshot was taken before the connection was registered.
OpenMissesNothing ==
    \A c \in Conns, e \in Events :
        Own(c) /\ job[e].step = "done" /\ ~Received(c, e) =>
            /\ c \notin due[e]
            /\ conn[c].last > 0 /\ Stored(e) /\ Position(e) \in (conn[c].last + 1)..conn[c].read =>
                 Position(e) > conn[c].last + ReplayLimit
=============================================================================
