# CodeSphere in TLA+

CodeSphere is a Go back end for groups that practise programming problems: users,
organisations and roles, accounts on external online judges (OJ), training tasks,
images, an AI assistant. It runs as several server processes over one MySQL and one
Redis, and most of its correctness hangs on what those processes do to each other
through the two. This directory specifies that part in TLA+, checks it with TLC and
proves with TLAPS, for every size of the instance, the outbox relay and its pipeline, the OJ tasks
and their intake, memberships with the rankings that follow them, sessions and the streaming of
AI conversations.

Paths below are relative to the repository, `src/` being its root.

1. [The system](#1-the-system)
2. [The modules](#2-the-modules)
3. [The runs](#3-the-runs)
4. [Fairness](#4-fairness)
5. [What is proved](#5-what-is-proved)
6. [What is only model-checked, and what is not modelled](#6-limits)
7. [The plan](#7-the-plan)

## 1. The system

### Components

| Component | State it keeps | Operations | What makes it correct |
| --- | --- | --- | --- |
| Outbox relay (`internal/infrastructure/outbox`, `outboxRepo.go`) | `outbox_events` rows: status, `retry_count`, `created_at` | `PublishInTx`, `Process` (lock, query, XADD, mark), clean-up | none is marked published that was not, retries are finite and counted, overlap only by a lost lease |
| Redis lock (`pkg/redislock`) | key with token and TTL | TryLock, autoRenew, Unlock | a holder loses its key only by its own doing or by a failed renewal |
| Redis Stream publisher / subscriber (`internal/infrastructure/messaging`) | stream, group cursor, pending list | XADD, XREADGROUP `>`, handler, XACK | no entry handled twice, none forgotten without a fault |
| Permission projection (`permissionProjectionSvc.go`, `pkg/casbin`, `subscriberInit.go`) | relation tables; `casbin_rule`; an enforcer per process | `SyncSubjectRoles`, `RebuildAll`, reload broadcast, start-up | projection equals the relations at rest; a revocation reaches every enforcer |
| OJ task lifecycle (`ojTaskSvc.go`, `ojTaskDispatcher.go`) | task versions, executions, snapshots | create, revise, retry, update, delete, execute now; scan, trigger, claim, snapshot | one executor per version, edits never lost, statuses agree, due work is done |
| OJ task intake (`ojTask_question_upsert.go`, `ojTask_resolution.go`, `ojTask_preflight.go`, the question bank) | questions, the cache of their ids, task items waiting for a question | insert, announce, draft, resolve, check | an item waits in both tables or in none, nothing announced is missed, nothing executed waits |
| Users, organisations, membership (`userSvc.go`, `orgSvc.go`, `orgMemberRepo.go`) | users, organisations, members, current organisation, roles | register, create, join, leave, kick, recover, set current, assign roles, dissolve, ban, clean up | roles need membership, the current organisation is a joined one, every change of roles is projected |
| Cache projection, ranking (`cacheProjectionSvc.go`, `pkg/rankingcache`, `activeUserMW.go`) | rankings and active states in Redis | project one user, rebuild, check a request | the ranking follows the current organisation; a ban takes hold |
| OJ accounts (`ojSvc.go`, `ojLanqiaoSvc.go`) | account rows, solved problems, Lanqiao's switch and marks | bind, handle the bind event, synchronise | the row is the account last bound, its problems are its own, what is missed is caught up |
| OJ daily statistics (`ojDailyStatsProjectionSvc.go`) | statistics per day | reset, rebuild, repair | the newest rows come to have the account's total |
| AI conversations (`aiSvc.go`, `aiSink.go`, `aiProjector.go`, the eino runtime) | conversations, messages, `is_generating` | create, stream, delete | one stream per conversation, it ends, turns stay whole |
| AI memory (`aiMemory*.go`) | summary, facts, documents and vectors | write back a turn, index | the text reaches its boundary, the summary keeps up, the best fact wins, documents are indexed |
| Images and storage (`imageSvc.go`, `pkg/imageops`) | image rows, files | upload, instant upload, delete, orphan clean-up | rows have their files, files have their rows, the quota |
| Metrics (`pkg/observability/metrics`) | buckets in memory, 1m/5m/1d/1w rows | count, flush, roll up | each request is counted once, a day has the sum of its minutes |
| Traces (`pkg/observability/trace`) | queues, buffers, a Redis stream, span rows | record, flush, consume, clean up | an accepted span is on its way or stored |
| SSE broker (`internal/infrastructure/sse`) | connections, indexes, queues, replay log, drain flag | serve, register, publish, close, revoke, drain | no event between replay and registration is lost, a drain leaves nobody |
| Roles, menus, APIs (`roleSvc.go`, `menuSvc.go`, `apiSvc.go`) | roles, menus, APIs and their relations | create, update, delete, assign, bind, synchronise with the routes | what was changed was announced, what was assigned stands, what is archived stays so |
| Sessions (`jwtSvc.go`, `userCtrl.go`, the writes of user rows) | recorded token, list of refused tokens and its cache per process, the account row | log in, log out, rotate, decide a status, save a row | old sessions are refused, a decision stands |
| Rate limiting, crawlers, controllers, routers, configuration | counters | - | - |

### How they meet

* A business transaction writes its rows and an outbox row together. The relay of *some*
  process publishes the row to a Redis stream; a consumer of the group handles it, reads the
  database back and projects what it finds: permissions, caches, statistics, triggers.
* A permission change is, besides, projected at once by the request that made it
  (`SyncSubjectRoles`), so requests and consumers write `casbin_rule` concurrently; a pub/sub
  broadcast makes every process reload its enforcer.
* The OJ dispatcher is fed twice: by a cron scan over due rows and by trigger events.
  Both end at `ClaimExecution`, as do several processes, with or without the Redis lock.
* Requests of the membership look at rows first and change them in a later transaction; each
  commit leaves one event for the ranking and one for the permissions it changed.
* The row of an OJ account is written by the bind request, by the handler of the bind event and
  by the periodic synchronisation; the statistics by a consumer, a repair job and requests.
* A stream releases its conversation before the writeback of its turn begins, so writebacks of
  consecutive turns overlap.
* A synchronisation of solved problems adds questions to the bank and an event for each title; its
  handler, the requests that draft tasks and the check before an execution all write the items
  that wait for those titles, each from what it read of the others.
* A call that changes roles, menus or APIs reads in one step and writes in another; its
  transaction leaves the event from which the permissions are projected.
* Cron tasks run in every process and are kept apart by a Redis lock per task
  (`task/enter.go`, `tasktrace.Wrap`), whose holder is not told when it loses it.

### What is hard in it

Two relays over one batch after a lease was lost; XADD or COMMIT that took effect while the
reply was lost; handlers that are never retried because the loop only reads `>`; whole structs
saved after they were read several steps earlier; row locks taken in opposite orders; projections
written by whoever read first and came last; checks made before the transaction that relies on
them; an in-memory enforcer that is cleared, saved and
reloaded by goroutines that do not know of each other; a flag that every way out of a stream has to
clear; batches that are merged back while new ones are counted; files that are shared by rows and
deleted by a task; a process that dies between any two of
these steps. `PROJECT.json` lists these hazards at their lines, with the properties that watch
them.

## 2. The modules

| Module | Models |
| --- | --- |
| `EventDelivery` | what a transactional outbox promises, with no rows, relays or locks |
| `OutboxRelay` | rows, relays, the relay lock; refines `EventDelivery` |
| `StreamGroup` | a Redis stream with one consumer group and its subscriber loops |
| `EventPipeline` | `OutboxRelay` and `StreamGroup` on one stream |
| `EventPipelineProofs` | theorems about `OutboxRelay` and `EventPipeline` |
| `TaskVersion` | what becomes of a task version, with no workers, locks, triggers or saves |
| `OJTask` | task versions and executions, operators' requests, dispatch workers; refines `TaskVersion` |
| `OJTaskProofs` | theorems about `OJTask`, `OJAccount` and `OJDailyStats` |
| `QuestionIntake` | the question bank, its cache and events; drafts, items that wait, the handler, the check before an execution |
| `PermissionProjection` | relations, `casbin_rule`, enforcers; requests, consumers, start-up |
| `PermissionProjectionProofs` | theorems about `PermissionProjection` |
| `Membership` | users, organisations, members, current organisation, roles; calls that check first and commit later |
| `CacheProjection` | extends `Membership` by the rankings, the cached active state and what writes them |
| `CacheProjectionProofs` | theorems about both |
| `Sessions` | one user's tokens on several processes: login, rotation, logout, the refused list; the account row and who saves it |
| `AccessGraph` | roles, menus, APIs and their relations; calls that read first and commit later |
| `ConsoleProofs` | theorems about `AccessGraph`, `Sessions` and `QuestionIntake` |
| `OJAccount` | a user's account at a judge: bind, bind event, synchronisation |
| `OJDailyStats` | extends `OJAccount` by the statistics projected from it |
| `AIConversation` | streams of answers, the claim and release of their conversations |
| `AIConversationProofs` | theorems about `AIConversation` and `AIMemory` |
| `AIMemory` | writebacks of turns: summary, facts, documents |
| `SpanPipeline` | spans from the queues over a Redis stream to the table |
| `MetricRollup` | counting and flushing of requests, the daily roll-up |
| `ImageStore` | image rows, files, uploads, the orphan clean-up |
| `BackgroundProofs` | theorems about `SpanPipeline`, `ImageStore` and `MetricRollup`, and about sums over finite sets |
| `SSEBroker` | connections, their indexes and queues, the replay log, publishers, revocation, drain |
| `SSEBrokerProofs` | theorems about `SSEBroker` |
| `MCDomainEvents` | `OutboxRelay` and `PermissionProjection` for TLC |
| `MCConsole` | `AccessGraph`, `Sessions`, `SSEBroker` and `QuestionIntake` for TLC |
| `MCAssistant` | `AIConversation` and `AIMemory` for TLC |
| `MCBackground` | `SpanPipeline`, `MetricRollup` and `ImageStore` for TLC |
| other `MC*` | one module each for TLC |

Definitions keep the names of the functions they translate; `map` in `PROJECT.json` gives the
lines. Definitions marked "Faulty" are what a plausible bug would make of an action; no
specification uses them, they show that the properties would notice. Each module has a type
invariant (`TypeOK`, or `AccessTypeOK` and the like in modules that an MC
module extends together); it documents what the variables may be and is a part of the inductive invariant wherever
something is proved.

**EventDelivery.** An event is accepted when its transaction commits, delivered any number of
times, and may be given up on only after `MaxAttempts` failed attempts and no delivery.

**OutboxRelay.** `status`, `retry`, `createdAt` are the columns of a row; `"open"` is the row of a
transaction other sessions cannot see yet, `"purged"` a soft-deleted one. A relay's `pc`, `batch`
and `cur` are the local state of `RelayProcessor.Process`; every database or Redis call is a step
of its own, and so is its failure. `PublishError` covers both an XADD that did not happen and one
whose reply was lost. `MarkAsPublished` and `MarkAsFailed` address the row by `event_id` alone,
whatever its status is by then. `lock` is the Redis key: `LeaseLost` is a failed renewal, which
`autoRenew` logs without telling the holder; `LockTimeout` the expiry of a key nobody renews.
`MarkAsFailed` updates from a map, whose keys gorm sorts: `retry_count` is assigned before `status`, and
MySQL evaluates assignments from left to right, so the CASE that compares `retry_count + 1` with the
maximum sees this failure twice. `GivenUpAfter` is the number of failures that results: one less than
`MaxRetries`, but at least one.

**StreamGroup.** `cursor` and `pel` are the last-delivered id and the pending list of the group;
`next..last` and `toAck` are the loop of `Subscribe` with a reply in hand. The loop asks for `>`
only, so lost replies, handler errors, failed acknowledgements and crashes strand entries; the
actions say when. A subscriber tries once to create the group (`CreateGroup`); an error is logged and the
loop starts all the same (`CreateGroupError`), reading from a group that may not exist until another
subscriber or a restart creates it. All processes share the configured consumer name, which is why no action
distinguishes pending entries by consumer.

**EventPipeline** interleaves the two; they share `stream` and nothing else. A handler may thus
run while the relay that published the entry is still before its `MarkAsPublished`.

**TaskVersion.** A version goes through the states of its execution along `Lifecycle`; it may be edited while it
waits for its time; whoever succeeds leaves a snapshot of the content that stands. No step puts a version back,
and none changes what it says once it was taken up. Its one oddity is the code's: a version whose snapshot is
committed may still be declared failed, when the reply of the commit was lost (`CommitReplyLost`).

**OJTask.** A version and its execution share an id. `taskRow` and `execRow` are InnoDB row locks,
held to the end of the transaction that took them; `lease` the Redis lock of an execution;
`triggers` the messages on their way. An operator's edit is `BeginEdit` (SELECT FOR UPDATE)
followed by one of its ends; creation from a source reads first and inserts later, as
`ReviseTask` and `RetryTask` do. A worker passes through lock, claim, load, set executing,
preflight, snapshot, the snapshot transaction, and the two writes of a failure; `copy` is the task
struct it loaded, which `Save` writes back whole. `Deadlock` aborts one side when an edit (task,
then execution) and a snapshot transaction (execution, then task) wait for each other.
`data` faults stand for business data that makes a snapshot fail.

**QuestionIntake.** `bank` is the table of questions of one platform, `cache` the Redis hash of their
ids, which a goroutine of `BatchCreate` (`filling`) writes whether or not the transaction commits.
A draft, an edit or a retry is `Begin...` (the rows it is going to write, with what the bank says then)
and `CommitDraft`; the check before an execution is `ReadItems` and `PreFlightCheck`, the handler of
an announced title `ReadPending` and `SaveResolved`. Each reads the snapshot of its first query and
saves whole rows at its commit, so that a handler may save items an edit has replaced meanwhile.
A title stands for all normalisations of it; analysis tokens and the search for similar titles are
left out. `written`, `crossed` and `late` are histories: what the last draft of a task wrote, whose
task was edited while a handler held rows of it, what was written as waiting although its
question had come.

**PermissionProjection.** `truth` is what the relation tables hold, `enabled` the roles whose
status is 1, `table` is `casbin_rule`, `mem` the enforcer of each process. A *scope* is a subject
(its bindings) or the graph (everything). A run of `SyncSubjectRoles` or `RebuildAll` is a thread:
`ReadRoles`, `ReadPermissions`, `Erase` (`DeleteRolesForUser`, or `ClearPolicy`), `SavePolicy`
(only a rebuild), then `AddRule` one rule at a time, then `Broadcast` when it is the consumer's.
`ReadRoles` filters disabled roles for a subject and does not for a rebuild, as the two queries
do. Three properties of the libraries, as the code relies on them, are assumed: Casbin adds a rule
unless the enforcer holds it, to the table first; `LoadPolicy` clears the enforcer before it
reads; `SavePolicy` of the adapter truncates the table and writes the rules the enforcer has at
that moment. `DissolveOrg` is the part of `DeleteOrg` that concerns the projection: it removes the
bindings of the members and leaves neither an event nor a sync. `newer`, `overtaken`, `crossed` and
`orphaned` are history variables: no action of the program depends on them. The first three record whether a
run wrote after a run that had read later, or a reload put back what a rebuild had just cleared;
`orphaned` holds the bindings that `DissolveOrg` removed and that no consumer has looked for since.

**Membership.** A call of the service is two steps: `Begin`, with the checks (`May...`) and list
queries the code makes outside its transaction, and the transaction, which looks again only at what
the code looks at again. `ReadForLeave` is between the two: leaving and kicking take a row lock on
the member (`Unlocked`) and then read the user and the other memberships from the snapshot.
`holds` has a pair as soon as there is any role: which roles they are does not matter to a
membership. `SaveUser` is the save of the whole row by `UpdateProfile`, `ChangePhone` and
`ChangePassword`: current organisation and status go back to what they were when the row was read, and only a new
avatar leaves an event. `stale` is a history variable: it records for whom a commit relied on a read that
no longer held, or wrote it back, for the roles or for the current organisation.

**CacheProjection.** `events` are the events the commits of `Membership` leave. A consumer reads
the user (`TakeEvent`) and writes rankings and active state later; a rebuild clears, lists and
writes; a visit is `ActiveUserMW`, which reads the cache, then the database, and fills the cache with what
it read. `crossed` records that a run began while another was at work, `lost` that one broke off.

**Sessions.** One user on several processes. A token is the second it was issued in, so two logins
of one second return the same one. `recorded` is the Redis key of the user, `listed` the table of refused
tokens, `refused` the cache each process fills from it at start. A call is one step per statement of the
code: `GetRedisJWT`, `CreateJwtBlacklist`, `SetBlackCache`, `SetRedisJWT`. `ReadForSave` and `SaveUser` are any of
the calls that load the user's row and save it whole. `forgotten` holds tokens whose record went without their
being listed, `overlapped` says that a row was saved that had changed since it was read.

**AccessGraph.** A call reads (`ReadFor...`) and commits later, in one transaction, by what it has read;
`announced` is the graph when the last event was committed. Codes of roles and menus and the path and method of an API
are the identity of its row; the status of a role is not part of the relations that are
projected; `Assigning` is the Redis lock around an assignment, whose loss is not modelled. `granted`, `overtook`
and `silent` are histories.

**OJAccount.** One user and one judge, chosen in `Init`, because the three differ: leetcode's bind
takes no lock, luogu's takes one of the new identifier, Lanqiao's goes by a hash and has a switch
that failures and wrong passwords turn off. `rows` are the detail rows in the order of their ids,
`facts` the problems stored for a row, `judge` what the judge would answer. Lanqiao apart, problems are stored
under the ids that a Redis hash has for them. `RollsBack` is a batch whose transaction fails after the
hash was filled: its problems are `lost`, because the hash keeps the ids of rows that are not there and
every later batch with one of them breaks the foreign key. Leetcode's synchronisation writes the row (`SyncWrites`)
and asks for the problems afterwards (`SyncSolved`); luogu's writes nothing when the row is gone, since it would
create it again under the same key. `bound` is the account
of the last bind that came through; `crossed` records that somebody wrote by a row that had
changed since he read it, `broken` that a bind broke off after its row was written.

**OJDailyStats.** A rebuild reads the total and writes it later; `rebuild` counts those under way by
the total they have read, since nothing else tells them apart. The rows of one day stand for all.
`Total` is what the newest of them comes to: the days start from the row's total less the facts of the
window, but from no less than zero, so with more facts than the row says it is the number of facts
(Lanqiao has no total but that).

**AIConversation.** A request is `CheckConversation` (no lock), `PersistStreamStart` (row lock,
`is_generating` checked again and set, both messages inserted), `PrepareRun`, the events of the runtime, and
`FinishStream`. `Emit` is `aiStreamSink.Emit`: the event goes to the client, the message in memory
changes, and some events store it; each of the three may fail. `Stored` is gorm's `Save`, which
inserts the row again if it was deleted. `cut` records whose conversation was deleted
while they streamed.

**AIMemory.** One conversation whose turns end one after the other and whose writebacks may
overlap. A summary is its scope (the organisation of the turn), its boundary and, as a history,
the turns whose messages its text holds. The extractor is that of the shipped configuration, by rules: a full refresh
shows the last six messages (`Shown` turns), puts them before the old text, of which the cut at
`summaryMaxRunes` leaves an arbitrary part, and moves the boundary to its own answer; anything else
keeps text and boundary. A draft without text, which a language model may return, writes nothing (`EmptyDraft`).
`overlapped` records that two writebacks ran at once.

**SpanPipeline.** `queue` and `buffer` are a writer's two channels and its slice, `batch` the
slice of a consumer, `pending` the pending list of the group. `FlushToStreamError` lets any part of the
pipeline of XADDs take effect before the fallback writes the buffer to the table. Unlike the event
subscribers of `StreamGroup`, this consumer claims what stays pending, and
`ClaimTimedOutPending` may take an entry from a consumer that is merely slow. `Stop` is crash and
shutdown alike: on shutdown the last flush uses the context that was just cancelled.

**MetricRollup.** `flushing` holds what a flush has swapped out of `buckets`, by the ticker or by
the task; rows are written one statement each, and an error merges all of them back. The task flushes,
aggregates the minutes before a cutoff, writes the sums absolutely and deletes the minutes; its
lock can be lost under it. The cutoff of the code carries seconds, so the bucket of its minute counts
as old: `cutoff` is the first minute that does not. `served` and `purged` are histories, `split` the days that were
summed up again after some of their minutes had been deleted.

**ImageStore.** A key is a file; several rows may have the same key, since an equal image is not
uploaded twice. The clean-up lists keys, deletes files one at a time, and then the rows of
the keys whose file is gone. After a change of the configuration (directory, bucket or driver,
`InitStorage`) a driver may look for a file where it is not, and what does not exist counts as deleted.
`raced` records the keys that were listed while an upload was about to reuse them, `stranded` files of uploads
that ended before they had a row, and files the clean-up did not find.

**SSEBroker.** One process. `Serve` and `Register` are the two halves of `ChannelStreamHandler.Serve`
with the look at the drain flag in each; `Loop` is the goroutine of a connection, `Enqueue` a publisher at one
connection, `Unregister`/`CloseSlow` what it does with those that were not able, `CloseNext` a step of the
drain or of a revocation. Nothing outside the package calls the handler, `PublishToChannel` or `RevokeSubject`
at this commit, so their callers are taken as the comments of the package have them. A goroutine may still write
what it finds in its queue after `Close`; publishing to a subject and the pub/sub back plane are left out.
`due` and `clashed` are histories.

## 3. The runs

Twelve runs; ten pass, two show a disagreement with a comment of the repository. Every
passing run has, for each property, a faulty variant of a definition that breaks it.

Four runs check modules that share no state (`MCDomainEvents`, `MCConsole`, `MCAssistant`,
`MCBackground`). A variable `part`, chosen in the initial state, says which module the behaviour
runs; the others stay in their initial states. The states of such a run are the sum of the modules'
and not the product, and each property speaks of one module: nothing is lost, and the
modules do not multiply.

| Run | Instance | Properties and what they show |
| --- | --- | --- |
| `domain_events_safety` | relay: 2 relays, 2 events, `MaxRetries` 3 (given up after two failures), batches of 2, every fault; permissions: 2 processes with a request and a consumer each, 2 changes, a failed query and a failed broadcast | `OverlapNeedsLostLease`, `DriftNeedsCrossing`, `RevocationReachesAll`, and that `OutboxRelay` implements `EventDelivery` |
| `pipeline_faults` | 1 event, 1 relay, `MaxRetries` 3, 2 consumers, Redis and database faults, a lost lease, a crash, 2 consumer faults | `RepeatsAreRelayFaults`: handlers run once for an entry, and for an event once more than its relay had faults; under fairness `HandledOrAccountedFor`: an event is handled, or was lost in one of the three known ways |
| `ojtask_safety` | 2 workers, one fault of each kind, time 0 and 1, on one version; 2 operators and 3 versions while no worker is at work | `OneExecutor`, `StatusesAgreeAtRest` (task and execution agree, deletion cancels, chains are numbered without gap or repetition), and that `OJTask` implements `TaskVersion`: no save of a worker takes an edit back, no version is taken up twice, no snapshot is of other content |
| `ojtask_live` | 1 version, 1 worker, 1 operator, one fault of each kind but lost commits | `DueIsTakenUp`, `ExecutingEnds` |
| `permission_live` | 1 process, 2 changes, at most two kinds of fault in one behaviour (a message lost or repeated, a failed query, a failed broadcast, a crash) | `ChangeIsProjected` |
| `console_calls` | access: 1 role, 2 menus, 1 API, 2 requests, 3 calls; sessions: 2 processes, 2 requests, 3 calls, 3 seconds, 1 fault; broker: 2 connections, 2 publishers, a revocation and a drain, queues of 1; intake: 2 questions of one title, 2 tasks, 2 synchronisations, 1 handler, 2 items, 1 fault | `GraphIsAnnounced`, `GrantsAreCurrent`, `ArchivedStays`; `OthersAreListed`, `RefusedStaysRefused`; `DrainEndsAll`, `OpenMissesNothing`; `DraftsAreWhole`, `PendingWasMissed`, `ExecutedIsDecided` |
| `question_cache` | that of `console_calls`; violated | `CacheIsConsistent` |
| `assistant` | streams: 2 requests for 1 conversation, one fault of each kind; memory: 3 turns, 2 organisations, refresh every 2, 2 turns shown, 1 writeback that breaks off or draft that is empty | `OneStream`, `OnlyBrokenWritesLeaveLoading`, `TurnsAreWhole`; `TextReachesBoundary`, `BoundaryKeepsUp`, `FactIsLatestOfBest`; under fairness `BusyEnds`, `StoredIsIndexed` |
| `membership` | 1 user, the built-in and another organisation, 2 overlapping calls, 2 consumers, 1 visit, 3 calls in all | `RightsNeedMembership` (roles and the current organisation), `RankingFollows`; under fairness `BanTakesHold` |
| `oj_account` | each of the 3 judges; 2 accounts, one of them growing, 1 request, 2 rebuilds, `MaxOps` 2 | `RowIsTheirs` (the row, its problems and its switch are the bound account's); under fairness `AllCatchesUp` (problems and statistics; undisturbed, the newest statistics are the judge's total) |
| `oj_bind_stands` | that of `oj_account`, without fairness; violated | `BindStands` |
| `background` | 2 processes; 2 spans; 3 days of 2 minutes and 2 requests; 2 upload requests of up to 2 equal images, 2 clean-ups | `SpansSurvive`, `CountedOnce`, `DayIsWhole`, `FilesFollowRows`; under fairness `StreamedIsStored` |

### The bounds, and why they are enough

* *Two of everything that races.* The properties relate two relays, two consumers, two workers,
  two calls, two streams or two runs. Two relays with `MaxRetries` 3 reach both the row that is retried
  and the row that is given up on.
* *Fault budgets.* `MaxFaults` gives each kind of fault a number of its own, so that one run
  contains lost replies, failed calls, lost leases and crashes in every combination. In
  `background` a behaviour of the metrics or of the images has one fault or change of configuration (`FewFaults`), one of the spans
  one of each kind; in `permission_live` a behaviour has two kinds (`TwoFaults`): three faults
  between two changes only add repetitions of the same repair, and liveness over all of them is
  beyond the run's time.
* *Time.* `now` exists for what the code compares: `created_at` ordering, `planned_at`, and the
  minutes and cutoffs of the roll-up. Two instants tell "due" from "not due". TTLs are events
  (`LockTimeout`, `LeaseTimeout`, `StateExpires`, `SeenExpires`), not durations.
* *Three days of two minutes* are the least in which a day is rolled up, in whole or from its
  middle (`RollupTimes`), and rolled up again the next day.
* *Three versions* are the least for which a retry of the root and a revision of a revision meet.
  `VersionsAtRest` keeps the second and third version, and the second operator, to states without
  a worker at work: numbering a version and executing one touch no row in common but the task rows
  under their locks.
* *Two changes* of the relations are the least for which an older run can overwrite a newer one;
  more add only repetitions, since events carry no state and every run reads again. One role and
  one permission suffice: rules of one scope are handled alike.
* *Three calls, two organisations, one user*: a check, the call that undoes it and one before it to have
  something to undo. Users meet only in `DeleteOrg` and in rebuilds, which treat each alike.
* *Three turns* with a refresh every second one have a turn before, at and after a boundary; two organisations
  let a summary be found or not. They are alike, so the first turn is in one of them (`FirstAtHome`).
* *Two rebuilds* of the statistics overlap only while nobody else is at work (`OverlapAtRest`): what makes them
  differ, a write of the row between their reads, comes while one of them is under way.
* *Two rows of one content* let an image be uploaded twice or reused, be deleted and be cleaned up under
  the second upload. The quota of 2 is met by one request and by two.
* *Three calls* of the console: one to set up, two that cross. *Two processes* tell the cache of refused tokens
  from the table. *Two connections* with ids of their own or in common, queues and limits of one: the
  second event finds the queue full, the second connection the limit reached. `Few` keeps a
  revocation apart from the drain and from the second publisher, a connection's Last-Event-ID to
  the first event, and the cache to one goroutine.
* *Two questions of one title* make a title ambiguous; *two items* let a task be edited while a handler holds
  the first.
* `MaxEntries` of `StreamGroup` and `SpanPipeline` exceeds the reply size, so replies end inside
  the stream.

Every configuration says `CHECK_DEADLOCK FALSE`: a relay loop with nothing pending, a
stream without a new entry and exhausted bounds are states in which the real system, too, waits.
That nobody waits for each other is what the liveness properties show.

### Where properties are guarded

Several properties say what the code *needs* in order to be right; the guard is part of the
result.

* `OverlapNeedsLostLease`: a second relay beside the first is possible, but only after a failed
  renewal. The comment on the lock key, that only one instance runs at any time, does not hold
  then.
* `HandledOrAccountedFor`: the three ways to lose an event are `Abandoned` (`GivenUpAfter` publishes
  failed; with the shipped polling interval of one second and three retries two failures are enough, an outage of
  Redis of two seconds), `StrandedCopies` (a fault on the consumer side) and `NoGroup` for good: every
  subscriber's attempt to create the group failed, and none is restarted.
* `DriftNeedsCrossing`, `ChangeIsProjected`: a request that stalls between reading roles and
  writing them overwrites the consumer's repair; that is a crossing, and nothing corrects it until
  the next change. `DriftNeedsCrossing` and `RevocationReachesAll` except the bindings in `orphaned`, and
  `ChangeIsProjected` speaks of changes that wrote an event: `DeleteOrg` writes none.
* `RevocationReachesAll` claims only `mem \subseteq truth \cup orphaned`. The other direction fails: a process
  that reloads while a request elsewhere has erased and not yet re-added keeps a subject without
  its roles, and the request does not broadcast when it is done.
* `ExecutingEnds` excepts a database error while the failure is being recorded and a dead
  process: the execution then stays `executing`, which neither scan nor trigger takes up.
* `BindingsFollowRoles` (proved only) excepts dissolved organisations: `DeleteOrg` publishes no binding event.
* `RightsNeedMembership`: without `stale` it fails. A kick between the check and the
  commit of `AssignRole` leaves roles with somebody who is no member; a kick under `SetCurrentOrg`,
  or two departures at once, leave the user in an organisation he is not in; so does a profile or password
  that is saved with a row read before a departure.
* `RankingFollows` excepts runs that overlapped or broke off: an older snapshot may be written
  last, and nothing but the periodic rebuild corrects it. It also excepts users in `stale`: a whole row saved
  after another commit takes back its organisation or status, most often without an event. `BanTakesHold` needs the TTL for the
  same reason: a request that read an active user fills the cache after the ban was projected.
* `RowIsTheirs`: without `crossed` and `broken` it fails, for the row, its problems and its switch.
* `AllCatchesUp` speaks of an account that stays bound; what is missed is made up for by the
  next synchronisation after the marks expire, or by the repair. Of an account with a problem in `lost` it does not
  promise the facts: its batches fail at every synchronisation. That the newest statistics are the judge's
  total is promised as long as nobody wrote by a stale row (`crossed`); afterwards more facts than the
  row says are not corrected, because the days never start below zero. Lanqiao, which has no total, comes to
  the number of its facts.
* `BusyEnds` excepts `setup` faults: an error between the claim and the run returns past
  `finishStream`, and the conversation stays busy for good; so it does after a crash or a failed
  release.
* `TextReachesBoundary` holds without exception, but is no more than it says: the text holds a turn at or
  after the boundary. That it holds those just before, and that the summary is of the right organisation and
  less than one refresh behind (`BoundaryKeepsUp`), and that the last of the best facts is the one stored
  (`FactIsLatestOfBest`), needs writebacks that do not overlap and do not break off (`Undisturbed`).
  `StoredIsIndexed` excepts writebacks that break off, since nothing calls `IndexPendingDocuments`.
* `SpansSurvive` excepts shutdown and a failure of Redis and the database together: the buffer is
  cleared all the same. What is acknowledged has had its row without exception.
* `CountedOnce`: a flush that fails half-way counts what it had written twice, since all its rows are
  merged back; a process that dies loses what it held.
* `DayIsWhole` excepts the days in `split`; see below.
* `FilesFollowRows` excepts `raced`, an upload that looked up a key before its last row was
  deleted and recorded its own after the clean-up had listed it, and `stranded`: uploads that ended before their
  row, and files the clean-up looked for in the wrong place.
* `GraphIsAnnounced` excepts `silent`: a synchronisation compares the routes with rows it listed before its
  transaction, saves them whole and announces only the changes it saw itself.
* `GrantsAreCurrent` excepts `overtook`: an update of a role's name saves the menus it had preloaded again.
* `OthersAreListed` lets a token be recorded elsewhere only through `forgotten` or a login under way;
  `StatusIsDecided` (proved only) excepts `overlapped`, since `Save` writes every column of a row read earlier.
* `DrainEndsAll`, `OpenMissesNothing` leave out connections whose id another one still holds (`clashed`): the
  broker knows connections by id only.
* `DraftsAreWhole` excepts tasks edited under a handler (`crossed`), `PendingWasMissed` items whose transaction
  began before the question's committed (`late`); `ExecutedIsDecided` needs no exception, the check
  before an execution makes up for both.

### Disagreements

* **`oj_bind_stands`.** `ojSvc.go:619` says the lock keeps a synchronisation from conflicting
  with a bind. It is one per identifier of the listed row; leetcode's bind takes none and luogu's that of
  the new identifier, so the synchronisation writes the former account over the new one.
* **`question_cache`.** `luoguQuestionBankRepo.go:70` says that the ids are cached in the background to
  keep the cache consistent. The goroutine starts inside the transaction; if that is rolled back afterwards, the
  hash keeps ids of questions that are not in the table, and later synchronisations pass over them.

Met while modelling, built into the modules as the code has it, and without a run of their own:

* `docs/事件驱动架构-RedisStream-Outbox-双通道一致性实践.md:116` says a failing consumer only delays
  a projection. `redis_subscriber.go:148` goes on without acknowledging, and as only `>` is read,
  the entry is never handled (`Stranded`).
* `ojTaskDispatcher.go:67` says only executions that have reached `planned_at` are consumed.
  `ClaimExecution` (`ojTaskExecutionRepo.go:133`) looks at the status; an edit that moved
  `planned_at` after the scan is not seen.
* `ClearAllPolicies` (`pkg/casbin/casbin.go:141`) clears the enforcer and then saves it. A reload in
  between refills it, the old policy is saved, and the rebuild only adds.
* `GetAllUserOrgRoleRelations` (`roleRepo.go:451`) lacks the condition `roles.status = 1` of
  `GetUserRolesByOrg`: each rebuild gives disabled roles back to their subjects.
* The upsert of the statistics (`ojDailyStatsRepo.go:28`) names columns on which
  `entity/ojDailyStat.go:9` declares an index that is not unique, so there is no conflict for it to
  update on; `OJDailyStats` models the reading of the newest rows.
* Lanqiao's unique hash of the credentials also counts soft-deleted rows; the clean-up of disabled users
  does not ask again whether the account is still disabled (`userSvc.go:939`).
* `DeleteOrg` (`orgSvc.go:551`) removes the bindings of all members and writes no event, whereas
  `docs/Casbin-RBAC权限系统架构文档.md:212` says of every change of a subject's bindings that an event is written with it
  and repairs all instances. At rest, without a fault, the enforcers go on granting them (`orphaned`).
* `ai_conversation_summary.go:19` says the boundary records up to which message the summary covers the
  conversation. A full refresh of ten turns shows the last six messages (`extractor.go:278`) and moves the
  boundary past all ten: with the shipped default the turns between are in neither.
* The condition of `MarkAsFailed` (`outboxRepo.go:60`) reads as if a row were given up after `maxRetries`
  failures; as the assignments are ordered it is given up one failure earlier (`GivenUpAfter`).
* The default `rollup_cron` "10 2 * * *" puts the cutoff just after ten past two, `FineRetentionDays` ago, so
  every day is summed up twice: once from its first two hours, which are then deleted, and the next day
  from what is left, which overwrites the row. The head of each day is lost (`split`). The weekly
  rows shrink in the same way once daily rows pass their retention.
* `imageSvc.go:231` says semaphore and rate limit keep the quota's overrun under control; the check
  comes before the semaphore, so only the number of concurrent requests bounds it.
* A handler that read an item before an edit saves it after the edit deleted it
  (`ojTask_question_upsert.go:39,51`), and `Save` inserts it again (`crossed`).

## 4. Fairness

* `PipelineFairSpec`: weak fairness for each relay's and each consumer's step. Both are `for`
  loops around a ticker or a blocking read that never return but on shutdown (`processor.go` `Run`,
  `redis_subscriber.go` `Subscribe`); a process that dies is restarted, which is why a crash only
  resets its local state and the consumer creates the group anew. Weak fairness for `LockTimeout`: Redis expires keys. No fairness for
  faults, transactions or clean-up.
* `OJTask.FairSpec`: the cron scan keeps coming round and, ordered by `planned_at`, reaches each due row:
  strong fairness, since other workers and edits may disable it between rounds. A worker's step
  has strong fairness because it may wait for a row lock that is taken and released repeatedly:
  InnoDB queues lock requests, so a waiting one is granted. An open edit transaction ends
  (weak); InnoDB detects a deadlock and breaks it (weak); Redis expires the lease (weak). No
  operator has to begin an edit, and triggers may all be lost.
* `PermissionProjection.FairRuleSpec`: weak fairness for the steps of a run, for the subscriber and
  for the reload goroutine. A change has none: `ChangeIsProjected` holds although no further
  change ever comes.
* `CacheProjection.FairSpec`: consumers and visits run on, and the cached state expires
  (`StateExpires`; the key has a TTL). No call of the service has to come.
* `OJDailyStats.StatsFairSpec`: the cron synchronisation lists the account again and again (strong: a
  lock or the switch may disable it between rounds), what has begun ends, marks and switch expire (they
  have TTLs), and the repair job comes round.
* `AIConversation.FairSpec`: a request handler runs on (weak), and the model's answer comes to its
  end: strong fairness of `MessageCompleted`, since tool calls may interrupt it any number of times.
* `AIMemory.MemoryFairSpec`: the goroutine of a writeback runs to its end.
* `SpanFairness`: the loop of `runConsumer` goes on, in every process, and claims each
  entry that stays pending. The writer has none: `StreamedIsStored` begins in the stream.

## 5. What is proved

### The outbox relay

`EventPipelineProofs` proves, for every set of events, every finite set of relays, every
`MaxRetries` and `BatchSize` from 1, every fault budget and with the lock enabled or disabled
(the assumption `OutboxAssumption`):

| Theorem | Statement |
| --- | --- |
| `TypeCorrect` | `Spec => []TypeOK` |
| `PublishedStreamed` | a published row has its event in the stream |
| `CommittedStreamed` | only committed events are in the stream |
| `RetriesDecided` | failed rows have failed `GivenUpAfter` times, pending ones less often |
| `HolderReleases` | a running relay's key leaves it by its own unlock, its death or a failed renewal |
| `OverlapBounded` | at most one relay more than leases lost |
| `OutboxImplementsDelivery` | `OutboxRelay` refines `EventDelivery` |

**The argument.** None of the safety properties is inductive alone: `MarkAsPublished` turns a row
to published without looking at the stream, so the invariant has to remember, between `Publish`
and the mark, what `XADD` did. `IInv` is the conjunction of

* `TypeOK`;
* `HeldIsCommitted`: what a relay has in `batch` or `cur` was committed, which stays true because no
  row returns from committed to open;
* `MarksOneRow`: a relay about to mark holds one row, and if it is about to mark it published,
  the stream carries it. The stream only grows (`AppendStreams`);
* `FreshRowsAreUntried`: a row not yet committed has counted no attempt, which `RetriesDecide` needs
  when the row becomes pending;
* `OnlyCommittedIsStreamed`, `PublishedIsStreamed`, `RetriesDecide` themselves.

`IInvStep` groups the actions by what they touch: those that leave rows and stream alone
(`QuietStep`), those that move rows between states (`RowStep`), the two publishes (`StreamStep`) and the
two marks. The lock plays no part: these properties hold however many relays overlap.
`OverlapBounded` has an inductive invariant of its own: the relays at work other than the owner of
the key (`Loose`) are no more than the leases lost. The refinement maps `Committed` to accepted,
the stream to the log, `retry` to attempts, `GivenUpAfter` to the attempts an event is given, and `Abandoned`
to the events given up on; each action
of `OutboxRelay` is one `Accept`, `Deliver` or `FailAttempt`, or a stutter, by lemmas named
after what is refined (`TxRefines`, `AppendRefines`, `FailureRefines`, `MarkRefines`,
`PurgeRefines`).

`PublishedIsStreamed`, `OnlyCommittedIsStreamed`, `RetriesDecide` and `OnlyHolderReleases` are only
proved; the others are also checked by `domain_events_safety`, and the theorems say they do not
depend on its bounds.

### The event pipeline

`EventPipelineProofs` also proves `RepeatsArePaid`: with the relay lock enabled, handlers run at most once
for an entry of the stream, and for an event at most once more than the relays had faults, for any
number of events, relays, consumers and entries.

**The argument.** The first half is `HandedOutOnce`: nothing below the cursor is handed out again, and an
entry below it is in the hands of one consumer or was handled once. The second half counts. `Copies(e)` are
the entries that carry e, `Due(e)` the relays that may still append one: those with e in their
batch, those whose failed attempt at it is not marked yet, and those that lost their key and are about
to read rows. `Counts(e)` says that copies and relays together are no more than the faults so far, and one more
unless the row can still be read again by the holder of the key: a row is read again only after a failure, and a second
reader at the same time needs a lost lease. Each action either pays for what it adds or
takes from one of the two what it gives to the other (lemmas on cardinalities, `FS_...` of
`FiniteSetTheorems`). `RepeatsAreRelayFaults` follows by an injection of the handler runs of an event into
its copies. The invariant of the relay is used, not proved again.

### The permission projection

`PermissionProjectionProofs` proves, for any number of processes, requests, subjects, roles,
permissions, edits and faults (`PermissionAssumption`):

| Theorem | Statement |
| --- | --- |
| `ProjectionIsTyped` | `RuleSpec => []RuleTypeOK` |
| `TableAgrees` | `RuleSpec => []DriftNeedsCrossing` |
| `RevocationsReachAll` | `RuleSpec => []RevocationReachesAll` |

**The argument.** Both properties speak of the state at rest only, so the invariant has to say where the
projection of each rule stands while runs are under way. A rule is `Awaited` when an event or a run
that has not read yet covers it, or when a run that was overtaken is not over: such a run can end
only by writing, which crosses, or by a crash, and a crash leaves a rebuild that is going to read. Otherwise it is
`Settled`: either some run is `Right` about it, that is it leaves the rule as the relations have it,
and has read after all runs that are `Wrong`; or the table is right and nobody is wrong
(`RulesSettle`). A reader is the newest and right about all it covers (`ReadKeeps`); a change makes
an event that covers what it changed (`ChangesAreAnnounced`). `DissolveOrg` makes none, so of a rule
in `orphaned` nothing is promised until a run that covers it reads, which takes it out of `orphaned`; only
rules that the relations do not hold are there (`OrphansAreGone`).

A write is the hard step. Of two runs under way one has read after the other (`ReadsAreOrdered`) and a
run that has written has overtaken the older ones (`WritersOvertake`). So a run that writes and neither
crosses nor leaves somebody overtaken has only newer ones beside it, which have not written yet
(`OthersAreNewer`), and has its process for itself: its enforcer stays empty until it is saved and
then agrees with the table in its scope (`WritesInStep`). Hence it writes exactly what it carries, the rules that
the enforcer held already and the table's unique index included (`WritesWhatItCarries`), and is right afterwards if it was before.

`RevocationsSettle` says the same of the rules that the relations do not hold, with the consumers' runs
in the place of all runs, because only they broadcast, and with the same exception; a rule that is out of the table may be in an enforcer only while
a broadcast or a reload for it is due (`Forgotten`).

### AI conversations

`AIConversationProofs` proves, for every set of conversations and of requests, every `Target` and
every fault budget (`AIConversationAssumption`):

| Theorem | Statement |
| --- | --- |
| `StreamsAreTyped` | `Spec => []TypeOK` |
| `StreamsExclude` | `Spec => []OneStream` |
| `TurnsStayWhole` | `Spec => []TurnsAreWhole` |
| `AnswersSettle` | `Spec => []OnlyBrokenWritesLeaveLoading` |

**The argument.** `OneStream` is not inductive: nothing in it says that the second request finds
`is_generating` set. `IInv` adds

* `HolderIsRecorded`: while a request streams, its conversation says `is_generating`. With it, a
  `Claim` that finds the flag clear (and `Claimable` checks it under the row lock) finds nobody
  streaming (`ClaimStep`). Deletion keeps the flag in the row, and a row is created only where none
  is, so no stream of a former life is forgotten (`RowStep`). `FinishStream` clears the flag; by
  `OneStream` the request that does so was the only one it stood for (`FinishStep`).
* `StartedIsWhole`: a request that may still store its answer has question and conversation,
  unless it was cut. `TurnsAreWhole` speaks of stored answers only, but `Save` can store one at
  any later step, also after the release, so the invariant has to speak of the request as well.

All other steps move one request and at most its own answer; `QuietStep` proves IInv for these at
once, and `EmitStep`, `MoveStep` and `RequestStep` bring each action into its form.

`AnswersSettle` has an invariant of its own, `SettledUnlessExcused`: `Settling` says, for every point a stream
can be at, which status the answer in memory has and whether the stored one agrees, until a statement
failed or the process died. What an event does is one of few outcomes (`Outcome`), for all the kinds of
events alike; `FinishStream` stores what is left.

### OJ tasks

`OJTaskProofs` proves, for any number of tasks, workers, operators, edits and faults
(`OJTaskAssumption`):

| Theorem | Statement |
| --- | --- |
| `TasksAreTyped` | `Spec => []TypeOK` |
| `ExecutorsExclude` | `Spec => []OneExecutor` |
| `RowsAgree` | `Spec => []StatusesAgreeAtRest` |
| `NoEditIsLost` | `Spec => EditsAreKept` |
| `TasksImplementVersion` | `OJTask` refines `TaskVersion` |
| `SnapshotsStayTrue` | `Spec => []SnapshotsAreOfTheVersion` |

**The argument.** `OneExecutor` needs no lock: a worker past its claim works on an execution that was taken
(`ClaimedIsTaken`), and the conditional UPDATE of `ClaimExecution` takes only one that was not, so
leases may expire under their holders. Everything else rests on that. The struct a worker saves
whole was loaded after the claim; a taken execution can be neither edited nor cancelled, so the struct is, but
for its status, still what the row holds (`CopiesAreCurrent`), and saving it undoes nothing
(`EditsAreKept`). Statuses agree at rest or a worker is at work on them (`AgreeOrClaimed`), until a
statement, a commit or a process fails. The numbering of a chain is a statement about cardinalities: the versions
of a root are as many as the largest number among them (`VersionsAreNumbered`), which the row lock of the root keeps
while a version is inserted.

The refinement maps a version to the status of its execution, its edits and its snapshot (`States`, `Contents`,
`snap`); claims, edits, deletions, insertions, the commit of a snapshot and `MarkExecutionFailed` map to steps of
`TaskVersion`, every other step to a stutter, whole-row saves included. It needs one thing more than the
invariant above (`VInv`): as long as an attempt goes on its execution is `executing`, so the commit and the mark of a
failure find it where `Lifecycle` wants it, and what the worker has built its snapshot from is still the version's
content (`AttemptFits`). That nobody else changes either is `OtherAttemptsFit`, from `OneExecutor`;
`SnapshotsStayTrue` is the same invariant read at any later time, also after a version was declared failed.

### The intake of questions

`ConsoleProofs` proves, for any number of titles, questions, tasks, synchronisations, handlers,
items and faults (`IntakeAssumption`):

| Theorem | Statement |
| --- | --- |
| `IntakeIsTyped` | `IntakeSpec => []IntakeTypeOK` |
| `DraftsStayWhole` | `IntakeSpec => []DraftsAreWhole` |
| `PendingIsMissed` | `IntakeSpec => []PendingWasMissed` |
| `ExecutedAreDecided` | `IntakeSpec => []ExecutedIsDecided` |

**The argument.** An id is given out once and stays with its task, so whatever a handler, a draft or a check
has read of an item is about the same task later (`FreshIsUnused`, `HandlersReadThem`,
`HandlersAgree`); an item a handler read is where it was, or the task was edited, and then it is in `crossed`.
Announcements are not lost because a handler in progress has read every item that waits for its title, except those
written when the question was there (`HandlersHaveAll`): an item that comes to wait later is written from
a snapshot older than the question, which is what `late` records. A check has every waiting item of its task and
decides each (`ChecksAreTheirs`): edits are not possible while it runs, and handlers only
take items out of waiting.

### Memberships and rankings

`CacheProjectionProofs` proves, for any number of users, organisations, requests, consumers and visits
(`MembershipAssumption`, `CacheProjectionAssumption`):

| Theorem | Statement |
| --- | --- |
| `RightsAreTheMembers` | `Spec => []RightsNeedMembership` |
| `BindingsAreAskedFor` | `Spec => []BindingsFollowRoles` |
| `RankingsFollow` | `Spec => []RankingFollows` |

**The argument.** `MemberInv` is about the calls that check first and commit later: what the check saw and
the commit relies on either still holds or the user is in `stale`, and a whole row that is saved is that of an
account which was there (`SavesAreOfAccounts`; `MembersAreLive`: members of dissolved
organisations are those whom such a commit let in). It also needs what the code excludes: the built-in organisation
cannot be dissolved (`AllMembersLives`), and nobody who leaves is moved to where he leaves
(`PicksAnother`). `RankInv` adds what the projection is going to do. `Outcome(c)` is what the rankings will say when
consumer c has written what it has read; `Agrees(S, u, o)` says that a user missing in S, or too
many in it, is about to be put right by an event under way. `RanksAreComing` states `Agrees` of the rankings
when nobody is at work and of the outcome of the one who is, unless runs overlapped or broke off.

### Sessions

`ConsoleProofs` proves, for any number of processes, requests, calls and faults (`SessionAssumption`):

| Theorem | Statement |
| --- | --- |
| `SessionsAreTyped` | `SessionSpec => []SessionTypeOK` |
| `RefusalStands` | `SessionSpec => RefusedStaysRefused` |
| `SessionsAreListed` | `SessionSpec => []OthersAreListed` |
| `DecisionsStand` | `SessionSpec => []StatusIsDecided` |

**The argument.** A token enters a cache only after it is in the table (`RefusedIsListed`), and a
process fills its cache from the table, so a restart takes no refusal back. A login has listed the token
it found before it records its own (`OldIsListed`). A call that saves the row changes at most the
password of the row it read (`SavesWhatItRead`): if the row is still that one, the decided status stays.

### Roles, menus and APIs

`ConsoleProofs` proves, for any number of roles, menus, APIs and calls (`AccessAssumption`):

| Theorem | Statement |
| --- | --- |
| `AccessIsTyped` | `AccessSpec => [](AccessTypeOK /\ CallsAreTyped)` |
| `GraphsAreAnnounced` | `AccessSpec => []GraphIsAnnounced` |
| `GrantsStand` | `AccessSpec => []GrantsAreCurrent` |
| `ArchivesStay` | `AccessSpec => ArchivedStays` |

**The argument.** A commit either announces the graph it leaves or leaves it as it was; what has to be
shown is that those that announce nothing do the latter. Creating a menu does, because no relation names a menu before
it is created: neither the tables nor what a call has read and is going to write (`RelatedAreCreated`). A
synchronisation that sees no change writes each row as it is, unless one was changed since it was listed, and then it
is `silent` (`SyncKeeps`). An update of a role writes back the menus it preloaded; they are among those the role
had when it was read (`PreloadsAreTheirs`), so they exceed the assigned ones only when an assignment or
deletion came in between, which `overtook` records. What a call in progress has read is typed by what it does
(`CallsAreTyped`, one set of records for each call).

### The SSE broker

`SSEBrokerProofs` proves, for any number of connections, ids, subjects and events, and for every capacity
and limit from 1 (`BrokerAssumption`):

| Theorem | Statement |
| --- | --- |
| `BrokerIsTyped` | `BrokerSpec => []BrokerTypeOK` |
| `DrainEnds` | `BrokerSpec => []DrainEndsAll` |
| `OpenConnectionsMissNothing` | `BrokerSpec => []OpenMissesNothing` |

**The argument.** `BrokerInv` follows a connection that is its own (`Own`: open, its id not in use twice, no publisher
about to close it). The indexes know it (`OwnIsIndexed`): the end of a connection takes its id out of them, but only its own one,
since of two with one id both are in `clashed` (`SameIdClashes`), and a publisher that unregisters an id
has thereby chosen its victim. A connection comes to be its own only in `Register`, which finds the drain's flag clear under the lock.
`DrainHasAll` then says that the drain has every such connection in what is left of its snapshot, until none is. In the same
way `DueAreServed` says of each connection that was open at an event's snapshot that it has the event, is still
left, or has its id among the slow ones. What it was replayed is what the stream held when it was read
(`ReplaysAreWhole`); the stream only grows. There is one lemma for each action, with a step for each part of the
invariant.

### Spans and images

`BackgroundProofs` proves, for any number of processes, spans and entries and every size of queues and batches
(`SpanAssumption`), and for any number of requests, owners, contents, clean-ups, files and faults
(`ImageAssumption`):

| Theorem | Statement |
| --- | --- |
| `SpansAreTyped` | `SpanSpec => []SpanTypeOK` |
| `SpansAreNotLost` | `SpanSpec => []SpansSurvive` |
| `ImagesAreTyped` | `ImageSpec => []ImageTypeOK` |
| `RowsKeepFiles` | `ImageSpec => []FilesFollowRows` |

**The argument.** A consumer may acknowledge a batch that another has claimed from it, so the invariant is
about rows and not about who wrote them: the spans of a batch that is due to be acknowledged are in the table
(`StoredHasRows`), and rows are never taken back to "absent". What a group holds was delivered
(`DeliveredIsKnown`), so an XADD cannot put another span under its number. A writer is in its fallback only after
Redis has failed (`FallbackNeedsFault`): if the database fails it too, both have failed, and that is what
`SpansSurvive` excepts.

A key is given out once (`KeysAreGiven`), so no upload brings back a file that a clean-up has deleted
(`DoneIsGone`; what it looked for in the wrong place is `stranded`), and the rows it removes afterwards refer to nothing. A key that a clean-up has still to delete has no
live row and nobody about to write one, unless it was in `raced` when it was listed (`TodoIsUnused`): a new
row gets its key from an upload of its own or from a live row. `RecordingHasFile` is `FilesFollowRows` for the
requests between the look-up and the row.

### Sums

Three invariants of `MetricRollup` say that numbers in several places add up, over the processes or over the
minutes of a day. The model adds with `SumFunctionOnSet` of the community modules, a choice of a recursive
function, and the theorems of induction cannot be instantiated. `BackgroundProofs` goes another way:
if a statement fails for some subset of a finite set, it fails for a smallest one (`SmallestSet`, from the
well-foundedness of < on the natural numbers applied to cardinalities), and that one is neither
empty nor larger than another one by one element for which it holds. So it proves that the
function that is chosen exists and is unique, that the sum is a natural number, that one element
can be split off, and the lemmas used below: equal summands have equal sums (`SameSummand`), one summand that
grows by n makes the sum grow by n (`SumShifts`), a sum of zeros is zero (`SumOfZeros`).

### Metrics

`BackgroundProofs` proves, for any number of processes, any length and number of days, any retention, times
of the task, requests and faults (`MetricRollupAssumption`):

| Theorem | Statement |
| --- | --- |
| `MetricsAreTyped` | `MetricSpec => []MetricTypeOK` |
| `RequestsAreCountedOnce` | `MetricSpec => []CountedOnce` |
| `DaysStayWhole` | `MetricSpec => []DayIsWhole` |

**The argument.** `CountedOnce` is inductive given the types: each action moves a number from one summand to
another, or takes it out of one by a fault that the property excepts. `DayIsWhole` is not. A
day may have been summed up by several tasks that overlap, with different minutes in the table, and
one of them may still delete. `DaysAreSummed` says, of a day that was not split: once some of its
minutes were deleted, its row has the sum of all minutes before some cutoff, deleted ones included; and
a task at work has summed up exactly the minutes before its cutoff (`SumIsTrue`), or has nothing to delete. Two
tasks at work have the same cutoff, since no minute passes under them (`TasksAreDue`). What keeps these sums
true afterwards is that no row before a cutoff changes: what is still in memory is younger than every
cutoff (`MemoryIsYoung`), and a deleted minute gets no row again (`PurgedIsOld`).

### The memory of a conversation

`AIConversationProofs` proves, for any number of turns, organisations, contents and faults
(`AIMemoryAssumption`):

| Theorem | Statement |
| --- | --- |
| `MemoryTypeCorrect` | `MemorySpec => []MemoryTypeOK` |
| `TextKeepsWithBoundary` | `MemorySpec => []TextReachesBoundary` |
| `SummaryKeepsUp` | `MemorySpec => []BoundaryKeepsUp` |
| `FactsAreTheBest` | `MemorySpec => []FactIsLatestOfBest` |

**The argument.** A writeback reads the messages, then the summary, and writes a new one from both, so it may
carry an older summary for any time. `CopiesReachBoundary` therefore says of the copies what `TextReachesBoundary`
says of the row: a refresh shows its own turn and moves the boundary no further. The other two theorems need
to know where the one writeback at work is (`InOrder`): it is that of the latest turn (`WritebacksFollowTurns`,
`OneAfterTheOther`), has read its messages and so all successful turns after the boundary, its copy of the summary is
less than one refresh behind and holds the turns just before its boundary (`EndsWhole`), the summary has caught up
once it is written (`CaughtUp`), and the stored fact is the last of the best among the turns decided so
far (`LastOfBest`).

### Accounts at a judge

`OJTaskProofs` proves, for any number of accounts, bind requests and problems, every window, threshold and
number of rebuilds, and for each of the three judges (`OJAccountAssumption`, `RebuildsAssumption`):

| Theorem | Statement |
| --- | --- |
| `AccountIsTyped` | `StatsSpec => []AccountTypeOK` |
| `RowStaysTheirs` | `StatsSpec => []RowIsTheirs` |

**The argument.** `RowIsTheirs` speaks of the tables, but everybody reads first and writes later, so `AccountIInv`
says of each who has read that what he carries still fits, as long as nobody has written by a stale row
(`crossed`). A bind at work is the only one (`OneBind`). One that has asked or is about to write has
found no row of another account, or is going to delete it in its transaction (`BindFits`); one about to write carries
the row that is there (`WriteFits`); one that has only to turn on the switch is for the account bound
(`ClearFits`). A synchronisation whose row is still current writes that row and no other (`SyncFits`), and the
problems it took up are those of its account (`FreshFits`, which holds even when `crossed`). The switch says "invalid" for the
account bound, or a bind is about to turn it on (`SwitchFits`); only Lanqiao has one (`SwitchIsLanqiaos`),
which is why the binds at the other two judges need not turn it on.

Every write is then one of two: it keeps each row with its account and mark (`KeptRowsFit`), or it leaves one live row,
that of the bind (`PutRowFits`). For both it has to be known that `GetByUserID` finds the only live row there is (`FoundIsLive`,
`OnlyOneIsFound`). Rebuilds of the statistics leave the account alone (`RebuildsLeaveTheAccount`). Note what is
not proved, since it is false: that nobody writes by a stale row (the run `oj_bind_stands`).

<a id="6-limits"></a>
## 6. What is only model-checked, and what is not modelled

Only TLC checks

* every liveness property (`HandledOrAccountedFor`, `DueIsTakenUp`, `ExecutingEnds`, `ChangeIsProjected`, `BanTakesHold`,
  `AllCatchesUp`, `BusyEnds`, `StoredIsIndexed`, `StreamedIsStored`): fairness and `ENABLED` are beyond
  the prover;
* that a synchronisation can undo a bind, and the other disagreement that has a run: they are
  counterexamples;
* that the cases which the histories (`crossed`, `overlapped`, `split`, ...) excuse are reached at all: the
  coverage of the runs shows it, a theorem about safety cannot.

Every safety invariant and every action property that a passing run checks is also a theorem of section 5,
for every value of the constants.

Left out of the modelled components: payloads, trace contexts, logging; organisations and
authorisation of OJ task requests; the contents of a snapshot beyond the edit it was built from;
what a Casbin check evaluates; data races inside the unsynchronised enforcer beyond the death of
the process; the pub/sub notification of the relay, which only makes a poll come earlier; the
blocking form of the Redis lock; scores and profiles in the rankings; the statistics of days other
than the present; the text of memories beyond the turns it holds, extraction by a language model and
recall; 5m and 1w rows; latencies; the trimming of the
trace stream, which the code does not do; the retries and circuit breakers of the storage drivers.

Not modelled:

* *Rate limiting*: one atomic script per request.
* *Crawlers, controllers, routers, configuration*: calls and text whose correctness is not a
  matter of order; `OJAccount` takes the crawlers' answers as those of the judge.

## 7. The plan

Done: the modules of section 2 and the theorems of section 5.

Next theorems: the type invariant of `OJDailyStats` (its total is a cardinality of facts, its rebuilds are
counted by a sum).

Next modules: the statistics of a whole window in `OJDailyStats`, the 1w rows in `MetricRollup`, the
back plane of the SSE broker. An abstract specification worth stating next is that of a streamed answer: asked for,
streamed by one request, settled once as completed, stopped or failed.
