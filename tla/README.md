# A verification project for onetui

onetui is a terminal browser for data services. One foreground loop owns the
application state, one worker task owns the client of the connection that is
open, and everything a provider does is cancellable, bounded in time and
bounded in memory. This directory models that machinery in TLA+, checks it with
TLC and proves parts of it with TLAPS. Source paths below are relative to the
repository.

## The system

| component | state it keeps | operations | talks to |
|---|---|---|---|
| terminal loop, `crates/tui/src/ui.rs` | the `App`, an `Option<Worker>`, the event stream, the modes of the terminal | `run`, `sync_worker`, `handle_worker_event`, `stop_worker`, drawing | calls `App` methods, drives the worker's channels |
| worker, `crates/tui/src/worker.rs` | request, cancel and stop senders, pause counter, `closing`, deadline; the spawned task with the executor | `new`, `submit`, `cancel`, `pause_follow`, `stop`, `event` | mpsc channels of one slot both ways, watch for status and pause, oneshot for stop and cancel |
| application state, `crates/tui/src/app.rs`, `app/follow.rs` | generation, session, pending request, view, parents, bookmarks, modes | `act`, `key`, `load`, `complete`, `follow_tick`, ... | leaves a `Request` for the loop, receives `complete` |
| text input, `crates/tui/src/query.rs`, `connection.rs` | text and caret, fields of a form | keys, paste | `App` |
| provider contract, `crates/core/src/provider.rs` | none | `Executor`, `RequestContext::run`, `ShutdownContext` | implemented by the providers |
| configuration, `crates/core/src/config.rs` | the parsed file | load, `add_connection`, `configure` | file system, secrets |
| query history, `crates/tui/src/history.rs` | entries for each connection | load, recall, save | file system |
| command line, `src/src/main.rs` | none | schema, terminal, check | all of it |
| NATS, `crates/nats` | lazily connected session, live subscription with drops | pages, follow, publish, stop, shutdown | server |
| Kafka, `crates/kafka` | an owner thread behind a one slot channel, one permit per process, windows | pages, follow, publish | librdkafka |
| PostgreSQL, CQL, `crates/postgres`, `crates/cql` | a client that a failed request may leave unusable | pages, query, write outcome | server |
| DynamoDB, `crates/dynamodb` | a leased client; bookmarks in tokens, stream iterators | pages, PartiQL, streams | server |
| RabbitMQ, Qdrant, `crates/http-query` | leased clients, a setup slot that connections share | pages, statements | HTTP, gRPC |
| schema source, `crates/schema-source` | a FIFO cache, loaded modules | load, lookup | registry |
| decoding, `crates/avro`, `crates/protobuf` | the budget of a walk | check, decode | schema source |
| value display, theme | none | pure functions | |

What is hard: the user acts at any moment of a request's life; a worker that is
told to stop keeps running for up to two seconds and still sends results,
statuses and errors; cancellation is a message of its own that races the answer;
a live subscription must end before the same client serves another read; a
statement may have run although nobody heard its answer; and pages, tokens and
bookmarks are read when a page is asked for and used when it arrives, from data
that changed in between. `PROJECT.json` lists each hazard at its line with the
properties for it.

What makes the parts correct:

- loop and worker: one client at a time, requests reach only their own client,
  are neither lost nor cancelled by mistake, everything that was told to end does;
- application state: only the awaited request changes the view, and what it
  changes fits the view; back always leads to what was there; a handler finds
  what it expects;
- providers: a session left in an unknown state serves nothing further, a write
  whose outcome is unknown is never reported as failed, a loss is told, every
  operation returns;
- pages: paging to the end shows everything once, as far as the server keeps a
  place for the reader; a row is decoded with its own schema, within bounds;
- files and terminal: what was saved is kept, and the terminal is restored.

## Modules

| module | what it is |
|---|---|
| `Foreground` | abstract: what the foreground promises about requests |
| `Session` | the request lifecycle: `App` as far as requests go, the loop, the worker, the task |
| `Paging` | views, bookmarks, queries, follow cursors, columns and sort |
| `Follow` | the window of live records: eviction, display indices, selection |
| `Modes` | the popups, menus and lines that own a key press, and their handlers |
| `Editing` | the text and the caret of the query editor and the connection form |
| `Layout` | columns, lines, chunks, previews and scrolling cut to the room there is |
| `Screen` | the modes of the terminal, their guard and the panic hook |
| `ConfigFile` | `add_connection` beside other processes and editors |
| `History` | recording, saving and recalling queries |
| `Terminal` | composes the seven before it and an instance of `Paging` |
| `WriteOutcome` | abstract: what a provider promises about a statement it was given |
| `KafkaPublish` | publishing: the producer that is kept, delivery reports |
| `KafkaOwner` | the permit, the job slot and the owner thread with its clients |
| `Nats` | the client, its event callback, the Core subscription, publishing |
| `Cql`, `Dynamo`, `Rabbit`, `Qdrant` | the executors of these providers |
| `CommandLine` | an invocation, and the race of a call with its cancellation and deadline |
| `Providers` | composes the seven before it with `KafkaPublish` |
| `Postgres` | the PostgreSQL executor: session, driver task, reads, statements, shutdown |
| `NatsPages`, `KafkaPages`, `DynamoPages`, `PostgresPages` | pages of what these servers keep, while it changes |
| `Listings` | the listings of all providers, by the way they continue |
| `Ordering` | what is listed in an order, defined by that order |
| `SchemaCache` | decoding threads, the registry's cache, Buf modules |
| `DecodeBounds` | the budgeted walks before Avro and Protobuf messages are decoded |
| `Pages` | composes the seven models of pages and decoders, one property for all that pages |
| `SessionProofs`, `PagingProofs`, `TerminalProofs`, `PostgresProofs`, `ProvidersProofs`, `PagesProofs`, `ContinuationProofs` | theorems |
| `OrderingProofs` | the lemmas about sets of numbers, sums and orders that they share |
| `MCSession`, `MCPaging`, `MCTerminal` | instances for TLC |

The parts of a composition share nothing but the awaited request, so a behavior
of `Terminal`, `Providers` or `Pages` is one of one part (`part` says which) and
the others stay at their initial state. Each extends the one part whose theorems
are about its run (`Follow`, `KafkaOwner`, `SchemaCache`) and has instances of
the others. What the composition adds is the promise: one property is stated for
all the providers, or all the kinds of page.

### Session

`app` is the part of `App` that decides about requests. `app.request` is
`App::request`; a request is its generation (`id`), its alias and whether it
follows. `due` says that `follow_due` is set (every deadline is assumed to pass
in the end). `failed`, `loaded` and `status` say what the view shows: an error in
the footer, a page from which session, a connection status of which session. The
methods of `App` are operators from a record to a record (`Invalidate`, `Load`,
`Complete`, ...), composed the way the code calls them.

`worker` is the loop's `Option<Worker>`; `worker.task = 0` is `None`. `cancel`
names the request whose cancel sender is held. `task[t]` is what `Worker::new`
spawned, with its ends of the channels: `command` and `reply` are the two one
slot channels, `paused` the unseen pause, `stop` the oneshot, `fired` the request
whose cancellation was sent, `news` the unseen status.

`ui` is where the loop is. `sync_worker` is three steps, `Retire`, `Configure*`
and `Submit*`, because the task runs on another thread in between; drawing
happens before `wait`. In `wait` one branch of the `select!` runs: a user action,
the follow timer, a worker event, or the failing input. The worker's own `select!`
is biased, so `WorkerFinished`, `ClosingTimesOut`, `WorkerReplies` and
`WorkerStatus` exclude what precedes them. After the loop, `StopWorker`,
`JoinEnds` and `JoinTimesOut` are `stop_worker`.

A task is `select` -> `running` -> `sending` -> `select`, with `pausing` for
`stop_follow` and `shutting` for `shutdown`, each of which may fail or be cut off
at its deadline. A request that was cancelled before it started fails without
running; one that runs succeeds or fails, cancelled or not, since a cancellation
can come too late. A failed request may or may not keep the subscription.

An action that stops following before its own work is one action here, as in
`App::act`. `UserLoads` stands for every way to ask for a page of the connection
that is open, `UserInvalidates` for every way to abandon the request without
asking for another.

### Paging

A scan is a sequence of pages; token `k` leads to the `k`-th page after the
first, `0` is no token, and `Live` the cursor of a followed resource. A page
remembers the token it was fetched with (`page.from`), which the code does not:
the properties compare it with the bookmark that leads to it. Columns are kept
because the local sort and the selected column index them; rows, filter and
selection are not. `Session` shows that only the awaited request is completed, so
`Paging` has one `request`, completed by `PageArrives`, `PageFails`,
`BatchArrives` or `BatchFails`. `LoadFrom` reads the token as `load` does, from
the view at that moment; `Shown` and `Pushed` are the bookmark part of
`complete_page`. Tokens beyond 1 MiB in total, which also refuse the next page,
are left out.

### Follow

The rows of the displayed page while a resource is followed. Records are numbered
as the provider delivers them since following started, a row of a browsed page is
number 0; a row and a continuation have a size, which is all that `page.bytes()`
and the projection limit tell apart. `rows`, `visible`, `selected`, `live` and
`evicted` are the fields of `View` (the selection counts from 1); `received` is a
history variable, which the code does not have: `NewestRecords` compares the
window with it. `asked` is the request the follow awaits, `"first"` when it has
`reset`. `BatchArrives` is `complete_follow` for a valid batch: the rows are
appended, `Removed` is the loop of `remove(0)`, and the display is rebuilt only
if rows came or went. A batch with an error, with too many rows, without a
cursor or with other columns is `BatchFails`; which columns those are is in
`Paging`.

### Modes, Editing, Layout, Screen

`Modes` has the set `open` of popups and menus, of which `Owner` receives a key in
the order that `modal_available` and `act` ask, and the lines and details of the
view. A key is an action of the owner; what the action does to the rest of `App`
is in its handler, with the request it cancels or asks. `PageArrives`,
`PageFails` and `BatchArrives` change the view underneath whatever is open, and
`HandlersFindTheirData` says that none of the code's `expect` calls can fail. A batch
may bring rows or let rows leave, also all of them, whatever is open.
Paging itself is reduced to reloading, which `Paging` has in full.

`Editing` has a text of letters, of characters that combine with the one before,
and of line ends; `Boundary` is where a grapheme begins. The caret is a number of
characters where the code has bytes. Typing, pasting, deleting and moving are the
keys of `query.rs`; the form adds a provider to choose and fields to move between.

`Layout` has one loop for each way of cutting: `Allot` shares the width among
columns, `BreakLine` and `PutGlyph` break a text into lines, of which a preview keeps three,
`Split` and `TurnChunk` cut a long value into chunks, `Preview` spends the memory of
a page, and `PageDown`, `PageUp`, `ScrollValue` and `Resize` move within what is too
high. Glyphs are one or two wide. A
preview cut after its third line is not counted as limited, as in the code.
With rows of different heights a page down may pass rows that were never shown
in full, so that `RowsSeen` speaks of rows of one line.

`Screen` turns the modes of the terminal on step by step; any step may fail, and
any thread may panic in between, also the worker's while the loop goes on. The
keyboard flags are a stack for each screen of the terminal.

### ConfigFile and History

A configuration text is the set of connections it declares and a layout: tables
can be appended to, inline ones cannot, a broken one does not parse. `Add` checks
the new connection, `Compare`, `Write`, `CompareAgain` and `Rename` are the steps
of `add_connection` on the file; other processes and an editor (`Edit`) change it
between them, or a process is killed (`Stop`). A change
between the second comparison and the rename is lost, which the code accepts: the
promise of `SavedIsKept` is about what was there when it compared.

`History` saves the whole file after each submission, which may fail; a damaged
file is reported and never written again. `log` is what was recorded since the
start, `typed` what stood in the editor before the walk through old entries began:
both are history variables.

### KafkaPublish and KafkaOwner

In `KafkaPublish` the caller is the worker of the session, so it submits one batch
at a time, but a batch it abandoned may still lie in the owner's channel (`slot`)
or be in its hands (`job`). `Check` and `Enqueue` are the two halves of the loop
over the records in `produce::send`: `remaining()` looks at the caller and the
deadline, then a record is handed over. `Poll` is one delivery report in
`producer.poll`; it can belong to any record in flight, also of an earlier batch,
because the producer is kept. `Take` may find an expired OAuth token, which
replaces the producer. `fate` is what became of a record, of which the program
learns only delivered or failed. `handed` and `mixed` are history: the records
handed over when the caller was answered, and the batches that began with others
in flight.

`KafkaOwner` has several sessions, each with a worker (`phase`) and an owner thread
(`thread`). A session's first job takes the permit of the process (`holder`), which
is given back when the thread has dropped its clients, however long ago the worker
gave up waiting for that. `points` says whose diagnostics a native client reports
to.

### Nats

The client reconnects by itself and tells of it in a callback, whose events wait
in a queue beside the executor; `gen` says which client's callback still counts. A
subscription has a queue of `QueueLimit` messages: one that does not fit is dropped,
and the callback notes it some time after. `arrived`, `shown` and `lost` are history:
`LossIsTold` compares them. A publish is dispatched, flushed and answered; a
stopped or timed out one is told by `WriteOutcome`.

### WriteOutcome and the executors

`WriteOutcome` is `core`'s enum as a contract: an error only for a statement that
never left, `Applied` only for one that took effect, `Rejected` only for one that
never will, `Unknown` for everything else, after which it may still take effect.
`Postgres`, `Nats`, `Cql`, `Dynamo`, `Rabbit` and `Qdrant` each implement it, under a
mapping of what was sent, what took effect and what was reported.

In `Postgres` an operation (`op`) is a read, a statement or the shutdown, and
`op.at` the await it is in; every await can be interrupted (`RequestContext::run`)
or the whole task aborted (`Abort`, the drops of `Lease` and `Driver`). `session`
is the slot behind the mutex, which is never contended since the worker asks one
thing at a time. `client[s]` and `driver[s]` are the two halves of a session: the
connection can be lost at any time, and its driver task sets the status some time
after. `left[s]` is what the server holds for it: a transaction or statement in
progress, a cancellation on its way, and settings or advisory locks that the text of
a query or statement, or a function of a browsed view, may set at any moment that it
runs (`SetsState`). Only `query::fetch` and the end of a statement roll back and
`DISCARD ALL`, and so does the recovery of a failed read; a page of rows ends with
`COMMIT` (`rows.rs:330`) and the reads of the catalog reset nothing, and each of
them leaves the session to the next request (`provider.rs:296`). `NothingLeft`
therefore has two parts: a session that waits may have what a browsed view's
functions set, and nothing else (`WaitsClean`), and that is gone when a query or
statement that reached the session is over, or a failed read is recovered
(`ResetsClear`). `Discard` and `Close` are `close` with its cancellation and its
second of waiting; after `Shutdown` the executor is gone. A statement is assumed to
take effect or to be undone as a whole; a procedure that commits halfway is outside
the model, as it is outside `WriteOutcome`.

The other executors have the same form: `op` is what is asked, `op.at` its await.
What differs is what is modelled: `Cql` the driver's retries on another node and
the three kinds of answer of a node; `Dynamo` the retries of reads, never of
statements, and what an HTTP status tells when the body never came; `Rabbit` and
`Qdrant` the lease that is dropped with an interrupted request and its connection,
and the setup that runs on a thread that cannot be cancelled and holds a slot
until it ends. The assumptions about the servers are those of the code, named in
the modules: an error status of the RabbitMQ management API is a refusal; a
`GET` with acknowledgement reads, although it takes messages away, so its lost
answer is a plain error; a conditional CQL statement whose rows cannot be shown is
an error although it ran.

### CommandLine

`Args` is what `main` decides by: options, the configuration file, the connection
and its secrets. A check is `Calls` calls of a provider, each raced by
`RequestContext::run`, which is biased: cancellation before deadline before result.
The executor is shut down whatever came of the check.

### The pages

`NatsPages`, `KafkaPages`, `DynamoPages`, `PostgresPages` and `Listings` have the
same form: what the server keeps, the continuation of the reader, the rows shown
so far as history, and actions of others that change what is kept, between two
pages and between two requests of one page. `PagesComplete` is what each promises
when the reader reaches the end: everything that was there from beginning to end,
and nothing twice. How much of it a page can promise depends on the continuation.
A sequence, an offset of a log, a key or a server's own place keeps its promise
under every change; a page by number or by an offset into a list only while the
list does not change, and these modules say so by remembering whether it did.

`NatsPages` reads streams by sequence, whose first ones may be trimmed, purged or
recreated. `KafkaPages` captures the watermarks of its partitions and lets them
take turns; the topic's page whose first batch exceeds the byte budget gives the
turn to the same partition again. `DynamoPages` renews iterators that expire, from
the last sequence number. `PostgresPages` chooses a unique index to continue from,
which is dropped, replaced or altered between pages; rows without one are paged
by offset, whose order is assumed to be stable while the relation is not changed.

### SchemaCache and DecodeBounds

A page is decoded by a thread that is told of a cancellation and not stopped
(`Drop`, `GivesUp`), with a permit for each thread and one lock for the decoders.
`Load` keeps the schema or the failure of an id and evicts the oldest; an
interrupted load is not kept. The load of a Buf module, a catalog or a file is kept
whatever came of it, also when it was interrupted, until the session ends. So is the
client of the registry with its reader schema, which the first message builds (`Build`,
`Entry::registry`): if its page is cancelled meanwhile, every later page of the session
shows "cancelled or timed out" for each of its rows. `DecodedByOwnSchema` says where
such an interruption may be shown and that only a page that was given up leaves one
behind, never a failure while somebody waits, nor an id of the registry.

The messages have one registry and one module where the code has a list of bindings.
With `check`, `Cache::apply` builds and loads the same entries without rows; that mode
is left out. Kafka's decoders keep their entries in the same way.

`DecodeBounds` walks whatever message under whatever schema: a step chooses the
next node, with its cost, its names, the bytes it takes and the count it
announces. Beside it `built` counts what the library makes of the same message.

## Runs

| run | instance | shows |
|---|---|---|
| `session_safety` | two connections, 5 tasks and sessions, 6 generations, symmetric connections | `ImplementsForeground`, `PagesFromOwnSession`, `OneExecutor`, `SingleFlight`, `RequestsInOrder`, `StopsForCause`, `TypeOK` |
| `session_liveness` | one connection, 3 sessions, 5 generations, with fairness | `RequestEnds`, `SubscriptionReleased`, `ClosingWorkerEnds` |
| `session_opening` | one connection | violates `OpeningFailureExplained`, see below |
| `paging_views` | two queries, 5 pages, 3 bookmarks, depth 2 | `WaysBack`, `ViewsInOrder` |
| `paging_cached` | pages of one or two columns | violates `ColumnsExist`, see below |
| `terminal` | eight parts, constants in `MCTerminal.tla` and the cfg | `NewestRecords`, `DisplayFitsRows`, `WindowSlides`, `LiveColumnsStable`, `HandlersFindTheirData`, `PopupsKeepRequest`, `EditsAtCaret`, `SavedIsKept`, `ShownAsPromised`, `ScreenRestored`, `TypeOK`, `PartsTypeOK` |
| `providers` | eight parts, constants in the cfg, with fairness | `ImplementsWriteOutcome` of five providers, `NothingLeft`, `KafkaJobsApart`, `OneNativeOwner`, `LossIsTold`, `OperationsReturn`, `ProvidersTypeOK` |
| `pages` | seven parts, constants in the cfg | `PagesComplete`, `DecodedByOwnSchema`, `DecodingIsBounded`, `PagesTypeOK` |
| `kafka_unknown`, `kafka_rejected` | one submission of one record | violate `UnknownNotError`, `RejectedRefused`, see below |
| `kafka_applied` | 2 submissions of one record | violates `AppliedDelivered`, see below |
| `postgres_session` | 3 sessions, 2 statements, any number of reads, with fairness | `NothingLeft`, `StatusTruthful`, `ImplementsWriteOutcome`, `OperationsReturn`, `TypeOK` |

Some properties are the conjunction of several, each stated with its reason where
it is defined: `RequestsInOrder` of `OwnExecutor`, `CurrentNotCancelled`,
`LoadingHasOwner`, `NoReadWithSubscription`, `TimerOnlyWhenIdle` and
`StatusBelongsToSession`; `ViewsInOrder` of `RequestFitsView`,
`FollowCursorsSeparate`, `AtMostTwoCached` and `BookmarksBounded`; `WaysBack` of
`PagesLeadBack` and `QueryReturnsToBrowsing`; `SavedIsKept` of four properties of
`ConfigFile` and `History`.

The bounds: `MaxSession` bounds how often a connection is opened or left,
`MaxGeneration` how many requests the user and the timer start, and `MaxTask`
how many workers are spawned. A session spawns at most one worker, so
`MaxSession <= MaxTask` keeps that bound from blocking the program. A conflict
needs an old session, a new one and an answer that comes late, so two of each
show it; the instances leave room for a second visit to the same connection,
behind a worker that is still closing, with requests before and after. In
`Paging`, `BookmarkLimit` is 4096 in the code; 3 is the least at which a bookmark
without its page lies behind two with theirs and the limit is met with pages
left. `MaxDepth` bounds resources opened from resources.

In `Follow`, `PageRows` is 100 and `PageBytes` 1 MiB in the code; with 3 and 4
either limit evicts first, a batch can evict more than one row, and a longer
cursor alone evicts one. `MaxRecord` leaves room to replace the whole window. In
`Modes` one row is enough for a row to be there or to have gone, and a view may lie
two deep. Two processes race on the configuration, with a third name that neither
saves, and an editor who changes it once. `History` has a limit of 2 and 3
submissions, so that one is evicted; `Editing` a text of 5 characters, which holds
two lines of which one is shorter and a combined character; `Layout` rows of up to 3
columns, texts of 5 glyphs for lines of 3 and previews of 3 lines, and 7 rows of which
2 are seen at a time.

In `KafkaPublish` two submissions suffice for a batch that meets what an earlier
one left, in the channel, in the owner's hands or in the producer; two records for a
batch of which some arrived. In `KafkaOwner` two sessions contend for the permit
while three jobs let one be abandoned, one lie in the channel and one come after. A
second client in `Nats` lets the callback of the first come late; a queue of one
message overflows with two. Two statements let one be interrupted and one follow on
the client that it left. In `Postgres` a third session follows one that was lost and
one that was discarded. Pages have 2 rows and what is paged 3 to 5 entries, so that a
page ends in the middle and the last one is short, with one or two changes between;
two partitions of 3 offsets take turns. `CacheEntries` 2 with 3 schemas evicts one that is
asked for again. `DecodeBounds` has budgets that can each be met first.

`StopsForCause` names what ends the program: the user, the terminal's input, and
a `stop_follow` or `shutdown` that failed or took too long, also one of a connection
that the user only left (`worker.rs:73`; the code returns that error from `run`). It
says that nothing else does: a worker that ended as it was told to is never taken for
one that "stopped unexpectedly", and no request or cancellation is sent to one that is
gone or busy.

Deadlock is checked in every run. `Exited` in `Session`, `Ended` in `Postgres`, `Quiet` in
`KafkaPublish` and `Done` elsewhere let what has ended stay ended.

Fairness: `sync_worker` always returns (`WF` on `LoopStep`), and so does
`stop_worker`. The loop's `select!` is unbiased: among the branches that are
ready tokio picks at random, so a worker event that stays ready is handled
although keys keep coming. That is strong fairness of `WorkerEvent`, since every
key ends the wait and disables it for a moment. The tasks run on a multi-threaded
runtime, and each await in them ends: a request at its deadline
(`RequestContext::run`), `stop_follow` and `shutdown` after a second, the send of
a reply when it is received or the stop arrives. Nothing is assumed of the user
or of success.

In `Providers` there is one weak fairness, of `Progress`: the steps that a thread,
a deadline or a poll of the task forces, of all parts together. It is less than
what the program gives, where each session has a worker, and each Kafka session a
thread, of its own. Servers, brokers and the network owe nothing: no report or
answer need ever arrive. In `Postgres` the steps that a deadline or a poll of the
task forces are fair (`Progress`), and a driver task that is ready runs.

### What the violations show

`session_opening`: `App::opening` is documented to hold until the first page of a
connection arrives or fails, so that a failed opening returns to the list and
explains there. Refresh is offered while the first page loads, and its `load`
clears the mark. If the refreshed page then fails, the user is left on an empty
view with the reason in the footer, which the comment in `complete_page` wants to
avoid.

`paging_cached`: `complete_page` clamps the selected column and gives up a sort
whose column the new page lacks. `previous_page` restores a cached page without
either. With pages of different columns, as DynamoDB items give, the selected
column can lie beyond the restored page, and opening a row indexes it.

`kafka_unknown`: ADR-0015 says that a submission without a delivery report is
reported as unknown, and `docs/kafka.md` that anything between applied and rejected
is. A deadline, a cancellation or a record that is refused locally makes `send`
return an error, although records before it were handed over and may be appended.

`kafka_applied`: delivery reports carry the index of the record in its batch, not
the batch. After an abandoned submission its late report fills the slot of the next
one; if it arrives behind that record's own failure, the submission is reported
as applied although its record was refused. Without others in flight
(`OwnReports`, in `providers`) the summary is right.

`kafka_rejected`: a delivery error is not always the answer of a broker. A record
that timed out in the producer, or whose connection broke, counts as refused too,
and a submission of such records alone is reported as rejected, although they may
have been appended.

## Proofs

The proofs about `Session` are for every set of connections and every bound, from
two assumptions on the constants: `NoAlias` is no alias (`AliasAssumption`), and the
bounds are naturals with `MaxSession <= MaxTask` (`BoundAssumption`).

`SessionProofs`: `TypeCorrect` is `Spec => []TypeOK`. `NeverTwoExecutors` is
`Spec => []OneExecutor`. `OneExecutor` is not inductive by itself: when the loop
is over, a worker that finished could have been replaced. The invariant `Owned`
adds what `ui` says about the worker (`JoinsOwn`).

Of the requests, the invariant `Asked` adds to `Owned` where the request
numbers are: a pending request is the latest generation and shown as loading, the
worker's request is never newer than the generation, and if it is the latest,
nothing is pending. With `SingleFlight` (also proved, as `OneRequestInFlight`)
this makes `answered' = reply.id` the awaited request whenever a reply is applied,
which is the step of `ForegroundImplemented`: every action of the program is an
`Ask`, an `Abandon`, an `Answer` or a stutter of `Foreground`.

The invariant `InOrder` adds to `Asked` what lies between a request
and the task that has it. `WorkerKnows`: what the loop keeps of its worker (alias,
session, request, the sender of its cancellation) is true of the task. `FollowKnown`:
a subscription that is held, or that a running request may open, is known to the loop
or about to be released. `AwaitedIsSafe`: why the awaited request survives what the
loop does next; it is not claimed after the loop, where a worker is stopped with
its request. `LoadingHeld`: a request that is loading is in `App` or with a worker
that will answer it or has died, which the loop then reports. From these follow the
six parts of `RequestsInOrder` (`RequestsStayInOrder`) and, since a reply is of the
session that asked, that a page is shown only in its own (`PagesOfTheSession`).

`LoopEndsForCause` adds `EndsAsked` to it: a task that is done without an error, or on
its way there, was told to stop, and the loop that told it marked its worker as closing,
so that its end is expected.

The records of `Session` are updated field by field, so the proofs rest on one
small lemma for each group of fields ("changing these booleans leaves an `App`").

`PostgresProofs`: the invariant `Honest` has four parts. `Places` says at which
await each kind of operation can be and that it has a result from its outcome on.
`Leftovers` says what a session may have at each await, beside what functions set;
`NothingLeft` by itself a step from `prepare` or a connection with a used session would
break. `Reports` says of the result of the
operation in progress what `WriteOutcome` says of reports, so that it still holds
when it is returned, and that a statement without a report is either unsent or the
one in progress, so that none is sent twice. `SessionsAreClean` follows at once;
`OutcomesImplemented` maps `Dispatch` to `Send`, the server's `Decide` to
`TakeEffect`, every return to `Report` and the rest to stutters. The operation is
a record, and its changes are summarised once for each form of update (`OpIs`).

`StatusIsTruthful` needs a second invariant, `Connected`: `Linked` says which session
has its driver, and that no other has a connection; `Shown` ties the status to the
await the operation is in, since between two of them the slot is empty while a driver
still lives, and afterwards to the session that is kept. That `Closing` is left only
for `Closed` follows for each step from where the operation is (`ClosingStep`).

`PagingProofs`: the invariant `Orderly` is about the views (`Stacked`) and about what
they await (`Awaited`). A view is `Sound` if its bookmarks are those of all pages
before the one it shows, in order, of which the newest two may have their page, or
if it shows live records and has none. `ViewsInOrder` alone is not inductive: that
the page before is there to be popped when it arrives needs the bookmarks, and
that the token asked for is that of the next page needs the page. `Awaited` ties the
editor, following and the request to the view they are for: `FollowTick` continues at
a cursor only because a view that is followed and awaits nothing is live. The
assumption is on the kinds of the constants (`PagingAssumption`). `FollowedColumnsStay`
says from `Orderly` that a step which changes the columns of a live view is the first
batch of a follow, or shows another view.

`TerminalProofs`: each part of `Terminal` has an invariant, which only its own steps
can disturb (`OneMoves`). `FollowAssumption` and `TerminalAssumption` give the constants
their kinds and a page, a history and the views room for something; `EditorAssumption`
and `LayoutAssumption` say that sizes are naturals, that the form has a field, the
program a provider and a table a row.

- The window of live records (`Window`): beside the type, `NewestRecords` and
  `DisplayFitsRows` it says that a follow which awaits more records has its live window
  (`Phase`); without that, a later batch could extend rows of a browsed page. `Removed`
  is a number of rows at most that of the page (`RemovedRange`), and the rows that are
  left are those behind it (`Dropped`). For `WindowSlides`, that rows are evicted until
  the page fits and not longer, the bytes of a page are a sum of its rows'
  (`BytesTotal`, a `Total` of `OrderingProofs`), so that a page which fits with its
  cursor fits without, and the first rows removed are the fewest that may be.
- The modes (`Ready`): `HandlersFindTheirData` says what a handler finds, but not why
  nothing underneath takes it away. `Modal` adds that: a detail is never open while a
  page is awaited, records are followed or the filter is typed, so that no answer and
  no filter changes its rows; the history menu and a confirmation are only open while
  nothing is awaited; following goes on under nothing but the quit popup; and the
  filter line is only there when no popup is. The input belongs to what is open
  (`OwnerIsOpen`), hence an action is one of its owner's. `Covers` is proved beside it,
  for `PopupsKeepRequest`.
- The configuration (`Filed`): what a process found when it compared is in the text it
  writes, so that the rename drops nothing that was there then, and a text that is
  saved is one that loads.
- The history (`HistoryKept`): the entries are the newest of all that was loaded and
  recorded (`NewestOfOneMore`: dropping the oldest and appending one is to take the
  newest of one more), what is stored was shown at some time, also after more was
  recorded (`StoredStays`), and the text that was typed is kept while an old entry is
  shown (`Drafted`).
- The terminal (`ScreenPhase`): the keyboard flags are pushed on the alternate screen
  and popped once, by the guard or the panic hook, whichever comes first.
- The views: `VP` is an instance of `PagingProofs`, whose steps are those of the
  `Paging` that `Terminal` has (`SameNext`).
- The editor and the form (`Edited`): the caret is in the text it edits, a text of one
  line has one, and the length of all the texts is the sum of theirs, within the limit
  (`HeldTotal`). `SplicedAround` says of one edit that what lies before and behind the
  caret is as it was. Lines and columns are counted, not searched: the line of the caret
  is the one between two breaks (`IsLine`, `LineFound`), and a column is the number of
  graphemes before it in that line, so that there is a place with each number up to
  the line's own (`ColumnReached`), which is where up and down go (`EditsAtCaret`).
- What is drawn (`DrawKept`), one invariant for each kind of drawing. Columns
  (`Allotted`): those that need least were served first, what was given and what remains
  are what there was, none of those served got more than an equal part of the rest
  (`Fair`), and one that got less than it needs got as much as any of the others can
  still get, but for one cell (`AllottedFair` is the last such state). Lines of a preview
  or value (`Wrapped`) and chunks (`Chunked`): the lines rise through the text and show
  just the graphemes before the position, or up to the cut all that precede those they
  show; each is within the room, where the width of a line is the sum of its graphemes'
  (`WidthIs`, `WideGrows`), and a line without width has no grapheme (`WideHolds`), so
  that what is put at the beginning of a line is put on an empty one. The memory of the
  previews (`Previewed`) is what was held and what remains. Rows (`Paged`): among
  rows of one line a page moves the selection by no more rows than the window has, so that
  those it passes are in the next window (`WindowHas`). Scrolling
  (`Scrolled`): everything up to the end of what is drawn was drawn once, however the
  room changes between.

`ProvidersProofs`: each part of `Providers` has an inductive invariant, and a
step of one part leaves the others alone, so that the invariant of all (`Sound`) is
their conjunction. What is assumed (`ProvidersAssumption`) is that the sizes are
naturals, and that an event, a message of a batch and an attempt have room; sessions,
jobs, submissions, records, statements and messages are as many as one likes.

- The owners (`Single`): a session's thread has the permit if and only if `holder`
  names it (`Permits`), clients are only where the permit is, and while a job runs
  its client exists and reports to that job, from which `DiagnosticsOwn` follows;
  `Statuses` ties the status to what the thread can still do.
- Publishing (`KpInv`): the records of a batch are handed over in their order
  (`KpBatch`), and what is in flight belongs to the batch in the owner's hands
  unless the batch is `mixed` (`KpOwn`). Without that, `OwnReports` is not inductive:
  the slots of a batch hold what became of its records only because no report of
  another can arrive. That one record at most is handed over after an answer
  (`KpHanded`) needs to know whether a check is behind the owner already.
- NATS (`NaInv`): what was shown, the rows of the batch, what was left of the last
  one and what is queued are the messages from the first on, and behind a drop there
  is an error, an event for the callback to read or a callback that reads it
  (`NaWhole`, `NaWarned`). That a callback's event belongs to the connection in
  the slot, and that a slow one still has room for it, are the rest of it.
- The statements (`NaAsks`, `CqAsks`, `DdAsks`, `MqAsks`, `QdAsks`): the one in
  progress is not reported, and every other without a report is unsent, so that none
  is sent twice or decided after an error. `HonestKept` and `StepsKeepContract` are
  proved once of any executor whose steps send, decide or report one statement
  (`StatementStep`); `NaSteps`, `CqSteps`, `DdSteps`, `MqSteps` and `QdSteps` show
  that each provider's are, and `ReportsImplementWriteOutcome` follows for all five.
- `NothingIsLeft`: a client is busy only while the answer to the operation's request
  is awaited (`MqHeld`, `QdHeld`), and an executor is open only on the way of a check
  (`CmInv`).

`PagesProofs`: of the decoders, which make their own steps (`PagesDecode`), the
invariant `Decoding` says that one thread at a time is past
the lock (`Alone`), also while it builds the registry's client, that what a thread loads is not in the cache and cannot come
there meanwhile (`Progresses`), that ids are kept once, with their own schema or its
failure (`Sound`), and that a module is the one of the commit that its label named
when it was resolved (`Named`). A row
shows an interruption only of its own page or one that is kept (`RowIs`), and behind one
that is kept is a page that was given up (`Broken`). The size of the cache is a cardinality of ids, which
are as many as entries because none is there twice (`IdsCounted`). The assumption,
`CacheAssumption`, is that the sizes are naturals and the cache holds at least one.

Of the walks, `Charged` says that what the library builds was charged to the budget
first, value for value and name for name, and that what was charged is within the
limits, for any limits (`PagesAssumption`). `VisitStays` shows it once for a node of
any kind that is built for no more than it costs and takes no more of its frame than
is left; `KeyedPayable`, `DefaultPayable` and `WireTakes` show that the keys of a map,
the defaults of a reader and the elements of a packed field are such nodes. A group
is never the lowest frame, so that its end has a body to go on in (`GroupStays`).

Of the pages of NATS, `StreamPagesComplete` shows `PagesComplete` and the types of that
part, for a stream of any length, pages of any size and any number of changes
(`PagesAssumption`). The invariant is `Scanned`. Of a stream, an object or a replay
(`StreamShown`) it says that the cursor's place is at most the end it was given, and
that end is the stream's unless the stream was recreated since (`Placing`); that all
that is shown lies before the cursor and, in the stream of the cursor, all that is
still kept and lies before the cursor is shown; and that the page being read goes on
where those shown end and has, with them, what is kept before its own place
(`Batched`). The kept messages of a view are not enough: what a purge takes away
must not be missed, and what is there after a recreation is not owed. Of a list by
offset (`ListShown`) it says that the entries behind the offset come after
everything shown, whatever was removed, and that a list that did not change is shown
as it is. The steps are one per action, as in `NatsPages`. Where the next message of a
batch is a least element, `LeastMessage` has it from the well-foundedness of the
naturals (`LeastOf`), so no induction over the length of a page is needed.

`ContinuationProofs`: what `PagesProofs` shows of the streams, for all that pages.
`PagesAreComplete` is `PagesSpec => []PagesComplete` and `PagesTyped` is
`PagesSpec => []PagesTypeOK`, for any number of entries, rows, keys, records and
partitions, any size of a page and any number of changes, from `PagesAssumption`
alone. The invariant `Continuing` has one part for each server; each was an invariant of
a TLC run of that part before its proof.

- Listings (`Listed`). A page cut from one list ends where the next begins: what was shown
  is the beginning of the sorted list, as long as the offset that the bookmark stands
  for (`CutShown`; a number of a page stands for a multiple of its size). Behind a server's
  own anchor: all that was there all the time and lies behind it was shown, and all
  shown lies behind it (`AnchorShown`). This is claimed however often the listing changes,
  the first only while it does not.
- PostgreSQL (`Related`). The same by offset (`HeapShown`), and by the key of the index in
  use (`KeysShown`), where the keys of what was shown rise and the cursor is the last
  of them. The index of a cursor is the one that the read began with, or it has ended,
  and it has no flaw that would repeat a key or leave one out.
- DynamoDB (`Sharded`). A place in a shard is written as "after a record", "at a record" or
  an iterator, several of them at once while an iterator is renewed; all of them
  name the record that follows those shown (`Names`). Hence renewing from any of them
  neither repeats nor skips. A shard is over only when it is sealed and its last
  record was shown. Keys of a batch are shown or still asked for, and never both.
- Kafka (`Logged`). For each partition of the view: the cursor is in its window, whose end
  the log has reached (`Reached`: it is there now, or was before a truncation); what is
  shown lies before the cursor, and what is still there as it was, from the beginning of
  the view to the cursor, is shown (`TopicShown`). While a page is read the same holds of
  its own cursor, with its rows (`PageShares`), and of the batch of one partition between
  that cursor and the position of the read (`BatchTaken`). What is owed below an offset
  that was reached never grows: a record that is produced comes behind all that was
  reached, or in the place of one cut off, and then it counts as rewritten
  (`LogAfter`, `OwedAfter`). That is what a window's end must have been reached for, and
  what lets one lemma serve production, retention and a change of leader (`LogTurned`).
  A row that does not fit is given back with the rest of its batch (`LogOverflows`):
  the rows taken are those before its offset.

`OrderingProofs` has what these proofs need instead of induction over data. A set of
naturals has a least element, and one with a bound a greatest (`LeastOf`, `GreatestOf`),
so a first counterexample can be named. What holds of a subset of a finite set if it
holds of one with an element less holds of all (`SubsetInduction`, by the size of
the smallest subset for which it would not).

- Sums. `Total(w, S)` is the number of pairs of an element `x` and a number below
  `w[x]`, hence a cardinality, and adding an element adds its number (`TotalAdds`). A
  recursive function that takes one element after another has that value on every
  subset, in whatever order it takes them (`TotalIsAdded`); so has the fold of the
  community modules (`SumTotal`).
- Orders. The models list a set with `InOrder`, whose `k`-th element is the one with
  `k - 1` before it. That there is such an element for each `k` is a count: two elements
  have different ranks, so the ranks are an injection into as many numbers, which is
  onto (`RanksReached`, from `FS_Injection`). From it `SortedInOrder`: the sequence
  ascends and has every element. That a set has no other ascending sequence
  (`AscendingEqual`) is shown at the first place where two would differ.

All safety and action properties of the passing runs are theorems. The liveness
properties (`RequestEnds`, `SubscriptionReleased`, `ClosingWorkerEnds`,
`OperationsReturn`) are only checked by TLC: they need fairness and `ENABLED`, which are
out of reach of the prover. The modules that theorems have instances of do not extend
`SequencesExt`: the prover repeats all of a module, for each instance, in every
obligation.

## Not modelled, and the plan

- Themes, panels, hints, the choice of a value's format, JSON and hex texts and
  highlighting: pure output.
- The grammars of statements (`http-query`, RabbitMQ, NATS, Kafka, DynamoDB): pure
  functions from a text to a request; that a statement may not parse is an outcome
  in the executors.
- The options of each provider, the TOML schema and the resolution of secrets; TLS,
  OAuth and AWS configuration.
- What a value decodes to, and how it is shown as a row; the fields of metadata.
- The formats of registries, Protobuf sources and their compilation: a load
  succeeds or fails.
- The byte budget of the registry's cache, which evicts as the number of entries
  does; tokens beyond 1 MiB in `Paging`.

What is left, the most useful first:

1. `KafkaPublish` on top of `KafkaOwner`: the two models of the owner thread meet
   only in the job they serve; a common one would let an abandoned batch and a
   session that ends share a behavior.
2. The grammars of the statements, as folds over tokens against a reference
   definition.
3. The byte budgets that were left out.
