# TaskWORKER in TLA+

TaskWORKER is a local service that accepts inference jobs, runs them one at a
time on a backend, keeps every state change in a journal and streams the changes
to its clients: a web page, a command line, a Python library and agents behind an
MCP bridge. This directory holds TLA+ models of the service, its storage and its
clients, TLC configurations that check them on small instances, and TLAPS proofs.

Paths below are relative to the repository root (`src/` in PROJECT.json).

## 1. Inventory

| Part | State | Operations | Interacts with |
|---|---|---|---|
| Contract and reducer (`internal/core/state.go`, `jobs.go`, `events.go`, `errors.go`) | none: pure | `ApplyCommit`, `transition`, `ValidateRequest`, `TerminalReserve`, `CheckJobFits` | called by worker before an append, by the journal during it, by `Open` on every frame |
| Worker (`internal/core/worker.go`) | `state`, `receipts`, `cancel`, `outputErr`, `fatal`, `stopping`, `closed`, all under `w.mu` | `Submit`, `Retry`, `Branch`, `Cancel`, `SetQueuePaused`, `dispatch`, `emit`, `complete`, `Shutdown`, `NewWorker`, reads | journal (append under `w.mu`), backend goroutine (callbacks `emit`, then `complete`), streams (push under `w.mu`) |
| Journal (`internal/adapters/journal`) | file, index, recovered state, poison flag, directory lock | `Open`, `Recover`, `Append`, `ReadEvents`, `Close` | worker and stream readers, own mutex |
| Event streams (`internal/core/watch.go`) | cursor, replay limit, bounded backlog, wake channel, end | `Watch`, `Next`, `Close`, `push`, `finish` | worker pushes; `Next` reads the journal without `w.mu` |
| HTTP server and SSE (`internal/adapters/httpapi`) | 32 request slots | routing, decoding, event loop with heartbeats | calls the Service port, one stream per event request |
| HTTP client, CLI, Python client | saved keys, mirrored snapshot | resend, reconnect, projection | HTTP |
| Web UI (`internal/adapters/webui`) | projection, saved create command | apply event, save, resend, clear | HTTP and SSE |
| MCP bridge (`internal/adapters/mcpbridge`) | in-flight and cancelled ids | framing, tools, `wait_job` | HTTP client, MCP SDK |
| Ollama adapter (`internal/adapters/ollama`) | one stream at a time | `Generate`, `Models` | called by the worker's goroutine |
| Service (`internal/service`) | the order of start and stop | `Run` | all of the above |

What is hard here, and what correctness means for it:

* **Transactions.** Every change is a transaction that the reducer validates
  three times. Were a handler to build one that is refused, the worker would be
  poisoned. It must never happen.
* **Ownership of the inference.** `w.cancel`, `queue.active` and the goroutine
  must agree, across failures and restarts; `w.cancel()` is called without a nil
  check.
* **Storage failures and crashes** between write, sync, publication and dispatch.
  What a client was told must survive; the outcome of an ambiguous write must be
  all or nothing; a key must keep its job.
* **Stopping.** Cancel, shutdown, poisoning and refused output race callbacks and
  completion. The stop must reach the backend, the job must end legally, and the
  store must be closed once, last.
* **Streams.** Replay without the worker's lock, then a bounded live backlog with
  a one-token wake channel: no gap, no repeat, no missed wake-up.
* **Limits.** Queue, job, output, sequence and backlog limits are checked in two
  places that have to agree. The byte reserve must leave room for the end of every
  accepted job. Request slots and tool slots must come back.
* **Bytes on a device.** Torn frames, torn headers, unsynced directory entries,
  blocks that reach the device out of order, a second process on the directory.
* **Answers that are lost or late.** A create that was abandoned may still be
  executed; a resend must find its job; what a client was told must stay true.
* **Copies.** The page's projection, an agent's cursor and its output pages must be
  the service's state at their cursor, over breaks, reconnects and replaced stores.
* **Foreign peers.** The Ollama daemon has other users and may stall or break off;
  the MCP client may cancel, reuse ids and send lines the SDK cannot decode.
* **Start and stop.** The address and the directory change hands at different
  times, while requests and backends go on that `Run` does not wait for.

`PROJECT.json` lists these hazards at their lines, with the properties that
would catch each.

## 2. Modules

| Module | What it is |
|---|---|
| `Contract` | vocabulary: states, transitions, jobs, queue, snapshot, events, receipts |
| `Reducer` | `ApplyCommit` as operators, one per reject condition group |
| `Ledger` | abstract specification: what the Service port promises its clients |
| `Worker` | the worker over its journal and backend, with failures, crashes, restarts |
| `WorkerInv` | the inductive invariants of `Worker` |
| `WorkerProofs` | lemmas on transactions; the invariant is inductive; the theorems |
| `LedgerProofs` | receipts, recovery and the refinement of `Ledger` |
| `Watch` | event streams: replay, live backlog, wake-ups, close |
| `Journal` | the journal file byte by byte: processes, crashes, power failures, the directory lock |
| `AppendLog` | abstract specification of the journal: an append-only list with atomic appends |
| `Reserve` | storage accounting in the code's byte counts |
| `HttpServer` | request checks, request slots, calls that outlive their request, SSE |
| `Delivery` | a create command from intent to settlement, over an unreliable connection |
| `Projection` | the page's copy of the state and the loop that keeps it up to date |
| `Framer` | MCP framing: bad lines, cancellation, tracking of ids |
| `Bridge` | MCP tool calls: slots, the call limit, `wait_job` |
| `EventReader` | MCP `read_events`, called again and again with its cursor |
| `Paging` | output from the backend through chunks to pages of an agent |
| `Generate` | one inference of the Ollama adapter against a shared daemon |
| `Modelfile` | the reading of the ambiguous Modelfile the daemon generates |
| `Service` | start and stop of service processes on one address and directory |
| `WatchProofs` | the inductive invariant of event streams and its theorems |
| `StorageProofs` | the same for `Journal` and `Reserve`, and the refinement of `AppendLog` |
| `ServerProofs` | the same for `Service` and `HttpServer` |
| `ClientsProofs` | the same for `Delivery` and `Projection` |
| `McpProofs` | the same for `Framer`, `Bridge`, `EventReader` and `Paging` |
| `GenerateProofs` | the same for `Generate` and `Modelfile` |
| `MCWorker`, `MCWatch` | instances of `Worker` and `Watch` for TLC |
| `MCStorage` | `Journal` and `Reserve` |
| `MCServer` | `Service` and `HttpServer`, a second instance of `HttpServer`, and `Generate`'s deadline |
| `MCClients` | `Delivery` and `Projection` |
| `MCMcp` | `Framer`, `Bridge`, `EventReader` and `Paging`, with two instances each of the first two |
| `MCOllama` | `Generate` and `Modelfile`, with two more instances of `Generate` and one of `Modelfile` |

How they fit together. `Worker` relies on the journal as `AppendLog` states it and
on `Generate` to return. `Watch`, `HttpServer`, `Delivery` and `Service` each keep
of the worker what they meet, and `Worker` has the rest. `EventReader` and
`Projection` read the stream of which `HttpServer!StreamContiguous` and
`Watch!GapFree` say what it delivers. `Service!StopEnds` uses `Generate!Returns`
as its fairness.

### Worker

A handler runs under `w.mu` and keeps it while the journal writes and syncs. So
the model has one program counter, `pc`, for the holder of the mutex, and `cmd`
is the transaction that holder is committing. A handler is an action that leaves
`pc = "idle"`; the commit is a `Write` step and a `Sync` step, each of which can
fail (`CommitRefused`, `OverLimit`, `WriteFails`, `SyncFails`), and a crash can
fall between any two steps. What the caller of `commit` does about a failure
(NewWorker gives up, `emit` stops the backend, `dispatch` and `complete` poison
even for `limit_exceeded`) is part of `CommitFails`; what it does after success
(start the goroutine, cancel the context, dispatch, close the store) is part of
`AfterPublish` and `Continuation`. The trailing `dispatch` of `create`,
`setQueuePaused`, `complete` and `NewWorker` is the step the handler must take
next, with the mutex still held. An early return that changes nothing is a
stuttering step, and so are the read operations.

`emit` commits one chunk at a time, so an output that exceeds the limit in the
middle is refused after earlier chunks were kept, as in the code.

Storage is two images of the journal: `cache` is what `Open` would read from the
file now, `disk` what it would read after a power failure. `Write` changes
`cache`; only `Sync` copies it to `disk`. `Crash` keeps `cache`; `PowerFails`
(when `PowerLoss` is TRUE) leaves either image.

`snap` and `receipts` are what the worker has published. They keep their value
while the process is down, so that action properties and the refinement compare
what clients saw before a crash with what they see after it.

### Watch

The worker is reduced to what streams meet: a commit that publishes one or two
events, which are then pushed one by one while `w.mu` is held (`pushing`),
poisoning, Shutdown and `closeStore`. `Next` is split at the points where the code
gives up `s.mu`: the look at the stream, the journal read, the report of a
failed read (which takes `w.mu`), the pop, the wait. `ReadEvents` searches the
frame index as the code does. The "replay gap" branch of `Next` is a case of
`ReadError`; the invariant `ReplayIsDense` says it is never taken.

### Journal and AppendLog

Each byte of the file is named by the frame it was written for and its place in
it, so a checksum holds exactly when the bytes it covers belong together. `file`
is what a process reads, `stable` what the device has confirmed; a power failure
leaves `stable`, `file` or something in between: a prefix of the new bytes, or,
on a `"free"` device, any of them with garbage in the gaps. `names` is the directory
entry, which an unsynced directory may lose (`EntryLoss`). `Open` is one action per
system call: make the directory, sync its parent, take the lock, open or create the
file, write and sync the header, sync the directory, check the header, then read one
frame after the other, cut an incomplete tail and sync that. `Append` is one action
per call as well (begin, write some bytes, write the rest, sync). Between any two of
them a call can fail, the handle be closed or poisoned, and the process die.
`ImplementsAppendLog` maps the whole frames of the file to an abstract list that
grows by one transaction, is confirmed by a sync, and loses only unconfirmed ends.
On a device that does not keep the order of writes (`ordered` is FALSE) a power
failure may also bring frames back that were never confirmed, as whole frames can lie
in what `Open` takes for the tail of a torn one, and are still on the device when a
process dies between cutting the tail and syncing that. It takes three power failures
and several processes, so no run of this size shows it; the proof of an earlier
`AppendLog`, whose list only ever lost its end, failed on it.

### Reserve

Jobs are records of a length; transactions have the sizes the code's constants
give them. `TerminalReserve` is the code's sum over the jobs that have not ended.
Submissions and output fill storage to the last byte; `denied` collects lifecycle
transactions that `Append` refused for size. A store found at start (`Recovered`) is
as a worker leaves one: what its jobs still need fits behind what is written, which
is what the model itself keeps (`AccountsInv` in `StorageProofs`).

### HttpServer

A request is what the checks of `ServeHTTP` tell apart. `call` in `worker.go` runs
a command in a goroutine of its own, so a request can end with a 5xx or be left by
its client while the command waits for the mutex; the model keeps both sides
(`status`, `op`, `effect`). An event stream is a loop over send, wait and
heartbeat, with a write deadline against a client that does not read (`Buffer`).

### Delivery

`role`, chosen in the initial state, says who the client is: `"page"` is `create`,
`sendSaved` and `Recovery`, which save a command before it is sent and refuse to
resend it to another store; `"agent"` is the bridge, the CLI and the Python client,
whose callers resend with the key they chose. Every send is an attempt of its own; one that was abandoned may still arrive,
wait and be executed. `PromptClose` is the set of roles for which a server sees a
closed connection before it does anything else with its request.

### Projection

A loop per page generation: connect with the cursor, receive a snapshot or resume,
apply frames, break, retry; hiding the page bumps the generation and showing it
starts another loop while the old one still has frames on the way. `StateAt`
recomputes from the log what the copy should hold.

### Framer, Bridge, EventReader, Paging

`Framer` reads lines in chunks, passes or answers them and drops responses of
cancelled requests; an id is a value and a spelling. Which messages the vendored
SDK can decode and when it ends the session are external and taken from how the
code describes it and from the SDK's own reader. `Bridge` has a clock, so that
budgets, call limits, late timers and late replies meet. `EventReader` and
`Paging` model one tool each together with the agent that passes its cursor or
offset back. In `Paging` a byte carries the character it belongs to, its place in it
and the character's width, so that "cuts no character" is said of the bytes an agent
puts together.

### Generate and Modelfile

`Generate` is one call after the other (version, inventory, show, load, recheck,
chat, last observation), each of which can fail, stall or be overtaken by another
user of the daemon, with a context that is cancelled or expires at any time.
`Modelfile` writes the Modelfile the way the daemon does (external), one directive
after the other, and reads it with `templateOnlyModelfile`, a turn of its loop at a
time, for every model in `Candidates`.

### Service

`Run` step by step per process. The address is taken first and the directory
second; on the way out the server is closed first and the worker, with its store,
last. `calls` and `backend` are the goroutines `Run` does not wait for; `late`
collects processes that wrote without owning the directory.

### Ledger

A list of accepted jobs that only grows, each moving along the lifecycle one
atomic step at a time, started first come first served and one at a time, and one
job per key for ever. `Worker!ImplementsLedger` instantiates it with
`jobs <- snap.jobs`, `paused <- snap.queue.paused`: each published transaction is
one ledger step and everything else, crashes included, is a stutter.

## 3. Runs

Twelve runs. Components that share no variable are put side by side in one MC
module: `part` (in `MCWatch`, `alone`) is chosen in the initial state and never
changes, the component it names takes all the steps, and the others stay in one
initial state. The behaviours of such a module, seen through one component's
variables, are that component's behaviours in its instance and stuttering, so a
property of the component holds of the union exactly when it holds of each
instance. Fairness is stated in the MC module, for the steps of the part that
moves. A component may be there twice, with two instances that make different
cases happen.

| Run | Checks | Instances |
|---|---|---|
| `worker_safety` | `CommitsAccepted`, `SingleInference`, `StopReachesBackend`, `WorkConserving`, `OneJobPerKey` | 3 keys, 3 jobs, 2 pending, power loss, 14 events |
| `worker_durable` | `PublishedRecoverable`, `ImplementsLedger` | without power loss, 2 valid requests and 1 invalid, histories up to 3 messages, 13 events |
| `worker_live` | `CancelCompletes`, `ShutdownCloses` | 2 jobs, fair |
| `worker_synced` | `PublishedIsSynced` is violated | 2 jobs |
| `watch` | `Exact`, `StreamSound`, `PoisonIsHonest`, `EventuallySeen` | 1 stream with 3 events of size 1 or 2, 2 streams with 1 event; backlog of 2 events and 3 bytes; fair |
| `watch_close` | `OrderlyClose` is violated | 1 stream, 2 events |
| `storage` | `AckedRecovered`, `Reopens`, `WholeFramesStay`, `ImplementsAppendLog`; `LifecycleFits` | `Journal`: 2 processes, 2 appends, a power failure on an ordered and on a reordering device, 1 error. `Reserve`: 6 commits from empty, nearly full and full stores, with 0 or 63 queued jobs |
| `journal_entry` | `AckedRecovered` is violated | unsynced directory entries can be lost |
| `server` | `OnlyOwnerWrites`, `OneBackend`, `StopEnds`; `AnswerHonest`, `StreamContiguous`, `SlotsComeBack`; `Returns` | `Service`: 3 processes, 4 starts, 2 calls. `HttpServer`: 2 requests on 1 slot; 1 request of every kind. `Generate`: one model. Fair |
| `clients` | `OneJobPerIntent`, `SettledIsTrue`, `Resolved`; `ShowsThePast`, `NeverBack`, `CatchesUp` | `Delivery`, as page and as agent: 2 intents, 2 attempts at once, 2 stores, 2 faults. `Projection`: 2 jobs, 2 events, 2 stores, 2 loops. Fair |
| `mcp` | `AnsweredOnce`; `ControlStaysOpen`, `WaitIsHonest`; `NothingSkipped`; `PagesAreText` | `Framer`: 3 lines with 2 ids; 2 lines of every shape. `Bridge`: 4 calls on 3 slots and 1 waiter; 1 wait with budgets 0 to 4 and a free clock. `EventReader`: 3 events of 3 sizes, 2 stores. `Paging`: characters of 1, 3 or 4 bytes |
| `ollama` | `PromptFits`, `HonestCause`; `WholeAnswer`; `NothingHidden` | `Generate`: 4 models, 2 changes by others, integers up to 7; streams of up to 5 lines. `Modelfile`: 62,000 models |

What each shows is in `PROJECT.json` ("about") and in the comment on each property.
Some properties join parts that can be read one by one: `Exact` is `GapFree` and `NothingLost`; `StreamSound` is the types, the byte counts,
`NoLostWakeup`, `ReplayIsDense` and `ObserversOpen`; `AnsweredOnce` has
the bounds of what the framer keeps, `TrackingDrains` and `SessionGoesOn` with it,
`WaitIsHonest` has `BudgetIsNoFailure`, `PagesAreText` has `EndIsEnd` and the chunks,
`NothingHidden` also says that an ordinary model is not refused; `LifecycleFits` has the hard limit and one
active job, `ControlStaysOpen` the counters of the slots, `Reopens` the types; `OneJobPerIntent` speaks of one store and, for the page, of all
of them; `AnswerHonest` of statuses and of what may have an effect.

Bounds and why they are enough. Three jobs are an active one, a pending one and
one more that meets a full queue or the job limit; two pending jobs let the one
that is not last be cancelled. A job takes two events to accept, two to start,
one per chunk and two to end, so 13 to 15 events let two jobs live their whole
life and a third be accepted, and let the sequence run out inside a two-event
transaction. `MaxOutput = 1` with callbacks of up to two chunks makes the limit
fall inside a callback. One backend error outside the public list is enough to
tell codes that are passed on from codes that are replaced. `MaxHistory = 3` lets
a branch of a branch exceed the history limit. For streams, three events let replay
start in the middle of a two-event frame and go live while another is pushed; the
byte bound of 3 with sizes 1 and 2 makes count and byte overflow both happen; two
streams with one event let one meet the end of the other.
Journal sizes (a header of 2, a frame header of 2 with a
prefix of 1, payloads of 1 or 2) let a write be cut inside every part that has a
checksum of its own; two processes are an owner and one that is refused or
succeeds it. `Reserve` needs no small sizes: it computes with the code's numbers,
and its bound is the number of commits after a recovered store. Two attempts at
once are an abandoned one and its successor; two stores are the known one and
another; two faults lose an answer and crash the service. Three lines are a
request, its cancellation and a request that uses the id again. A waiter and two
plain calls beside it fill three slots in every mixture, and a fourth call is
refused. Results of 3 with events of 1, 2 and one replaced by a marker make both
limits of `read_events` fall before, at and behind an event. Two loops are the one
from before the page was hidden and the one after. `MaxInt = 7` lets estimate plus
reservation exceed the largest integer. Pages of 4 and 5 bytes cut in every place
of a four-byte character. Three processes are the owner, one that waits for its
directory and one that is refused.

Keys, requests and processes are interchangeable, so the safety runs of the worker
and the storage run use symmetry; runs with liveness do not. Where a run switches
the deadlock check off, its clients may simply be through: streams that ended,
calls that returned, a service that is off, bounds that are used up.

Fairness. `Worker`: weak fairness of the mutex holder's steps (it is running code
that waits for nothing but the file system) and strong fairness of `complete`: the
Ollama adapter bounds a generation in time, so `Generate` returns, and Go's mutex
serves its waiters in order once one of them starves. Nothing is assumed of
clients, output, failures or restarts. `Watch`: weak fairness of pushing, of a
`Next` that was called, of the client calling again, and strong fairness of taking
`w.mu` to report a read error. `EventuallySeen` further assumes, in its own
statement, that the client at last stops giving up on `Next`.

The others, in their MC modules:

* `HttpServer`: weak fairness of handlers and of calls under way, strong fairness of
  taking the worker's mutex for a stream. Clients owe nothing.
* `Delivery`: the server handles what arrived, the page's user resends what is
  uncertain and a dead service is started again; faults and refusals are finite
  (`MaxFaults`, `MaxChanges`).
* `Projection`: a loop's steps, and that a hidden page is shown again.
* `Generate`: only the deadline and the end of a read whose context ended; the
  daemon owes nothing.
* `Service`: `Run` and its goroutine go on, and a backend that was told to end
  returns, which is what `Returns` shows of the adapter.

Every property has a mutant: a plausible bug in a mapped definition (written just
above it, marked "Mutant") with which TLC finds the property violated. A property
with several parts has a mutant for each.

### What the violations show

* `worker_synced`. `docs/persistence.md` says that `File.Sync` comes before
  acknowledging, publishing and dispatching. `Open` syncs only when it truncates a
  torn tail. After a process death between write and sync, the next process reads
  a whole frame that was never synced, answers from it and may dispatch its job; a
  power failure before the next append can then take it back.
* `watch_close`. The `EventStream` port says that `Next` returns `io.EOF` on
  orderly close. A `Next` that is replaying has let go of its lock; if Shutdown
  closes the store before the read, `Next` returns a storage fault. The worker
  itself is not poisoned (`PoisonIsHonest` holds).
* `journal_entry`. `docs/persistence.md` says that the journal and its parent
  directory are synced. Only the process that created them does so; if it dies in
  between, later processes find the file, confirm appends, and a power failure can
  take the entry with them. `storage` shows that with a durable entry nothing
  confirmed is lost.

### Restrictions that stand for disagreements

Four more constants of the instances above are set to the side on which the code
keeps its word. Set the other way, TLC finds the property violated within seconds:

* `PromptClose = {}` instead of `{"page"}` (agents are never in it, and the two
  properties it matters to say nothing of them there: `PagePrompt`): a resend that is refused with `queue_full`, `limit_exceeded` or `conflict` is reported as
  "not accepted" (`acceptance_uncertain` false; the page clears its record), while an
  earlier attempt of the same key that its client gave up can still be waiting in
  the server and make the job afterwards. It needs a server that has not noticed
  the closed connection.
The next three are the parts of `Agreed` in `Framer`, where the filter and the SDK read
a line alike.

* `Spellings` with `"escaped"` in `Framer`: ids are compared by their text. A request
  whose id is spelled with an escape is answered by the SDK in another spelling, so
  the response of a cancelled request is sent, and the id stays tracked.
* `Batching = FALSE` in `Framer`: a batch passes the filter in every protocol version;
  from 2025-06-18 on the SDK ends the session on it.
* `OddShapes` without its last line in `MCMcp`: a message whose `error` member is no
  object passes the filter, and the SDK ends the session on it. All other shapes are
  answered and the session goes on.

## 4. Proofs

Eight modules hold proofs. Each theorem is for every value of the constants that
the named assumptions allow: any number of jobs, keys, streams, requests, attempts,
stores or events, and any limits. The bounds of the instances play no part. Every
safety property of a passing run, invariant or action property, is proved, and so
are both refinements.

| Module | Theorem | Says |
|---|---|---|
| `WorkerProofs` | `WorkerInvariant`, `TypeCorrect` | `Inv` and `TypeOK` of the worker |
| | `TransactionsAccepted`, `OneInference`, `StopDelivered`, `NeverIdleWithWork`, `CloseIsSafe` | `CommitsAccepted`, `SingleInference`, `StopReachesBackend`, `WorkConserving`, `ClosedIsQuiet` |
| `LedgerProofs` | `LedgerInvariant`, `OneJobPerKeyTheorem` | `LedgerInv`, `OneJobPerKey` |
| | `PublishedTheorem`, `RefinementTheorem` | without power loss: `PublishedRecoverable`, `ImplementsLedger` |
| `StorageProofs` | `HandleInvariant`, `ReopensTheorem`, `WholeTheorem` | `HandleInv`, `Reopens`, `WholeFramesStay` |
| | `AckedTheorem`, `PromiseTheorem` | with durable entries: `AckedRecovered`, `ImplementsAppendLog` |
| | `LifecycleTheorem` | `LifecycleFits` |
| `WatchProofs` | `StreamInvariant`, `ExactTheorem`, `SoundTheorem`, `PoisonTheorem` | `Inv`, `Exact`, `StreamSound`, `PoisonIsHonest` |
| `ServerProofs` | `OwnerTheorem`, `OneBackendTheorem`, `AnswersTheorem` | `OnlyOwnerWrites`, `OneBackend`, `AnswersOwn` |
| | `HttpInvariant`, `AnswerTheorem`, `StreamTheorem`, `SlotsTheorem` | `Inv`, `AnswerHonest`, `StreamContiguous`, `HttpTypeOK` |
| `ClientsProofs` | `DeliveryInvariant`, `OneJobTheorem`, `SettledTheorem` | `Inv`, `OneJobPerIntent`, `SettledIsTrue` |
| | `CopyInvariant`, `PastTheorem`, `BackTheorem` | `CopyInv`, `ShowsThePast`, `NeverBack` |
| `McpProofs` | `LinesInvariant`, `AnsweredTheorem` | where filter and SDK agree: `LinesInv`, `AnsweredOnce` |
| | `BridgeInvariant`, `WaitTheorem`, `ControlTheorem` | `BridgeInv`, `WaitIsHonest`, `ControlStaysOpen` |
| | `ReadInvariant`, `SkippedTheorem` | `ReadInv`, `NothingSkipped` |
| | `PageInvariant`, `PagesTheorem` | `PageInv`, `PagesAreText` |
| `GenerateProofs` | `GenerateInvariant`, `PromptTheorem`, `CauseTheorem`, `AnswerTheorem` | `Inv`, `PromptFits`, `HonestCause`, `WholeAnswer` |
| | `HiddenTheorem` | `NothingHidden` |

### The worker's invariant

Assumptions: `RequestAssumption` (valid requests are requests, the empty one is
none), `BoundAssumption` (limits are naturals, the queue and job limits positive)
and `PieceAssumption`. TLC evaluates them on every worker run.

The properties speak of moments when no handler holds the mutex; they are not
inductive because they say nothing of a handler half way. `Inv` adds:

* `StorageInv`: the three snapshots are sound (queue matches jobs, no job record
  on which the lifecycle could get stuck), a healthy process and its journal agree
  except between write and publication, and in between the journal is ahead by
  exactly the transaction in `cmd`;
* `BackendInv`: one goroutine, the one `w.cancel` belongs to, and when a handler
  has let go of it;
* `LifeInv`: which flags go with which place of the handler;
* `CommandInv`: what the transaction under way does to the queue, and that the
  reducer accepts it;
* `ProgressInv`: only a handler on its way to `dispatch` may leave work waiting.

The argument: `CommitSound` shows that `ApplyCommit` preserves soundness for any
transaction. `DispatchLands`, `CreateLands`, `EndLands`, `DropLands`, `StopLands`,
`PauseLands` and `OutputLands` show that the transaction each handler builds from
a sound snapshot is accepted, and what it leaves. `CommitKeeps` turns that into
the preservation of `Inv` by the step that enters commit; one lemma per remaining
action does the rest, and `NextKeeps` combines them.

### Receipts, recovery and the refinement

One relation carries all of `LedgerProofs`: `OneAhead(old, rs, new, rs2)` says that
the second snapshot with its receipts is one step of `Ledger` ahead of the first (a
job added with its receipt, one job moved, or the queue paused or resumed).
`LedgerInv` says that the transaction under way is such a step and that, while the
machine keeps its power, the journal holds what is published or that and one such
step. One lemma per handler (`DispatchAhead` to `CreateAhead`) shows the first half
from what the `...Lands` lemmas say of its transaction; `StorageSteps` sorts all other
actions into four kinds (wrote, published, lost power, or nothing of either image),
from which the second half follows.

* `OneJobPerKey` needs that receipts and jobs match one to one in all three images
  (`ReceiptInv`): the worker goes on from `cache` after a crash and from either
  image after a power failure. `AheadMatches`: one step ahead keeps the match. Power
  loss is included.
* `PublishedRecoverable` follows from `AheadGrows`: one step ahead only grows.
* `ImplementsLedger`: publication is the `Ledger` step (`AheadIsStep`), and so is a
  restart that reads a frame written but not published before the crash; everything
  else is a stutter.

The last two assume `~PowerLoss`, as their run does. With power loss they are false,
and the code does not promise them: `worker_synced` shows how.

### The journal

Assumption: `JournalAssumption`, sizes are positive and the prefix of a frame header is
shorter than the header. Four invariants, each inductive with those before it:

* `HandleInv`: who is past the lock is its owner; what a process has read, and what it
  writes, is in the file at the offsets it thinks (`Handle`), and where it will write
  next is the end of the file. A half-written frame is a beginning of the newest one.
* `AckedInv`: the confirmed frames are in `file` and `stable`, with everything in front
  of them, and a process that reads the file comes across them. Hypothesis
  `EntryLoss = FALSE`: `journal_entry` shows that the code does not keep the promise
  without it.
* `TidyInv`, on an ordered device: behind the whole frames there is at most the
  beginning of one, in the file (unless it is being written) and on the device, and the
  reader is on the way along them. So `Open` meets a whole frame or an incomplete end,
  and never `Damaged`.
* `WholeInv`: what is cut is a torn frame, and the whole frames of `stable` begin those
  of `file`. So every step of a process leaves the list of whole frames as it is or
  adds one, a sync confirms all of it, and only a power failure takes any back.

`Whole` reads the file recursively from its header on. It is a recursive function, and
nothing in the library gives its value at a place: that needs that the function exists,
which `StorageProofs` proves by the least place at which it would not. The same is done
for the sums of `Reserve` (`Total`) and for `FlattenSeq` in `McpProofs`.

### The byte accounts

Assumption: `ReserveAssumption`, a store found at start can end its jobs. `AccountsInv`
says that what is written and `TerminalReserve` together stay within the hard limit,
that no record is longer than `CheckJobFits` admits and what its changes of state have
added, that at most one job is active, and that nothing was denied. The argument is one
inequality for each kind of step: a transaction that moves a job on writes no more bytes
than that move takes off the reserve (a record and 4096 bytes for what surrounds it,
which never exceeds 3347; the metadata of an end have a reserve of their own), so it
fits and leaves the inequality true; a submission, output or pause is checked against
the reserve that it leaves behind.

### Streams

Assumption: `StreamAssumption`, the bounds are positive and no event is larger than a
backlog's byte bound. `Inv` has the properties and four facts more: a stream not made
yet is as `Init` left it (`Unused`), a replay does not go beyond what was published and
reads only before its end (`Replaying`), a read fails on a damaged or closed
journal, which only Shutdown closes (`FailsForCause`), and the journal's frames tile the
sequence numbers (`Tiles`). Two inductions are hidden in
the data and were taken out of it: the byte count of a backlog is stated by a function
that lists what is left at each place (`AddsUp`), which a push extends and a pop
shifts; and with `Tiles` the search of `ReadEvents` (a minimum, `Least`) finds the
frame that holds the next event.

### HTTP

Assumption: `HttpAssumption`. A call goes on after its handler, so that a refused
command has no effect later is no fact about the handler alone. `CallInv` says who may
have a call (one that passed every check), that the mutex holder is the one whose call
is held, and what a result says of the effect; `StatusInv` what a status says of the
call: a definite one means never called, or refused. `SlotInv` has the counter equal
to the number of handlers with a release deferred; `StreamInv` the last event received
equal to the stream's cursor.

### Clients: delivery and the page's copy

Assumption: `DeliveryAssumption`. One job in a store rests on `ReceiptInv`: the
receipts of a worker that goes on are those of its disk. The statements about the page
hold under `PagePrompt`, part of the properties themselves (section 3 shows what
happens otherwise), and rest on `PageInv`: of the attempts on the way only the one the
page waits for can still make a job, it was sent to the store the command was made
for, and what is answered with a rejection has no job anywhere.

For `Projection` (`PageAssumption`), `CopyInv` says of every frame on the way what it
holds of the store it came from (`FrameOf`), that frames come in order and a snapshot
only first and only to a loop that asked for one (`LoopOf`), that the copy is the state
at its cursor (`Copied`) and that only the current loop can move it (`Ahead`). `StateAt` counts events by
cardinalities, so a frame applied is one element more in one of the sets.

### The MCP bridge

Assumptions: `LinesAssumption`, `BridgeAssumption`, `ReaderAssumption`,
`PagingAssumption`, and for lines `Agreed` (section 3).

* Lines (`LinesInv`): a client uses an id again only after it has read the response
  (`Clients`), so requests under way have different ids, and the tracked ids are
  exactly theirs (`TrackInv`). A cancellation then hits its own request, a response
  finds its own id, and none is left when its request is over. `CallsInv` and `OutInv`
  say which request has been answered, and how often.
* Calls (`BridgeInv`): what a reply on the way or an observation says of the job was so
  when the call was under way (`CallOf`), a service call's timer is the earlier of its
  two limits, and the counters of slots are the numbers of holders (`Channels`).
* Events (`ReadInv`): what the agent has is what it asked for up to its cursor, and the
  call under way continues that up to the place it has read to.
* Output (`PageInv`): the text, what is still to be committed and the pages are made of
  complete characters (`Texts`: around each byte there are all bytes of its character),
  and a cut leaves both parts so when it falls where a character ends. `Back` finds the
  last such place, and that it lies behind the start follows from the widest character
  fitting into a chunk and a page.

### The inference

Assumptions: `ModelAssumption`, `NoneAssumption`. `ModelInv` says, phase by phase, what
the call knows of the model and that it is true unless others changed it meanwhile;
`StreamInv` that the lines read so far are good, that the terminal record can only be
the last and that exactly their text was emitted in order; `HonestCause` and
`WholeAnswer` are inductive with these.

### The Modelfile

Assumption: `ModelfileAssumption`, the fields of a model are texts, finite sequences of
tokens of any length, and its path has no line break. `HiddenInv` says of a model with
a renderer, and of an ordinary one (no renderer, no messages, no quotes in its values,
paths written as they are), that the loop is in front of the text or at the line of a
directive (`AtDirective`), and what it has seen by then (`SeenBefore`); a model with a
renderer is read at most up to that directive, which no command admits. One step of
the loop leads from directive to directive because a value is read as what was written
or differs from it: `ValueRead` has one case for each shape `serializedValue` gives a
value. A value with quotes may end early or late, and then the comparison with the
template and the system text that the daemon reports refuses it; this is why the
fields behind the renderer need not be considered.

`Written` is a recursive function over the directives, and places in a text are minima
(`IndexAny`, `Delimited`): both are dealt with by the least place at which something
would fail (`FromTheEnd`, `LeastOf`), as above, so no induction theorem is needed.

### The service

Assumption: `NoneAssumption`, no process is the value for "nobody". `IInv` adds `Owns`
(from the moment a process has the directory until its worker is closed it is the
owner, and the address is its own until the server is closed) and `Order` (a process
that has not come to `Shutdown` is not stopping, one without a worker has no calls and
no backend, a closed worker is a stopping one without a backend, `Run` returns only
after that). A late command or a late backend then finds either its own store or a
worker that is stopping or closed and refuses it.

### What the proofs found

`Delivery!answerOf` and `HttpServer!rejection` were CASE expressions whose guards
overlap. TLC takes the first arm that holds; TLA+ leaves the choice open, and the
prover refused to know which. The code has an order, so both are IF chains now.

A previous `AppendLog` said that a power failure only ever takes frames off the end.
The step `PowerFails` could not be proved on a device that reorders writes, and the case
left open is a behaviour of the model (section 2). What comes back was once written
whole, but for another predecessor; whether it applies is then for the reducer to say.

### Only model-checked

Liveness (`CancelCompletes`, `ShutdownCloses`, `EventuallySeen`, `StopEnds`,
`SlotsComeBack`, `Returns`, `Resolved`, `CatchesUp`): it rests on fairness and on which
steps are enabled, which is beyond the prover.

Proved and not repeated in a run: the inductive invariants, `TypeOK` and
`ClosedIsQuiet` of `Worker`, `AnswersOwn` of `Service`, `HttpTypeOK`.

## 5. What is left out

* `Worker` has no byte sizes: the journal's refusal for size is an action that may
  happen at any commit (`OverLimit`), so its properties hold with and without the
  reserve; `Reserve` shows that lifecycle transactions are never refused that way.
* `Journal`'s payloads are opaque: JSON encoding, schema checks and the reducer on
  recovery are in `Reducer`; what is left is that a frame continues the sequence. A
  torn file header is refused for ever, as `docs/persistence.md` says it must be.
* Data the kernel drops after a failed `fsync` while the process lives on: the
  worker is poisoned by then, and `PowerFails` may remove the frame.
* A failing `store.Close` during shutdown, which only changes what `Shutdown`
  returns; collisions of the 128-bit random identities; timestamps, result
  metadata and the wording of errors.
* JSON decoding byte by byte (`httpapi/codec.go`, `validObject` of the adapter, the
  bridge's arguments): a body is good or refused. The views of `list_jobs` and
  `get_job`, tool schemas and `view.go`'s texts: formatting.
* `Models` of the adapter, a read-only listing, and paths with line breaks, tabs,
  carriage returns and NUL in `Modelfile`.
* The DOM code of the page, and its cancel and pause buttons, each one request.
* `mirror.py` of the Python client, which applies events as `Projection` does with a
  reconnect loop of its own.
* The command line: argument parsing and printing; its creates behave as the agent
  of `Delivery`.
* The Windows directory lock, which is a share mode of the operating system.
* The test service and the packaging scripts.

## 6. Plan

Every component with state of its own that runs in the service or its clients is
modelled, but for `mirror.py`. What could be added, in this order:

1. `mirror.py` as a second client of `Projection`'s kind;
2. the JSON bodies of the HTTP API, whose decoding is a choice between good and refused
   in `HttpServer`.
