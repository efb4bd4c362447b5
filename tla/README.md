# A TLA+ model of DojoAgents

DojoAgents is a Python runtime for financial agents: an agent loop that calls
models and tools, durable sessions, a dashboard server, a gateway to chat
platforms, agent teams, plans, scheduled tasks and market-data services. This
directory holds TLA+ modules that model its concurrent and persistent parts,
TLC configurations that check them on small instances, and proofs that TLAPS
checks for every value of the constants.

The centre is the durable session: the store that keeps runs, events, turns and
messages under leases, the workers that run requests against it, and the
clients that follow a run while it is written. Around it are six smaller
components that do not touch that store's leases: object writes, memory sync,
the dashboard's background runs, the gateway with its process registry, agent
teams, and portfolio orders.

## The system

| Part (src/dojoagents/) | State | Operations | What makes it hard | What makes it correct |
|---|---|---|---|---|
| Session store (`sessions/stores/file.py`, `sessions/atomic.py`) | `state.json`: leases, runs, events, turns, message index, tool calls; message files beside it | grant, renew, release a lease; begin, commit, fail, cancel a run; append events and messages; start and finish a tool call | callers of several processes with old leases; retries; a crash between the message files and `state.json` | fencing; one lease at a time; a run ends once, with its turn and terminal event; history is what completed runs wrote; a mutation is executed once |
| Run coordinator (`sessions/run_coordinator.py`) | lease copy, next sequence number, event buffer | begin, emit, flush, heartbeat, commit, fail, cancel, suspend | three tasks share it; any store call may fail, be refused or be interrupted after it took effect | no event lost, doubled or written after the last; the copy of the lease is never too optimistic |
| Canonical agent run (`agent/session_run.py`) | event stream (32), writer and heartbeat tasks | begin, emit, prepare and write the ending | closing waits for the writer; the heartbeat cancels the scope that waits | closing ends; a commit holds every event |
| Agent loop (`agent/loop.py`) | the request in progress | run: model calls, tools, ending | cancellation at every await, shielded or not | every run that began is ended, suspended or left to its lease |
| Session service, transcript (`sessions/service.py`, `agent/history_context.py`, `sessions/compat`) | none of its own | scoped store calls; objects; history for the model | object writes over two stores; recovery of an interrupted run | an object that is linked has its blob; recovery repeats nothing |
| Blob store (`sessions/blobs/file.py`) | blobs, pending and tombstone records | put, stat, delete, collect | collectors run between the steps of a write | a committed blob has all its data; a tombstone stands |
| Memory sync (`sessions/memory_sync.py`, `memory/`) | watermark in a checkpoint | sync turns after the watermark | at-least-once delivery, two workers | no turn below the watermark is missing from memory |
| Dashboard runs (`dashboard/agent_runs.py`, `utils/blocking_portal.py`) | table of runs, events, status; a thread with its own loop | create, cancel, list, prune, shut down | shutdown and creation race; cancel gives up waiting | a run that settled has ended; shutdown reaches every run; cancelling ends the client's stream |
| Event streaming (`dashboard/sse.py`, `gateway/stream_consumer.py`) | a reader's position | poll events and status | status read after events | the reader gets every event up to the terminal one |
| Gateway (`gateway/`) | a lock and a queue per chat session, adapters, pairings, pid file | handle or queue a message; drain, reset | messages arriving between unlock and drain; errors before the drain | queued messages start in order, and stay behind only after a failure |
| Process registry (`tools/process_registry.py`) | processes, output, completion stream (32) | spawn, poll, kill, reap | reapers wait on a full stream | every exit that was asked for is reported once |
| Portfolio orders (`dashboard/services/portfolio_*.py`) | orders, positions, cash per portfolio | add, cancel, resolve against quotes | orders are read, quotes awaited, orders written back by several requests | what is left of a damaged book adds up: cash and positions follow from its filled orders |
| Agent teams (`multi_agent/`) | instances, mailboxes, waits | spawn, send, wait, complete, close | check-then-create across an await; mutual waits | nobody waits in a circle; an end is reported with its result |
| Planning (`planning/`) | plan files with step status | run ready steps, save | a crash in the middle of a step | a finished step is not repeated |
| Tools and MCP (`tools/`) | server connections, sandboxes | call, reconnect, stop | reconnect and stop race | mostly I/O |
| Tasks, cron, plugins, skills, harnesses, config, CLI, providers, context budgeting, market-data services, web frontend | files and caches | sequential | little | data transformations, not modelled |

How they interact. A front end (dashboard, gateway, CLI, cron) hands a request
to the agent loop. `AgentLoop._run_scoped` begins a `CanonicalAgentRun`, which
takes the session's lease through the `RunCoordinator` and starts two tasks:
the event writer, which drains the stream the loop emits into and flushes
batches to the store, and the heartbeat, which renews the lease and looks for a
cancellation request that some other process wrote into the run. The loop's
core appends messages and records tool calls under the lease while it works.
At the end the heartbeat and the writer are closed and one store transaction
writes the outcome. Readers (SSE, history, memory sync) see nothing but the
store. What processes share of a session is in the store, so its promises are
what all the other parts rest on; that is why it comes first.

After a commit the loop starts a memory sync, which reads turns and writes a
checkpoint. A dashboard request is a background run on a thread of its own; its
client follows either the events in memory or, once the store knows the run,
the persisted ones. The gateway calls the loop under a lock per chat session
and turns the completions of background processes into messages. Within a run
a team's members talk through an inbox that the run's host keeps.

## The modules

| Module | What it is |
|---|---|
| `FencedLog` | abstract specification: a log per run, written under one token at a time and closed together with its run |
| `SessionStore` | the store of one session, with callers as arbitrary as its API allows |
| `RunCoordinator` | extends `SessionStore` with the agent's own workers: request, writer and heartbeat tasks |
| `PersistedStream` | extends `RunCoordinator` with clients that follow a run's stored events |
| `SessionObjects` | the write of a file or artifact over object records, blob records and files, with collectors |
| `MemorySync` | the sync of turns to memory providers behind a versioned watermark |
| `AgentRuns` | the dashboard's run manager on its two threads, and the local event stream |
| `ProcessRegistry` | background processes, their reapers and the bounded completion stream |
| `GatewayRunner` | extends `ProcessRegistry` with the lock, queue and drain of one chat session |
| `AgentTeam` | spawns, waits, inbox and close of one team |
| `PortfolioOrders` | the order book of one market, with the requests that read and rewrite it |
| `MCSessionStore`, `MCRunCoordinator`, `MCPersistedStream` | symmetry sets for TLC |
| `MCServices` | the six service components side by side, one of them in each behaviour |
| `SessionStoreSafety` | type correctness and safety properties of `SessionStore`, proved |
| `StoreRefinement` | `SessionStore` implements `FencedLog`, proved |
| `RunCoordinatorProofs` | type correctness of workers; workers implement `SessionStore`, proved |
| `RunCoordinatorSafety` | safety properties of workers: leases, endings, turn numbers, proved |
| `EventLogProofs` | what workers write, that a commit is complete, what clients receive; renewing in time is enough, proved |
| `SessionObjectsProofs` | `SessionObjects`, proved |
| `PortfolioOrdersProofs` | `PortfolioOrders`, proved, with induction over the replays of a book |
| `ServicesProofs` | `MemorySync`, `AgentRuns`, `ProcessRegistry`, `GatewayRunner`, `AgentTeam` and the composition `MCServices`, proved |

### SessionStore

A store call is a transaction under a file lock: read `state.json`, run the
body, replace `state.json` (`_transaction_sync`). If the body raises, the file
stays as it was. A call is therefore one action and its guards are the checks
of the body; a refused call is no step. Message bodies are the exception, files
of their own that are written inside the body and so before `state.json`: the
actions `TornCommit` and `TornFinish` are a crash, or an error raised late in
the body, after some of them were rewritten.

| Variable | In the code |
|---|---|
| `lease` | `state["leases"][session]`; `left` is `expires_at - now`, `term` the length of the last extension |
| `leaseCounter` | `state["lease_counters"][session]`, the fencing tokens |
| `granted` | which holder each token went to: what callers keep in `SessionLease` |
| `runs`, `events`, `turns` | the rows of the same names |
| `index`, `bodies` | `message_index` and the `message_<n>.json` files |
| `tools` | `run_tools` |
| `dispatched` | history: under which tokens a call was answered "running", that is, executed |

Actions are named after the store methods: `BeginRunWithLease`, `BeginRun`,
`AcquireLease`, `RenewLease`, `ReleaseLease`, `AppendEvents`,
`AppendRunMessages`, `CommitTurn`, `FinishRun` (`fail_run` and `cancel_run`),
`RequestCancel`, `StartRunTool`, `FinishRunTool`. Three details of the code are
easy to take for granted and are kept: `append_events` checks the token but not
the expiry and revives an expired lease; `renew_lease` checks neither expiry
nor run; `_finish_run` leaves its terminal event out when its number is taken.

Callers are any holder with any token that was ever granted, so a worker that
was superseded long ago may come back at any point with any call. There is no
notion of a well-behaved caller in this module.

Abstractions: one session (all tables are keyed by session and no transaction
touches two); time left instead of instants; a lease id is drawn afresh with
each token and is represented by it; payloads are model values.

### RunCoordinator

One worker per request. `worker[w].pc` follows `AgentLoop._run_scoped`:

    idle -> ready -> begun -> starting -> working -> closing -> ending -> over
            (turn    (lease)   (event     (try       (_prepare_ (store call
             number)           numbers)   block)      terminal)  that ends it)

with `writer` and `beats` telling whether the two tasks run, `queue` the events
in the stream, `buffer` the coordinator's batch, `view` the time the worker
thinks its lease has left. An action is what one task does between two awaits;
a store call is the store's action with the worker's arguments, so a worker can
do nothing to the store that `SessionStore` does not have, which
`ImplementsStore` checks.

Failure and cancellation: `CancelTask`, `SeeCancel`, `RenewLost` and `TaskFails`
cancel the request from outside, through `StopOwner`, which says at each `pc`
what the code's shields and `except` clauses do with it. `FlushUnseen` and
`CommitUnseen` are a store call whose thread completes while the task waiting for it
is cancelled: it took effect and the worker does not know. `Crash` is the end
of a process. The next worker on the same run id is its recovery.

The worker's own messages, usage rows and tool calls are left to `SessionStore`;
in `RunCoordinator` they only appear as calls that a lost lease refuses
(`CoreLosesLease`). Two sequence numbers are kept free by `Emit`'s bound for
the terminal events, so that `MaxSeq` cuts off emitting and never an ending.

### PersistedStream

`stream_persisted_run_events` with the server's producer. A client has a
position (`after`), the page it is being sent and what it has received (`got`).
`ReadPage`, `ReadStatus` and `ReadTrailing` are reads of the store, one
transaction each; between two of them any worker may do anything, a takeover
included. `Reconnect` is a broken connection: what was not sent is gone and the
client asks for what follows the last event it has. Clients are not trusted
with the store: they change nothing there.

### SessionObjects

`SessionObjectWriter.write` reserves an object, uploads a blob, commits the
object with a pending reference, commits the blob and commits the object again.
A blob is three pieces of state that no transaction joins: the metadata record,
the data file and the upload's temporary file. One name stands for an object
and its blob. `Fail` is an exception or a crash after any step. The collectors
and the deletions put their tombstone under the blob's lock and unlink the files
later (`sweeps`). `Grace` says that a collector is run with a cutoff older than
any upload in progress, which is what its parameter is for; nothing in the code
enforces it. With `Grace = FALSE` the tombstone of an upload in progress is
overwritten by its last step and `TombstonesStand` is violated.

### MemorySync

One syncer per call of `sync_pending`. It reads the checkpoint, lists the first
page of turns, and for each turn past its watermark calls the providers in order and then puts the
checkpoint with the version it knows. Each process remembers the turns it has
given (`synced`), which a restart forgets. `SyncFails` is any exception, a
version conflict among them: a turn may then be given again later. Two limits
of the code are kept and are no property: the list is one page (10,000 turns)
from the beginning, so turns beyond it are never given to memory; and a sync
that loses the checkpoint's version check leaves the later turns to the sync of the
next commit.

### AgentRuns

The manager's records are shared by two threads without a lock. `task` is
`_execute` on the portal's thread; `creator`, `canceller`, `manager` and
`viewer` are handlers on the server's. A field that the other thread uses is
read or written in an action of its own: `CancelWakes` reads the status,
`CancelMarks` writes it. The future's cancellation is anyio's and is modelled
from how it is used: it marks the future, and the task sees that at an await if
it comes to one. The portal's loop is taken to be running, and a handler to be
scheduled in less than the hour after which runs are pruned.

### ProcessRegistry and GatewayRunner

`Reap` drains a process's output and announces it, or waits in line (`senders`)
for room in the stream; `PruneExited` takes processes out of the table ahead of
their reapers. `GatewayRunner` reads that stream in `WatcherTakes`. A message is
`running` under the session's lock, `replying` after it until the queue was
looked at, and the task that drains runs the next message itself. `Acquire` and
`Release` are the lock of anyio, which hands itself to the first in line.
`Webhook` looks at the lock and queues or runs without an await between.
Behaviours of the code that the model shows and no property forbids: a webhook
that comes between release and drain overtakes the queue; `/queue` on an idle
session leaves its message there until the next one; a drain without adapter
loses the first of the queue and leaves the rest; a completion that arrives
without adapter is lost.

### AgentTeam

Tool calls of one reply run concurrently, so a call is a record in a slot
(`call`) that goes from await to await. `AgentSpawn` counts the instances,
`SpawnCreate` creates one; with `MaxChildren` 1 two children can come to exist,
since the count and the creation are separated by an await. `WaitList` lists
the members that ended, `WaitReceive` reads messages with the cursor it took
before, and only then does the wait report (`WaitLeave`). `CutOff` is the
executor's timeout or a cancellation at any await: a spawn cut between creation
and launch leaves an instance that never runs, and a message received by a wait
that is then cut off is not seen again. The ids of tool calls, from which
those of children are made, are taken to be unique. The code finds a circle of waits by a search
along `_waiting` (`_reaches`); `Reaches` says what that search finds out: a
member is reached if no group that is closed under waiting has the start
without it.

### PortfolioOrders

Requests read the file, work on their copy and write it back whole, so a
request's `orders` may be old by the time it is saved. `Process` is
`_ensure_orders_processed`: sanitize, then fill or reject each pending order
against a replay of the orders before it, with `quoted` the ones whose bars were
there. A book is a set: a list of orders is in the order in which they were made,
and each has its number from that. A replay goes by day and then by number, so
every order has a moment, and `Balance` and `Checked` are functions on moments
that take the order due at each, if there is one. `Answer` and `DiscardOrder` are what `create_order` does with the result.
What the code loses this way is kept and no property forbids it: one request's
order may vanish in another's save, a cancelled order may come out filled, and a
back-dated order may take the cash of one already answered, which the next
sanitize then removes. What it promises, and what is checked, is that whatever
comes out of such races is repaired into a book that adds up.


## What is checked

| Run | Instance | Question |
|---|---|---|
| `store_fencing` | 2 runs, 2 keys, 2 holders, 3 tokens, 2 event numbers, 2 turns | whatever superseded and retrying callers do: fenced writes, exclusive lease, status graph, one turn and done event per completed run, names that find one thing each (`NamesAreUnique`), refinement of `FencedLog` |
| `store_messages` | 2 runs, 2 holders, 2 tokens, 2 message ids, 3 places | the history is what completed runs wrote; messages are stored once, never overwritten or changed |
| `store_recovery` | 1 run, 2 holders, 3 tokens, initial message, a mutation and another call, torn transactions | a takeover does not run a mutation again; nothing is left pending although transactions tear |
| `coordinator` | 2 workers, 1 run, stream and batch of 2, faults | log complete, ended once, local lease safe, no worker thinks it ended a run it did not |
| `coordinator_timely` | 2 workers, 2 runs, 3 tokens, leases renewed in time | renewing in time is enough; turn numbers have no gap; workers implement `SessionStore` |
| `coordinator_live` | 2 workers, 1 run, faults, fairness | closing comes to an end; a cancellation request is heeded |
| `persisted_stream` | 2 workers, 1 run, 1 client, 3 event numbers, pages of 2, faults | a client has a prefix of the log at any time, and all of it when its stream ends |
| `services` | see below | the six service components: objects and blobs, memory, dashboard runs, gateway and processes, teams, orders |
| `store_torn_history`, `store_expired_write`, `coordinator_abandoned`, `local_stream` | | violations, see Findings |

Bounds. Three tokens let a worker lose a lease, another take over and a third
come after it, so that an old token can be compared with a successor that is
itself old. Two holders are enough to be superseded by somebody else; that two
tokens may belong to one holder is included. Two runs are needed for what one
run may do to another's keys, turns and messages, and one worker more than the
run under consideration for every takeover. Lease time is counted in units: one
unit means "live", zero "expired", and two in the coordinator make the half-way
renewal distinct from both. `MinExtension` 2 with `LeaseSeconds` 1 makes an
extension longer than the original lease, as the floor of 60 s does. Batches
and streams of 2 allow a partially drained stream; the liveness run uses 1,
which gives the writer more to wait for. `store_messages` has no crash inside
transactions because `HistoryIsCompletedRuns` does not hold with them (see the
second finding). `AppendedOnce` is checked without initial messages: the code
appends those again on every `begin_run_with_lease`. In `persisted_stream` a
page of 2 is shorter than a log of 3, so a stream takes several pages and a
page may be full or partial; the one client may reconnect any number of times,
and clients do not affect one another.

`services`. The six components share no variable, so each behaviour of
`MCServices` runs one of them (`part`) and the states add up instead of
multiplying; in the initial states renamed copies are left out (`OneStart`).
Two objects share nothing either and are there for a collector that has several.
Three syncers in two processes with two providers are enough for one sync to
overtake another between any two of its steps, in the same process or in
another; three turns and a page of two put a turn beyond the page. One
dashboard run with one viewer and two events: runs do not interact but for
shutdown, which the proofs treat for any number of runs. Two messages and two
processes, a stream of one: a reaper waits, two tasks drain at once. Two children with
`MaxChildren`, `MaxParallel`, `ReceivePage` 1 bring every limit into play, and
two tool calls run at once. Orders: two requests and two orders of 2 shares at
price 1 with a capital of 2 on two days, so that only one buy can be paid and a
back-dated one can take the cash of another.

Symmetry is used in safety runs only, over holders or workers (with the holder
of the same name) and, in the coordinator, over runs.

`CHECK_DEADLOCK FALSE` everywhere: tokens, turns, places, messages and orders
are bounded, and when they are used up, or every worker is over, the model
stops.

Fairness (`coordinator_live`). The event loop runs a ready task and a store
call returns, so the writer, the renewing heartbeat, the closing and the ending
steps are weakly fair, and so are the look for a cancellation, which every
heartbeat takes, and the read of stored events at the beginning. The model's
answer, the client, the clock, crashes and faults are not fair: the core may
hang for ever, which is the case `CancelEndsWork` is about. It promises the end
of a worker whose run is `cancellation_requested`, unless another worker ends
that run first.

Fairness (`services`). Of dashboard runs (`RunsFairness`): `cancel_run` wakes up
after its bounded wait and marks the run, and a viewer goes on reading; the
agent and its task are not fair, as a wedged run is what
`CancelEndsTheStream` is about. Of the gateway (`GatewayFairness`): the event
loop runs each task and an agent's call returns or raises, because its tools
time out and its steps are limited. Nothing else is fair: no message has to
arrive, no process to exit and no adapter to come back.

Every property has a mutant: a definition of the model changed the way a bug in
the code would change it (`..._AnyToken`, `..._Unchecked`, ...), with which TLC
finds the property violated in the same run.


## What is proved

For every value of the constants that satisfies the named assumptions
(`NatBounds`: bounds are naturals, a lease is longer than nothing; `Subsets`,
`Distinct`, `EventBodies`: names do not clash; for workers also `WorkerNames`,
`WorkerBounds` and `WorkerSwitches`: a worker's name is a holder's, batches are
not empty; for streams `PageBound`, for memory `SyncBounds`, for dashboard runs
`EventBound`, for processes `StreamBound`, for chats `ChatsAreNotJobs`, for teams
`TeamAssumption`, for orders `OrdersAssumption`: lots and prices are positive).
The last column names what a theorem assumes beyond them.

| Theorem | Property | Only if |
|---|---|---|
| `TypeCorrect` | `TypeOK` | |
| `Fencing` | `FencedWrites` | |
| `Exclusion` | `LeaseIsExclusive` | |
| `StatusMoves` | `StatusGraph` | |
| `StoreNamesAreUnique` | `NamesAreUnique` | |
| `OneTurnPerRun` | `CompletedRunHasOneTurn` | |
| `NothingLeftPending` | `NoPendingAfterEnd`, torn transactions included | |
| `MessagesStayStored` | `MessagesAreKept`, torn transactions included | |
| `HistoryIsWhatCompleted` | `HistoryIsCompletedRuns` | `~CanTear` |
| `EachIsAppendedOnce` | `AppendedOnce` | `InitialIds = {}` |
| `MutationsRunOnce` | `MutationDispatchedOnce` | |
| `Refinement` | `ImplementsFencedLog` | |
| `WorkersTyped` | `WorkerTypeOK` | |
| `WorkersUseTheStore` | `ImplementsStore` | |
| `ViewsAreSafe` | `LocalViewIsSafe` | |
| `EndedWorkers` | `EndedWorkerEndedRun` | |
| `TurnNumbers` | `TurnsAreNumbered` | |
| `RunsEndWithTheirLastEvent` | `EndedRunHasLastEvent` | |
| `LogsHaveNoHoles` | `NoHoles` | |
| `CommitsAreComplete` | `CommittedEverything` | |
| `ClientsReceiveAPrefix` | `ReceivedLogIsAPrefix` | |
| `StreamsEndComplete` | `ClosedStreamIsComplete` | |
| `ClientsOnlyRead` | workers with clients implement `CoordinatorSpec` | |
| `WholeIsAFencedLog` | `ImplementsFencedLog`, of workers with clients | |
| `CommittedReachesClients` | `ClientsHaveWhatWasCommitted`, from the worker's stream to the client | |
| `RenewingIsEnough` | `RenewedWorkerIsNotFenced` | `Timely` |
| `ObjectsDoNotDangle` | `NothingDangles` | `Grace` |
| `TombstonesLast` | `TombstonesStand` | `Grace` |
| `MemoryHasAPrefix` | `MemoryIsAPrefix` | |
| `WatermarkOnlyGrows` | `WatermarkGrows` | |
| `SettledRunsEnded` | `SettledRunHasEnded` | |
| `ShutdownIsThorough` | `ShutdownReachesEveryRun` | |
| `ExitsAreAnnounced` | `ReapedMeansAnnounced` | |
| `QueueIsInOrder` | `QueuedStartInOrder` | |
| `OnlyFailuresStrand` | `StrandedOnlyByFailure` | |
| `EndsComeWithResults` | `FinishedMeansReported` | |
| `WaitsAreAcyclic` | `DeclaredWaitsAreAcyclic` | |
| `SanitizedIsReplayed` | `SanitizedBookIsReplayed` | |
| `EachKeepsItsSpec` | the composition implements each component's specification | |
| `ServicesTyped` | `ServicesTypeOK` | |

The theorems about one of the six components around the store are about that
component's specification alone (`ObjectsSpec`, `MemorySpec`, `RunsSpec`,
`GatewaySpec`, `TeamSpec`, `OrdersSpec`). `EachKeepsItsSpec` carries them over to `ServicesSpec`, which the
`services` run checks: a step of it is a step of one component and a stutter of
the others.

The store. `Inv == TypeOK /\ LeaseIsNewest` is inductive: the lease there
is, live or expired, bears the last token granted, or there is none. Every
write checks that its token is that of the lease, so a write bears
`leaseCounter`; that is `Fencing`, and the action properties follow from `Inv`
one step at a time. `LogInv` joins `UniqueSequences` and `CompletedRunHasOneTurn`
with the fact that a run that does not exist has no events, which is what a key
that is used for the first time relies on. `DispatchInv` adds to
`MutationDispatchedOnce` that a mutation found running was handed out under the
token in its record and no other, which is what makes the test of that token in
`start_run_tool` sufficient. `KeyNamesOneRun` (a part of `NamesAreUnique`) and
`NoPendingAfterEnd` are inductive given `TypeOK`: no call writes a message for
an ended run, and the call that ends a run settles all of its messages,
whatever a torn one settled before. Frame lemmas (`LeaseFrame`, `MessageFrame`,
...) say what each group of actions leaves alone, so that a proof treats only
the actions that disturb its property. `MessagesMove` lists everything a step
may do to messages and to the status of their run together: nothing, new ones
for an active run, all of a run's settled as the run ends, or, in a torn
transaction, some of them. From that list `MessagesFit` is inductive without
tearing: a message's state says what became of its run.

Workers. `CoordinatorInv` adds `WorkersOK` to the store's `Inv`: a worker that
is at work holds a token that was granted, one that is not at work has neither
tasks nor buffer, and `Room` is left among the event numbers for the terminal
events of a worker that still has to end its run. The arguments of every store
call a worker makes are then among those `SessionStore`'s callers may pass,
which is `WorkersUseTheStore`: what is proved of the store holds of workers.
`LeaseViews` makes `LocalViewIsSafe` inductive. It says in addition that the
lease under a working worker's token is held by that worker (`HoldsOwn`), so
two workers at work never share a lease and only the holder's own steps end a
lease that has not expired. Almost every step leaves a worker's lease copy, run
and turn number alone (`Remembers`, `KeepsTurn`), and each property treats only
those that do not. `NumbersInv` bounds a worker's turn number by the number of
turns plus one: a number read long ago is either the next one or taken, and
`commit_turn` refuses a taken one.

Logs. Neither `EndedRunHasLastEvent` nor `NoHoles` is inductive: both depend on
what the workers have in hand. `WorkersSee` relates the two. A worker whose
token is that of the lease works on an active run and stands in its log
(`Stands`): its next number is beyond all that is stored or buffered, its buffer
follows the log or, after a flush whose answer it did not get, is in it already,
and every number below the next one is stored or buffered, except one that a refused
`done` event used up. It need not hold of anybody else, since only the holder
of the lease writes, and there is one (`HoldsOwn` of `LeaseViews`). A worker
that takes over gets there by reading the log's end, before it writes.

Counting. `CommittedEverything` compares what a worker emitted with what the
store has under its token, so it needs tokens that are one worker's only
(`TokensAreOwn`), and an account of where events are before they are stored.
`Tally` keeps that account for a worker that may still commit and whose token is the
lease's: what is stored under its token, what is in its buffer and what is in
its stream add up to what it emitted; the numbers in the buffer are not
among the stored ones, since a flush whose answer was lost ends in a worker that
does not commit; its writer runs until the stream is drained, and a worker whose
heartbeat stopped it (`shield`) does not commit. Stored `done` events then come
with a full count, and nothing is written after one. Only `Begin`, `Emit`,
`Take`, `Flush`, the commit and the unseen endings change what is counted or where it is
(`Counts`); every other step is `Tame`, whoever takes it, and the lemma
`TameTallies` treats all of those at once.

Streams. `GrowsBehind` is all that readers need of writers: a log grows only
while its run is active, and only behind what it holds. With it `Follows` is
inductive: a client's cursor parts the log into what it has received or has in
its page and what it has still to read, and once it has seen the run ended the
log is final. That `ReadPage` returns the first events after the cursor
(`PageIsFirst`) and that a page has a last one rest on finite logs with distinct
numbers, which `UniqueSequences` gives. Clients change nothing for workers
(`ClientsOnlyRead`), so the specifications form a chain, and three of the theorems
join into statements about all of it: clients over workers over the store
implement the abstract log (`WholeIsAFencedLog`), and what a worker emitted and
committed has reached every client whose stream closed
(`CommittedReachesClients`).

Renewing in time. With `Timely` no worker at work lets its lease run out
(`Renewed`), so by `LocalViewIsSafe` the lease under its token is live unless its
own commit gave it back, and every store call that could tell it otherwise
finds the lease valid. `NoneIsFenced` covers the workers that have been told
but have not left yet (`Told`): a stopped writer comes before the exception.

Objects. `Stage` says, for each step of a write, what state the blob's record,
the data file and the upload file are in, and that an unlink is only pending
for a blob with a tombstone. `Record` counts the versions of an object, so that
a version check tells which steps came before. Without `Grace` the second group of `Stage` is
false, as a collector may delete a blob that is being uploaded.

Memory. `Knows` is what makes the versioned checkpoint work: a sync whose
version is the checkpoint's is at the turn after the watermark, and one whose
version is not cannot write. All turns before the one it has come to are with every
provider, and whatever a process remembers as given is as well.

Dashboard runs. `Agrees` ties a record's status, its log and its `settled` flag
to the place of its task, through all endings of `_execute`. `RunIsReached`
says of a live run that shutdown has cancelled it, will come to it in its loop,
or has not begun; a run that is registered but not started relies on `Schedule`
looking at `_closed` without an await before the start.

Processes. `RegistryInv` says where a process that asked to be announced is: not
reaped yet, in the stream, waiting to send (then its reaper is not done), or
received, and in one of these places once. `Receive` lets in the first sender,
so a place in the stream is never lost.

Gateway. `OrderInv` describes the queue and the waiters of the lock as two lines
(`Line`), each sorted by the rank a message got when it was queued, and relates
them (`InFront`): whoever has left the queue ranks before all that are in it,
whoever has started before all that wait. Messages that were never queued have
rank 0 and may overtake. `OrderMoves` uses `RegistryInv` too: a completion comes
to the session once, so a message does not enter the queue twice. `LockInv` (the
message that holds the lock is the one that runs) is what `OnlyFailuresStrand` needs
in addition: a session is busy while the lock is held, so a message queued behind a
held lock finds someone who will drain.

Teams. `Told` says that a member reports before it ends, and `Heard` what a tool
call may rely on between its steps: the members a wait found finished have
reported, and once it has read the inbox to its end their reports are among those
handed over. That what was handed over is the inbox up to the cursor
(`handed = 1 .. seen`) is part of the invariant. Only the root waits for
reports, and `close` is the only step that cancels a member.

Waits. `DeclaredWaitsAreAcyclic` says of every group of members that one of them
waits for nobody in it. It is inductive given the type of `waiting`. A new entry
passed `Reaches`, so all that its targets reach form a group closed under
waiting in which the new waiter is not; a group that meets it has its free
member there, and any other has the one it had before, or the waiter itself.

Orders. `OrdersInv` says that every book, the file's and those in requests'
hands, has one order per number, all of them given out, and that an order still to
be added has a number that no order of its request's book has. So at most one
order is due at a moment (`MomentsTell`, `AtMoment`) and the replay steps through them one
by one. Exactly the orders that were not valid at their moment are found
(`InvalidKept`, `OnlyInvalid`), and `CleanChecks` compares the check of a book
with that of its sanitized remainder, moment by moment: the states are the same, as
an invalid order left the state alone, and rejected orders are not replayed. `CleanAddsUp` then
follows a clean book's cash and its `Total` together (`ValidFlow`: a valid order
changes the cash by exactly its flow).
The replays are recursive functions, and the library's induction theorems take
an operator as a parameter, which the installed provers do not instantiate. The
induction is therefore over sets of numbers: `LeastNat` gets the least number of
a nonempty set from the well-foundedness of strict inclusion among finite sets,
`CountUp` is induction for a set, and `Unroll` and `Recursion` show that a
function defined by recursion on an interval has the values its equation gives.

Only model-checked: liveness (`CleanupEnds`, `CancelEndsWork`,
`CancelEndsTheStream`, `QueuedIsServed`), which TLAPS does not reach under
fairness (nor ENABLED). Every invariant and every action property that a
passing run checks is proved, some under the assumption in the last column. No
module declares a RECURSIVE operator.


## Findings

* An expired worker may write (`store_expired_write`). `append_events` accepts
  events under an expired lease and prolongs it, as long as nobody has taken
  over. The architecture document says expired workers are prevented from
  committing writes. Fencing is not affected: `FencedWrites` holds.
* Torn history (`store_torn_history`). `commit_turn` marks messages committed
  before the run is completed in `state.json`. After a crash in between, a
  running run's messages are in the history and are missing from what recovery
  loads.
* Abandoned run (`coordinator_abandoned`). A cancellation outside the `try` of
  `_run_scoped`, or while an error is being recorded, leaves the run running
  until its lease has expired and somebody uses its key again.
* Truncated stream (`local_stream`). The local stream of a dashboard run reads
  the events and then the status. The run may append its last event and set its
  status in between: the stream ends and its client never gets the terminal
  event, which `test_agent_run_manager.py` expects as the last. The persisted
  stream, which reads once more after it found the run ended, does not have
  this (`ClosedStreamIsComplete`).

## Not modelled

`PROJECT.json` lists every part of the system with its status, and under
`hazards` what can go wrong in it, those that no property covers included.

Data and I/O. Providers, prompts, context budgeting and compression, harnesses,
market-data services and precomputation jobs, visualisation, routes,
configuration, CLI, skills, cron and task pipelines, and the web frontend are
most of the repository's lines. They transform data frames and strings or call
other services, in one task each, and have no protocol between actors that a
model checker would add something to. The share of the repository that the
modules stand for is small for this reason, and stays so.

Parts of modelled components:

* Store: usage and context-usage rows, session metadata and deletion, the
  outbox, other sessions in the same file, and the one-off migration of old
  transcripts, which replays them through the modelled coordinator. The messages that
  `begin_run_with_lease` stores again on a takeover are in `store_recovery`, but
  what a reader makes of the repeated ones is not modelled.
* Objects: `stat`, `open` and the listing, which only read. A caller may delete
  a blob whose object is still committed, and a collector may take the blob of
  an object whose write failed with a pending reference; both leave a link to a
  tombstone. The model has these steps, and no property forbids them, as the
  code does not either.
* Dashboard runs: start and stop of `ThreadedBlockingPortal`, and the callbacks
  except as something that raises or is cancelled.
* Gateway: start, stop and its pid file, pairing, the commands that do not touch
  the queue, platform adapters.
* Process registry: the forced cleanup at the end of the interpreter, and
  sandboxes.
* Teams: suspend and resume (a spawn that is replayed after a resume finds its
  child by call id; a child that ended in between may be launched again), the
  mailboxes of children, `agent.complete`, `after_sequence` and the difference
  between failed and completed. Two concurrent waits of one caller share an entry
  in `_waiting`; the model has that, and since each wait has its own timeout
  nothing is promised that could be stated.
* Orders: other writers of the same file (candidates, configuration), more than one
  market, two orders in one second (which the code does not order), syncs for
  other days than today.

Protocols left out. `PlanEngine` carries out a plan in one task and saves after
each batch; what a crash loses is a hazard on the list without a property, as
nothing resumes a plan by itself. The MCP client's reconnect and stop, and the
kline cache of market data, are protocols of one connection and one file each; they
come after everything above in importance and are not modelled.
