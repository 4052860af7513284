# pglite-v-pgrust in TLA+

TLA+ models of [pglite-v-pgrust](../src/README.md): a PGlite client over
pgrust, which is Postgres compiled to WebAssembly with every Postgres backend a
thread in a Web Worker, the benchmark that compares engines on one page, the
lanes that measure that page from outside, and the scripts that fill it with
assets. The models are checked with TLC on small instances, and their safety
is proved with TLAPS for every instance. Paths below are relative
to `src/src/`, the application's source, unless they begin with `scripts/`.

Contents: [the system](#the-system) · [modules](#modules) · [runs](#runs) ·
[bounds](#bounds) · [fairness](#fairness) · [findings](#findings) ·
[observed](#observed) · [proofs](#proofs) · [what is not modelled](#what-is-not-modelled) ·
[plan](#plan)

## The system

The repository is a benchmark page, the engines it compares, and the client it
compares them for: `PgrustClientPGlite`, a drop-in PGlite whose database is a
whole Postgres server in workers.

```
   caller ── query/exec/listen/close ──► PgrustPGlite         (client/pgrust-pglite.ts)
                                            │ two SabPipes per session
   PgrustClientPGlite owns                  ▼
   startPgrustPostmaster ──► process worker ── claims ──► pool of thread workers
   (client/pgrust-engine.ts)  (vendor/pgrust/threads-host.js, thread-worker.js)
        │                                   │ one request channel per agent
        └────────────────────► storage coordinator (vendor/pgrust/storage-worker.js)
                                            │
                                   memory, OPFS or a directory
```

| Component | State it keeps | Operations | Interacts by |
|---|---|---|---|
| `SabPipe` (`vendor/pgrust/sab-pipe.js`) | a ring of bytes, READ, WRITE, CLOSED, SEQ in shared memory | blocking, bounded and non-blocking read and write, `close` | shared words, `Atomics.wait`/`notify` |
| `SpawnDesk` and the command loop (`threads-host.js`, `thread-worker.js`) | by slot a state word, a thread id and an argument; a counter of ids | `claim`, `awaitCommand`, `markIdle`, `markDone`; prewarm and run a thread | shared words; `ready`, `error`, `exit` messages |
| Host imports (`threads-host.js`) | registry of fds, a gate for each session's pipes | `fd_read`, `fd_write`, `fd_close`, `poll_oneoff` for the guest | pipes, their SEQ words and gates |
| Broker client (`broker-fs.js`, `broker-spin.js`) | a channel for each guest thread, the coordinator's doorbell | `pread`, `pwrite`, a vectored write gathered into one request | `Atomics.wait`/`notify`, spinning before it |
| Store levers (`store-levers.js`) | the arena's two sizes and the run of bytes held back | read, write, truncate, sync, close of the arena handle; metadata mutations | calls of the store below and above |
| `PgrustPGlite` (`client/pgrust-pglite.ts`) | `#buffered`, flags of the exchange, the pump and the close, listeners | query, exec, raw protocol, listen, the idle notification pump, close | two pipes to one backend |
| Engine (`client/pgrust-engine.ts`) | five gates, two workers, `stopped`, `exitCode`, the server's log | boot in four awaits, `openSession`, `shutdown` | worker messages, the listener pipe, the doorbell |
| `PgrustClientPGlite` (`client/pgrust-client-pglite.ts`) | its session and its engine | create, attach, `close` | calls |
| Storage coordinator (`storage-worker.js`) | one repacked store, channels | seed or reopen, serve requests, stop, close | doorbell, channels, messages |
| Browser engine, factories, prepared stores (`client/*`) | attempts at a store, options, assets | boot with retries, load and dump a data directory | calls, fetches |
| Engine workers and their host side (`engines/*`) | a session or several, requests in flight, a store directory | open, run, scenario, close | `postMessage` with request ids |
| Scenario runner, single-session queue (`engines/scenario-runner.ts`, `single-session.ts`) | signals, samples, who is inside | run a client's steps, hand the session on | promises |
| Suite runner and page (`runner/run-suite.ts`, `components/SuiteSection.tsx`) | the Configuration in progress, its results | one Run after another | calls |
| Measuring lanes (`scripts/bench.ts`, `scripts/probe-*.ts`, `safari-drive.ts`) | a server, a browser, a profile, a tunnel, a phone's settings | open, load, measure, give back | CDP, WebDriver, adb |
| Lanes without a page (`scripts/probe-notify-latency.ts`, `probe-pg-dump.ts`, `pgxsinkit-*-scenario.ts`) | an engine in the lane's own process, its client, subscriptions | boot, measure, close | calls of the client, with deadlines |
| Asset scripts (`scripts/sync-pgrust.ts`, `package-*.ts`, `scripts/pgrust-assets/`) | `public/pgrust/`, `src/vendor/pgrust/`, the records in them, releases | sync, package, publish | files, downloads |
| Results, configurations, options | data | pure functions, rendering | calls |

What is hard in it, and where a test would hardly get:

* the pipe and the desk are lock-free protocols over wrapping 32-bit words, with
  a futex each: lost wakeups, races on plain memory, wrap-around, and end of
  file against the last bytes;
* a session's one ring is read by exchanges, by the blocking raw path, by the
  idle pump and by `close()`, which cut it at any byte, while notifications
  arrive when they like and the backend may die;
* everything the engine awaits is a race of a worker's message with a timer,
  and an answer may come after it was given up on; two workers have to go down
  in the one order that does not close a store under a running server;
* `close()` overlaps with itself, with queries and with a backend's hang-up;
* who listens to a channel is known in two places, the client's map and the backend, and
  the two change in different orders, through two mutexes and transactions that roll back;
* a guest thread blocks on words that a whole group shares, while whoever has to
  bump them is between two of his bumps;
* writes are answered before they are made (`store-levers.js`), split and gathered
  (`broker-fs.js`), and the store has to be none the wiser, after a failure or a
  crash too;
* a benchmark has to tear down what it measured however the measuring ended, and to
  let nothing of one Run into the next one's numbers;
* a sync may stop between any two files, and what the clone then serves has to be
  what its records say.

`PROJECT.json` lists these as hazards, each at its line with the properties that
would catch it.

## Modules

| Module | Models | How it corresponds |
|---|---|---|
| `ByteChannel` | what a pipe promises: a FIFO of at most `Capacity` bytes, closed once | abstract specification |
| `SabPipe` | `sab-pipe.js` | an action is one load, store or add of a header word, a copy, a wait or a notify, in the order of the code; all call modes of `write` and of the reads |
| `ThreadPool` | what thread-spawn promises the guest | abstract specification |
| `SpawnDesk` | `SpawnDesk` of `threads-host.js` and the loop of `thread-worker.js` | an action is one atomic access of the shared array or one step of a worker |
| `GuestHost` | `poll_oneoff`, `fd_read`, `fd_write`, `fd_close` of a session's ends, and `readAsync` on the page | an action is one test of the rings, one read of a word, one park or one bump; a ring counts tokens |
| `BrokerSeam` | `broker-fs.js`, `broker-spin.js`, and the coordinator's loop as they rely on it | an action is one step of a guest's call or of the coordinator's loop |
| `MCGuest` | | puts `GuestHost` and `BrokerSeam` in one run |
| `MCPipe` | | puts `SabPipe` and `SpawnDesk` in one run |
| `PgrustSession` | `PgrustPGlite` and one backend | an action is what the agent runs between two awaits, or one write or read of a ring; the rings are `ByteChannel`s with their capacity, and a message is one or two units so that anything can split it |
| `Listeners` | `listen`, `unlisten` of `PgrustPGlite` | an action is what runs between two awaits of a call, or one statement of the backend; a channel is a name in small letters or with capitals, and a caller may quote either |
| `PgrustEngine` | `startPgrustPostmaster` and the workers as it sees them | an action is one continuation of the boot or of `shutdown()`, or one message of a worker |
| `PgrustClient` | `PgrustClientPGlite`, `attachPgrustClient` | EXTENDS `PgrustEngine`: composes attach, hang-up and overlapping `close()` with it |
| `MCClient` | | puts `PgrustClient` and `Listeners` in one run |
| `StoreBoot` | the storage half of `startPgrustBrowserPostmaster`, `storage-worker.js`, and the postmaster worker's use of stores | an action is what an agent does between two awaits, or one call of the store; pages share one OPFS directory |
| `ArenaFile` | what the store may rely on of its arena handle: a file, until it breaks | abstract specification |
| `StoreLevers` | `store-levers.js` | an action is one call of the store on the handle, or the edge of a call of the store itself |
| `MCStore` | | puts `StoreBoot` and `StoreLevers` in one run |
| `QueryCycles` | the sessions of a benchmark engine and the clients of a scenario | an action is one await of a client's step, one write or read of a session's ring, or the end of a statement |
| `SuiteRun` | a Run: the page's loop, the runner, `worker-runner.ts`, open, run and close of the workers | EXTENDS `QueryCycles`; an action is one request or answer, or one awaited step of a worker |
| `AssetSync` | `sync-pgrust.ts`, packaging and publishing | an action writes one file or one record; a file is the build it came from |
| `Lanes` | the bench, the probes, a Suite on a Mac (`drive`), and four programs with an engine in their own process | a lane is a program, a sequence of steps; an action is one step |
| `MCScripts` | | puts `Lanes` and `AssetSync` in one run |
| `SabPipeProofs`, `SpawnDeskProofs`, `SessionProofs` | | proofs about `SabPipe`, `SpawnDesk`, `PgrustSession` |
| `StoreProofs` | | proofs about `StoreBoot` and `StoreLevers` |
| `ClientProofs` | | proofs about `PgrustEngine`, `PgrustClient` and `Listeners` |
| `GuestProofs` | | proofs about `GuestHost` and `BrokerSeam`, and about `MCGuest`, which joins them |
| `SuiteProofs` | | proofs about `QueryCycles` and `SuiteRun` |
| `ScriptProofs` | | proofs about `Lanes` and `AssetSync` |

The layers meet at abstract specifications. `SabPipe` implements `ByteChannel`,
with the one exception its end-of-file finding describes, and `PgrustSession`
talks over byte channels, so a session is checked without the 32-bit words.
`SpawnDesk` implements `ThreadPool`, and the engine only relies on the pool's
being ready. `StoreLevers` implements `ArenaFile`: with the levers on, the store
cannot tell its handle from the platform's. The session in turn appears in
`PgrustClient` as open, closing or closed, and the client's steps are steps of
`PgrustEngine` (`EngineSpec`).

**SabPipe.** `READ`, `WRITE` and `SEQ` are residues modulo `Span` (2^32 in the
program), `ToInt32` is the `| 0` of the code. The producer's `wpc` and the
consumer's `rpc` say which access comes next; `wmode` and `rmode` which call it
is. The i-th byte written is the number i, so that `out`, what the consumer was
given, shows any loss, repetition or reordering. `WriterTimeout` and
`ReaderTimeout` are the bounded waits running out.

**SpawnDesk.** `state`, `tid`, `arg` are the words of a slot; `worker[s]` is
where a worker is in prewarm, in `awaitCommand` or in the guest; `claim[a]` is
an agent's call of `claim()`, its scan one `compareExchange` per slot. Agent 0 is
the process instance, agent s + 1 the thread in slot s, which may spawn from
inside. `Sleeps` is the comparison `Atomics.wait` makes. A trapped thread
leaves its slot RUNNING for good, as the code says.

**GuestHost.** A bump touches three words after the ring: the pipe's SEQ, the
gate of its group and the gate of the host. `due[a]` holds those an agent has
still to make, so that everybody else can run in between. A word is a flag,
*unmoved since it was last read*, which is all that `Atomics.wait` asks of it. A
backend polls its request ring and its wake ring behind one gate, reads, writes
a reply of `Parts` tokens through a ring of `RingSize`, and may set another's
latch. On the page, a reader per session shares the one `Atomics.waitAsync` of
the host (`live`, by the turn of the event loop it settles in). Here the ring
itself is atomic; the fine grain of it is `SabPipe`'s.

**BrokerSeam.** `chan`, `ask`, `ans` are a guest's channel; `doorbell` is whether
the ticket moved since it was last read, and a notify yet to come; `idle` and
`wasted` are broker-spin's record of its own luck. A vectored write of `Blocks`
is one request when gathered and a loop of requests when not; the answer may be
an error or short. `stored` and `told` are what the store has of it and what the
guest was told.

**PgrustSession.** `ex[c]` is the exchange of a caller: the holder of the query
mutex, and a caller of `execProtocolRawStream`, which takes no mutex and may call at
any moment, during the other's exchange too. `phase` is where it is between awaits; `sync` marks the
blocking path, which parks the agent (`AgentFree`). `overlapped` is a history variable: an exchange
began during the other caller's call. `fresh` is whether the agent has seen the ring empty as it is, so that an
end of file is what the code takes for one: the ring was seen empty, and the backend has closed since (`Eof`). A query of the extended
kind (`"P"`) is two exchanges, the second its `Sync`; an error skips to it. The
backend (`GuestTake`, `GuestEmit`, `GuestNotify`, `GuestExit`, `GuestTraps`) is
external code, modelled by the wire protocol as the client relies on it: it
holds replies until a flush, discards messages after an error until `Sync`,
sends notifications only outside a transaction, and may die or trap anywhere. A
trapped backend is `"stuck"`: its worker posts an error and leaves, and nobody
closes its ring.

**Listeners.** `callbacks` and `keys` are `#notifyListeners`, `heard` what the backend listens on,
`tx` a transaction and what it will leave (`staged`). The two mutexes are queues, their head the holder; the
query mutex only serialises statements that hold the transaction mutex already, and is left out. A
call has the channel its caller means (`aim`) and the one it was given (`name`), which differ when
the function `listen()` returned is used for a quoted name. `sub` is a history variable: how far
a caller's subscription got, `"lost"` when its transaction rolled back, when the channel was
unlistened for all, or when the caller let go of a channel with capitals by the function `listen()` returned (`LetGo`). `exec` and `transaction` are of `BasePGlite`, external.

**PgrustEngine and PgrustClient.** `gate[g]` is a promise of the code: settled
once, by the first to settle it. `boot`, `down` and `attach` are the program
counters of the three async functions. A timer is an alternative that may win
at any time. The guest is again external, by what its workers post:
`GuestRefused` (a spawn with no slot left), `GuestTraps` (a thread, with or
without the process), `GuestCheckpoints` with its log line coming later and by
another port than the exit.

**StoreBoot.** One OPFS directory, and pages that boot on it, at the same time or
one after the other. `host[p]` is where a page's boot is, `coord[<<p, k>>]` the
coordinator its k-th attempt made, until the browser reaps it (`Reap`).
`PageGoes` leaves a page at any step; its coordinator goes on until it is
reaped, keeps the handles that long, and leaves what was synced and any prefix
of what was not (`Amortize`). `mem` is what the owner has and `disk` what the
directory has; a data directory is a number of files, and `by` says whose boot
put it there. `Lanes` are the stores the callers ask for: the browser factory
may reset and may restore a backup; the benchmark either resets and refuses to
find a data directory (`refuse`), or unpacks a prepared store first. Two history
variables say what the code leaves behind: `acked`, the rows a sync was answered
for since the directory was last replaced, and `unsealed`, a seed or a restore
that has not reached its `strictSync`.

**StoreLevers.** `arena` is the arena file and `meta` the number of metadata
mutations the platform has seen, so any state is what a crash may leave.
`logical` and `physical` are the two sizes `grow` keeps once they are needed,
`held` the run of bytes `coalesce` has not written, `failed` the write that could
not be made after its caller was answered. `Landed(k)` is a write of the platform
that got k bytes far. `Seen` is the refinement mapping: the file the store
believes in.

**QueryCycles and SuiteRun.** Of five kinds of engine, one has a session for each
client and four have a single one behind `SessionQueue`. On the rings of the threads build
and the postmaster a cycle is a frame of units written without blocking and a
reply that a collector takes; elsewhere it is one call inside the worker. A
backend may die with its message on the way (`alarm`). `stale` marks a reply
whose cycle was given up. The clients run the steps scenarios are made of:
single statements, a transaction, a loop until another's signal. `SuiteRun` puts
a Run around it: `call` is the one request the page waits for, `stage` and `turn`
how far a worker's engine is up or down, `owned` the directory it will remove.
`mixed`, `foreign` and `excused` are history variables, for what happened to a
statement, to a report and to a directory the browser would not remove.

**AssetSync.** Files and records are by build, a commit and whether its tree was
dirty. `job` is the script that runs, and `Killed` may stop it between two
writes; `stopped` is a history variable, whether it was among the core binaries (`Copying`) or between a store
bundle and its record (`Unrecorded`). Releases may lack an optional asset or be drafts. An option of the command line is chosen
where the script first looks at it.

**Lanes.** A lane's program says what each row opens and asks, in order; `held` is
everything open or made, `page` whether the page is as asked for, `phone` the
settings a phone's row changes. A step may fail, which throws (`throwing`); what
the code closes is then in `RowEnds`, `Restore` and `Stop`, each of which may be refused.
In the lanes with an engine of their own, `page` is whether the backend answers. `factory`
has five rows: the strict store, the store restored from its backup, and three questions of
whether the other engine can boot a data directory, the last two of which the code passes when they are
refused. `drive` throws away a window that was hidden while it was measured (`Hide`); its
option to allow that is left out.

## Runs

| Run | Instance | Checks |
|---|---|---|
| `pipe` | ring of 2, words of 3 bits, calls of up to 3 bytes, 9 bytes; or two slots, three spawners, 3 thread ids; fair; 1,236,767 states | `NoDataRace`, `NoLostWakeup`, `NoLostStart`; `ChannelSpec`, `PoolSpec` (refinements), `PipeDrains`, `StartsRun` |
| `pipe_eof` | 2 bytes | violates `EofOnlyWhenDrained` (finding) |
| `host` | two sessions, 2 requests each, replies of 2 through rings of 1; or two guests, a vectored write of 2 blocks each; fair; 754,939 states | `NobodySleepsThrough`, `IdleParks`, `WritesAreTold`; `EveryWaitEnds` |
| `session` | rings of 1 and 2 units, 2 calls at any moment, 2 notifications; 2,240,000 states | `ReplyIntegrity`, `NothingLeftOver`, `NotesOnceAndInOrder` |
| `session_ends` | the same with 1 notification, fair; 505,725 states | `SessionEnds` |
| `session_fallback` | the same without notifications | violates `FallbackIsCorrect` (finding) |
| `client` | two overlapping calls of `close()`; or two callers, one name in small letters and with capitals, 6 calls of `listen`, `unlisten` and `transaction`; fair; 402,344 states | `StoreOutlivesServer`, `NobodyLeft`, `Subscriptions`; `EngineSpec`, `EveryCallEnds` |
| `client_close` | one `close()` | violates `CloseReleases` (finding) |
| `store` | two pages, two attempts each, a data directory of two files, one row, fair; or an arena of 4 positions, chunks of 2, a buffer of 2, one metadata mutation, the levers on and off; 463,068 states | `OverOwnsNothing`, `MeasuredIsFresh`, `BootsOnWhole`, `AckedSurvives`, `AnsweredIsWritten`, `SlackIsTrimmed`; `HandlesComeBack`, `MetadataFollowsData`, `PortSpec` (refinement) |
| `bench` | two clients on each of the five kinds of engine, rings of 1, loops of 2, one Configuration, fair; 696,000 states | `NeverOverlaps`, `ReportsAreOwn`, `LeavesNothing`; `SuiteEnds` |
| `scripts` | twelve lanes, two rows each where the lane takes several, fair; or two commits, two syncs, any packaging and publishing between; 1,933,242 states | `NothingLeft`, `ResultsAreTrue`, `SyncedIsRecorded`, `NeverMixed`, `PublishedStoreIsSource`; `ALaneEnds` |
| `scripts_store` | one sync | violates `BundledStoreIsSource` (finding) |

A run with an "or" joins two modules that share no state (`MCPipe`, `MCGuest`, `MCClient`, `MCStore`, `MCScripts`): a
behaviour is of the one or of the other (`half`), and the idle one stays as it began.

Every property of a passing run has a mutant in `PROJECT.json`: the definition
it names, changed the way a bug in that code would, makes TLC find the property
violated. Deadlock is not checked: each of these systems may stop, when nobody
calls it any more or its bound is reached; that it goes on when it should is
what the liveness properties say. Type invariants are not run: they are proved
(below), or follow from the assignments.

What the properties mean, beyond their names:

* `PipeDrains`: the consumer comes to have everything that was sent, or was told of
  the end; with it a lost wakeup of either side, or a close that wakes nobody, shows.
* `NobodySleepsThrough` is the safety half of `EveryWaitEnds`: nobody is parked on
  a word that moved, or while what he waits for is there, unless the one who made it
  so has yet to bump or to notify. Neither needs a timer or a heartbeat.
* `IdleParks`: broker-spin's comment on its bounds, that an idle coordinator spins once
  and then parks. `WritesAreTold`: a pwrite that reports blocks reports those the store has.
* `ReplyIntegrity`: an exchange returns the reply to its own message, whole,
  once, whatever the ring cut it into. `NothingLeftOver` is why: between
  exchanges only notifications are on their way. Both are about calls that take turns (`~ overlapped`), which is
  what a client that awaits each call before the next does; `FallbackIsCorrect` is `ReplyIntegrity` without that, which the
  code's comment claims and the run `session_fallback` refutes.
* `NotesOnceAndInOrder`: replies and the pump hand out notifications by
  different routes, yet each once and in order; none is lost except the ones the
  code drops on purpose (a raw reply, or behind an error). It too is about calls that take turns: two readers that wait at once share
  `#scratch` (see [observed](#observed)).
* `SessionEnds` has the exceptions `NobodyWaits` names, which are the code's. `Stranded`: a
  message that does not fit the ring, to a backend that is gone or itself
  blocked on its full ring, is retried by `#send` for ever. `"stuck"`: the backend
  trapped, or `close()` cut a message in two. Of exchanges that overlapped nothing is claimed; a `close()` after them ends.
* `Subscriptions` has two parts. `StillHeard`: who has listened is in the map and on the backend, until it lets go or
  somebody unlistens the channel for all, or it lets go of a channel with capitals and the same letters by the function `listen()` returned (see [observed](#observed)). It is what the listen mutex is for: an UNLISTEN waiting for a transaction
  must not come after that transaction's LISTEN. `Unsubscribed` is its counterpart.
* `EveryCallEnds` is `EverythingEnds` and `CallsEnd`. `CallsEnd` excuses `Crossed`, and shows it is the one way to hang (see [observed](#observed)).
* `StoreOutlivesServer`: on no path of the boot or the shutdown is the store closed
  or terminated while guest code runs.
* `NobodyLeft`: a failed boot, the effective `shutdown()` and a failed attach leave no
  worker. Its last part is weaker than `CloseReleases` on purpose: only the `close()`
  whose `shutdown()` took effect resolves with everything down; the others may
  resolve earlier.
* `EverythingEnds`: the boot ends in a server or an error, and a `close()` of an open
  session ends with every worker down, whatever the guest and the coordinator do.
* `BootsOnWhole` has the exception the code has: `unsealed`. A seed or a restore
  that was cut short is told from a whole directory only when it left no file at
  all (`storage-worker.js:415`), so a page that boots next may be given half of one.
* `OverOwnsNothing` has one too. The comment on `attemptStorage` says it owns nothing
  on failure, but the image is fetched outside its `try`: the worker made for it
  stays, without handles, because it was never told to open.
* `HandlesComeBack` is why the retries can be enough: a page that is done with the
  store, or gone, gives the handles back. That they are enough is not claimed: the
  attempts may all fall in the time of one owner, and a boot that resets meets the
  owner in `removeEntry`, whose error is not the one that is waited out.
* `AnsweredIsWritten`, `MetadataFollowsData`: what the store was told is written is at the
  platform when the store's own call returns, and is there before any metadata
  that speaks of it. After a deferred write failed, nothing more is answered (`PortSpec`).
* `NeverOverlaps` is why a session's collector never meets a cycle of another; `ReportsAreOwn`
  allows the mixing that does happen once a client has thrown (see [observed](#observed)),
  and says that no column is then filled.
* `LeavesNothing` excuses a directory whose removal itself failed, and a worker that had
  an error, which the page terminates without asking it for anything. `SuiteEnds` excuses `Stranded`: a
  worker that never evaluates, a statement to a guest already dead, a full ring to one.
* `SyncedIsRecorded` compares a sync from a release with that release's own files, whatever commit they were built from: packaging
  does not ensure it is the release's (see [observed](#observed)). Its part about the store bundle, and `PublishedStoreIsSource`, except a
  sync stopped between installing a store bundle and recording it (`Unrecorded`), and `NeverMixed` one stopped between two of the core
  binaries (`Copying`); no other interruption is excused. `BundledStoreIsSource` is the comment that makes no exception, refuted by `scripts_store`.
* `NothingLeft`, `ResultsAreTrue`, `ALaneEnds` hold for a page that goes mute at any time and a phone that
  refuses any command. `ALaneEnds` excuses the page's `release()`, awaited without a deadline.

## Bounds

* **Pipe.** `Capacity = 2` is the smallest ring whose copies wrap in the middle,
  `Span = 8` the smallest width the assumption allows (`Span > 2 * Capacity + 2`),
  and 9 bytes take READ and WRITE through a whole wrap of the words and into
  the next. Calls of 3 bytes exceed the ring, so a write parks half way.
* **Host.** Two sessions are the least for one gate moved on another's behalf, a latch set
  across, and two readers behind one `waitAsync`; a reply of two through a ring of one parks the writer
  half way; the second request meets the words as the first left them. Two guests contend for one coordinator; two
  blocks are cut in the middle by a short answer. The rings and the channels share no state, so `MCGuest`
  takes them one at a time (`half`) and loses no interleaving.
* **Session.** A ring of one unit splits every message of two, and the backend
  can be blocked on its output. Two calls give every ordered pair of exchanges;
  two notifications make their order observable. Liveness is checked with one, and the overlap needs none.
* **Listeners.** Two callers are one that leaves or opens a transaction and one that comes; channels do not share state,
  except through the small letters and the capitals of one name, which are both there. Six
  calls let a transaction leave, come back and roll back over an earlier subscription. `MCClient` takes it and the
  life of a client one at a time (`half`): they share no state.
* **Client.** Two calls of `close()` overlap in every way; a third adds no new
  state of the engine, because only the first `shutdown()` acts.
* **Desk.** Two slots make a scan pass over one and take the other; three spawners
  contend for them; three ids reuse a slot that a thread returned to.
  `MaxSpawns` bounds when a spawn may begin, so up to two more ids can be given.
* **Store.** Two pages are an owner and the one that meets it, and either order of
  crash and reopen; two attempts are one retry; two files tell an empty, a cut-short
  and a whole directory apart; one row tells a synced write from one that is lost.
* **Levers.** Four positions and chunks of two grow the file twice, and a run crosses a
  chunk; a buffer of two is extended, flushed by a write that does not touch it, and
  passed over by one too long for it. Two byte values tell a new byte from an old one.
* **Bench.** Two clients contend for one session and have one each on the postmaster; a frame of
  two in a ring of one is sent in parts; a loop of two runs into its cap. A directory is a
  column's own, so one column shows what it leaves behind.
* **Assets.** Two commits tell one build from another; two syncs are one that fails half way and one
  after it. Packaging and publishing are not bounded, except that a tag is published once.
* **Lanes.** The second row meets what the first left; the lanes that have one row, or five, have them.

Safety does not depend on these bounds: the proofs hold without them. Liveness is checked within them only.

## Fairness

* `SabPipe!FairSpec`: an agent in a call keeps executing and the consumer comes
  back for more, as the guest's command loop and the client's exchange loop do.
  No timer has to fire, which is what the code's comment on heartbeats claims.
* `MCGuest`: each guest thread, the page's event loop and the coordinator keep executing. No
  wait has to run out, and nobody has to send a request.
* `PgrustSession!FairSpec`: the event loop runs the continuations of each exchange and of `close()`,
  and a live backend keeps reading and writing. The pump need not run, and nobody has to call, notify or die.
* `MCClient`, the channels (`ListenFairness`): a statement is answered, a mutex goes to who asked first, and the callback of a transaction
  ends when it is not waiting itself, which is the caller's duty. Nobody has to call.
* `MCClient`, the life (`ClientSpec`): timers fire and settled promises run their
  continuations. Nothing is assumed of the guest, the coordinator or the session:
  this is what the deadlines in the code are for.
* `SpawnDesk!FairDeskSpec`: agents keep executing, and a worker woken or not asleep
  goes on. No thread has to return, nobody has to spawn.
* `StoreBoot!FairSpec`: the timer of a stop fires (`StopEnds`), the removal of a
  directory is given up after its attempts (`Leave`), and the browser reaps a dead
  worker (`Reap`). Nothing else has to happen: a page may stay where it is.
* `SuiteRun!Spec`, `Lanes!LaneSpec`: what can run next runs (`Progress`): page, worker, backends that
  live, and deadlines that have been armed. No fault has to happen.
* `StoreLevers!LeverSpec`, `AssetSync!Spec`: none; their properties are safety.

## Findings

Places where the code does other than its own comments say, each shown by a run
that TLC finds violated; `PROJECT.json` quotes the comment.

1. **End of file with bytes left** (`sab-pipe.js:232`, run `pipe_eof`). The
   consumer loads WRITE, finds the ring empty and then loads CLOSED; a write and a
   close in between make it return 0 with bytes in the ring.
2. **The fallback of the raw stream** (`pgrust-pglite.ts:609`, run `session_fallback`). Called while a query awaits its
   reply, `execProtocolRawStream` starts a second exchange on the same ring and buffer, without the query mutex, and one of the two
   callers is given a part of the other's reply. The comment at 583 calls this path correct for every caller that awaits it.
3. **`close()` after a hang-up leaves the server** (`pgrust-client-pglite.ts:582`,
   run `client_close`): the session is already closed, so `shutdown()` is never called.
4. **A store bundle under another's commit** (`scripts/sync-pgrust.ts:468`, run `scripts_store`). A sync stopped between the copy
   of a store bundle and its record (473) leaves the new bytes under the old commit, and packaging takes both;
   the comment at `scripts/package-pgrust-assets.ts:240` says the record is there when the bundle is.

## Observed

Met while modelling, and either excused by name in a property, or outside the
instance of the run:

* Session. Two readers that wait at once, two overlapping exchanges or an exchange and `close()`, read into one `#scratch`
  (`pgrust-pglite.ts:435`), and one may find the other's bytes in it. In the model a read is one step, and after an overlap nothing is claimed. A notification
  read behind the end of a reply stays in `#buffered` until the next byte
  comes (`pgrust-pglite.ts:740`, against the comment at 708). `#exchange` does not ask whether the session
  was closed meanwhile (`pgrust-pglite.ts:420`): a call that had passed `_checkReady` and waited for the mutex may be given, as its reply, the
  error an earlier backend died of and its exchange never returned. `ReplyIntegrity` allows that one
  reply and no other; with `InRing = 2`, `CanBlock = FALSE` TLC reaches it.
* Listeners. The function `listen()` returned calls `unlisten()` with the name already normalised
  (`pgrust-pglite.ts:852`), which normalises it again (863): `"Foo"` becomes `foo`, its callback stays in the map and is called,
  and no UNLISTEN is sent; and a subscription of the same callback to `foo` is dropped. `Subscriptions` excepts these two channels, for that caller.
  A `listen()` holds the listen mutex while its statement waits for the transaction in
  progress (`pgrust-pglite.ts:843`); if that transaction listens too, as `live.query()` does, both hang
  (`Crossed`), as in PGlite. `unlisten(channel)` without a callback leaves the callbacks in the map
  (`pgrust-pglite.ts:877`), and so does a transaction that rolls back: the next `listen()` to the channel brings
  them back. An `unlisten()` in one that rolls back leaves the backend listening for nobody. A second
  `listen()` with the same callback that fails removes the first; the model has no two at a time.
* Engine. `shutdown()` reports "checkpointed" of a server terminated in the middle of
  its shutdown checkpoint (`pgrust-engine.ts:676`): the line it looks for is written when it starts.
* Host. `_awaitHostGate` compares `live.seq > observed`, which only a wrapped gate satisfies;
  a reader then goes round in microtasks until its reply comes.
* Engine workers. A guest that dies between two cycles leaves the next statement unanswered;
  `send()` of the threads build repeats for ever on a full ring to a dead guest
  (`pgrust-threads.worker.ts:728`); its handshake has no deadline, and a failure after the storage
  was started leaves the coordinator. `closeEngine` of the postmaster worker forgets the directory before it
  is removed, so a failed removal is not tried again.
* Runners. A query that throws inside `singleSessionExecutor.transaction` leaves the transaction
  open for the next client; after one client throws the others go on until the worker is terminated, where the model
  switches them off (`Abandon`).
  `close()` of a worker waits for its answer without a deadline (`worker-runner.ts:103`), so one that
  failed READY holds up every Configuration after it. A Suite that fails late takes the reports of the earlier ones with it,
  and nothing keeps two sections from running at once.
* Assets. `--vendor-only` followed by a bundle packages the binaries of one commit as the release of
  another (`package-pgrust-assets.ts:220`, against `manifest.ts:4`); a download that fails may already have removed the
  optional assets a release does not have; a store copy that was interrupted is not repaired by a sync without pgxsinkit.
* Lanes. The keyguard of the phone, when it cannot be read, counts as not showing
  (`probe-idle-cpu-android.ts:457`); the prepared-store probe keeps its scratch directory on failure, and seals a store
  without asking whether the server checkpointed.

## Proofs

Each theorem holds for every value of the constants its module's assumption
allows.

**SabPipe** (`SabPipeProofs`), from `PipeAssumption`: the span is an even multiple
of the capacity, and the ring is far smaller than half of it. `PipeInvariant`
establishes the inductive invariant: `RingInv` relates the wrapped words to the
byte counts (`Available` is exactly what was sent and not yet taken), says
which stream position each occupied slot holds, and where each agent's copy
lies; the futex part says that an agent about to sleep on a value of SEQ has
either not missed a change or will be notified of it. Neither `Fifo` nor
`NoDataRace` is inductive alone: a copy is in order only because the occupancy is
exact, and that only because no counter is published before its copy. From it
`TypeCorrect`, `FifoCorrect`, `OccupancyExact`, `RaceFreedom`, `WakeupsKept` and
`ImplementsChannel`, the refinement of `ByteChannel`. The arithmetic of
wrapping words is in the first lemmas (`SlotStep`, `WriteMoves`, `ReadMoves`).

**Listeners** (`ClientProofs`), for any callers and channels, and names with and without
quotes and capitals. `ListenSafe` establishes `ListenInv`, from which
`SubscribersAreHeard` (`StillHeard`) and `LeaversAreLeftAlone` (`Unsubscribed`), and from them `SubscriptionsAreTrue`. `SubsAreTrue` is the
two together with what the open transaction will leave (`Kept`); it is inductive only with `NobodyIsCut`, that when an
UNLISTEN is on its way nobody has or awaits the channel, and that with `LocksAreHeld`, since it is the
listen mutex that keeps anybody from subscribing in between. `AskingIsTrue` carries a call from one await to the next.
The facts of a step are read once, in its `<1>1`, and the rest of its lemma is about them.

**PgrustEngine and PgrustClient** (`ClientProofs`), for any set of closers.
`BootShape` and `DownShape` say what the boot's and the shutdown's position imply
about the workers; with them `StoreOutlivesServer`, `FailedBootReleases` and
`ShutdownReleases` are inductive (`EngineSafe`, and `StoreSafe`,
`NoOrphanAfterBoot`, `NoOrphanAfterShutdown`). `ClientSafe` adds who owns the one
effective `shutdown()`, from which `OwnerWaits`; `NobodyIsLeft` puts the three together;
`ClientUsesEngine` shows that the client's steps are engine steps.

**SpawnDesk** (`SpawnDeskProofs`), for any pool size and arguments. `DeskSafe`
establishes `DeskInv`: `HolderShape` and `StoredShape` (a claim past the scan
owns a CLAIMED slot, alone, and what it has stored is in it), `WorkerShape`
(where a worker may be for each state of its slot) and `TidShape` (the ids of
claims and of live threads are distinct and were all given out). `ClaimExclusive`
and `NoLostStart` follow (`ClaimsExclude`, `StartsKept`), and `ImplementsPool` shows
the refinement of `ThreadPool`: an id is given out when START is published, a
thread starts when its worker enters the guest. `RoomForOne` is its counting
argument: the slot being published is not among those of the promised and
running threads, so these are fewer than the slots.

**StoreBoot** (`StoreProofs`), from `BootAssumption`, for any pages, attempts,
files and rows. `BootSafe` establishes `BootInv`, and the five safety properties follow
from it; none is inductive alone. `HostInv` says that only the last coordinator of a
page is active, so a retry cannot meet the attempt before it; with `OwnerInv`, who has
the handles, it gives `FailedBootLetsGo`. `DataInv` relates disk and memory to what was
acked and to what was begun and not finished (`unsealed`), from which
`SyncedSurvives`: a crash leaves what is on disk, and that is never less than
what was acked. `AnswerInv` says what a coordinator's answer stands for,
and `ServedInv` what is left of it once the page goes on: its own seed (`ColdIsCold`)
and a data directory that is on disk (`WholeBoot`). These two hold only because a page past the
answer is alone at the store, which the lemmas `OneWriter`, `OneCoordinator` and
`NobodyWrites` take from the rest of the invariant. `HostStepKeeps` and
`CoordStepKeeps` have one step per action.

**StoreLevers** (`StoreProofs`), from `LeverAssumption`, for any arena, chunk, buffer and
levers. `LeversSafe` establishes `LeverInv`: `RunIsHeld` says when a run may be held at all (only
inside a call of the store, and never past a failure), `SizesAreTrue` that the two
sizes are those of the platform's file with the run written and of the store's,
less than a chunk apart, and `SlackIsBlank` that the bytes in between are zero.
The last is what makes it inductive: a file that grows again over the slack
must read zeros there, as the store's does. From it `NothingHeldBetweenCalls` (`AnsweredIsWritten`),
`SlackIsBounded` (`SlackIsTrimmed`), `MetadataIsLast` (`MetadataFollowsData`), and `ImplementsFile`, the
refinement of `ArenaFile`. The lemmas `FlushedIs`, `SeenIs` and their primed
forms read the two files once, position by position; each action has a lemma
that gives the invariant and the step of the port together.

**BrokerSeam** (`GuestProofs`), from `SeamAssumption`, for any threads and vectored writes.
`SeamSafe` establishes `SeamInv`: `CallsAreTrue` says for each place of a call what its channel
holds, and that the store has exactly the blocks counted so far plus those of an answer still to be
read; `DoorbellIsTrue` that a coordinator which has not seen a request has its doorbell moved or a
ring to come; `SpinIsBounded` that it spins only with its idle flag down. From it `ReportsAreTrue`
(`WritesAreTold`, which is not inductive: a count is true only because no block is counted twice
over the loop of single writes), `NobodyIsOverlooked` (`SeamAwake`, the seam's half of
`NobodySleepsThrough`) and `SpinsOnce` (`IdleParks`). An answer taken by the guest is read once, in the lemma `AnswerIsTaken`.

**GuestHost and MCGuest** (`GuestProofs`), for any sessions, rings and replies. `NoSleepThrough` speaks of
agents that are parked; `HostInv` says what holds on the way there. `PollWatches` and
`WriteWatches`: from the read of a word to the park on it, whatever the waiter did not
see has its bump owed, unless the word has moved. `PumpWatches` says the same of the page's readers
behind their one `waitAsync`, with a case of its own for a reader about to join a wait that somebody
else armed; it needs `OneReader`, that the page runs one reader at a time and bumps before it
goes on. `NobodyMissesABump` follows, `BothSafe` joins `HostInv` and `SeamInv`, and
`NobodyIsLeftParked` is `NobodySleepsThrough`.

**QueryCycles and SuiteRun** (`SuiteProofs`), from `ColumnsAssumption`, `KindsAssumption` and
`CyclesAssumption`, for any Configurations, clients, loops and rings. Four inductive invariants, each on the
one before.

* `RunInv` is about the page, the call, the engine's stages and its directory. It gives
  `NothingIsLeft` (`LeavesNothing`): the directory of the column in progress is owned from the moment it may exist
  until it is removed or excused, and the answer to `close` comes only after that.
* `BaseInv` adds the types of sessions and clients, that an engine without rings has nothing in any
  (`NotPiped`), and that sessions are as new without a worker and after an error of it (`AllFresh`).
* `OwnInv` (`OwnersHold`) says whose a session is. `HandInv`: a session with a statement in flight is, while a scenario's
  clients run, that of a client in a unit of its program which has the session (`InHand`); otherwise the statement is the worker's own, on
  the session it has come to (`Asking`), unless the Run is `Lost`: it has failed or is bound to. From it
  `OneCycleAtATime` (`NeverOverlaps`).
* `WholeInv` (`WholeHolds`) says where things are, while the Run is not lost. `Sound`: a statement that waits has its frame in the ring, or is with the
  backend, or has its reply out, one of them (`UnderWay`), and a session at rest has nothing (`Empty`). `Trans`: a backend is
  inside the transaction of the client in hand only, from the reply to its BEGIN to the one that ends it.
  `LostIsLost`: a lost Run goes on to close, reports nothing more and fills no cell. From it `ReportsAreTheirOwn` (`ReportsAreOwn`).

After a client has thrown, the session is handed on with its transaction open: that is why the last two are about Runs that are
not lost, and why `ReportsAreOwn` says that such a Run fills no column.

**AssetSync** (`ScriptProofs`), from `NoneAssumption`, for any commits and any number of syncs.
`AssetsSafe` establishes `AssetInv`. `ReleaseInv` and `CheckoutInv` say, for each place in a script, which
files are in place by then: what a release does not carry is gone before any file is written, and what is written is the release's.
`RecordInv` says what is on record once a sync has come past it, whatever was interrupted before;
`WholeInv` (the store bundle) what holds while no sync was stopped between a bundle and its record, and `SameInv` (the binaries) while none
was stopped among the core files. Nothing is assumed of the commits a release's files were built from. From these
`SyncsAreRecorded` (`SyncedIsRecorded`), `AssetsNeverMix` (`NeverMixed`) and
`PublishedStoresAreTheirSource` (`PublishedStoreIsSource`). None is inductive alone: while files are copied they do differ from
their records, and only the place in the script says which ones.

**Lanes** (`ScriptProofs`), from `RowsAssumption`, for any number of rows. `LanesSafe` establishes `LaneInv`: `LeftInv` says that
between rows a lane has what outlives a row, what it was asked to keep, and what refused to go (`stuck`), and that the phone's lane has
not even that once it has restored the phone; `RowsInv` that rows are reported in order, and a failed one only where its error is caught; `PageInv`
that past its last check a lane is on the page it asked for. From it `LanesGiveBack` (`NothingLeft`) and
`LanesReportTruly` (`ResultsAreTrue`).

**PgrustSession** (`SessionProofs`), from `SessionAssumption`, for rings of any size, and any number of calls and notifications.
Two inductive invariants.

* `Core` holds whoever exchanges, also when two exchanges overlap, as far as a read is one step. `Closing`: a backend that is gone
  says nothing more. `Noted`: what was delivered, what is in hand and what is on its way in the buffer, the ring and the
  backend is in the order the backend sent it (`NotesGood`), is together all of it (`Account`), and no message is cut
  between what was consumed and what is left (`Pairs`, `CutAt`), wherever a scan or the pump cuts the stream. From it `NotesHold`
  (`NotesOnceAndInOrder`).
* `Sound` adds one exchange at a time (`Turns`) and what is said between the callers and the backend (`Talk`): while the backend
  lives, the substance of what it said is nothing and the message is on its way to it, at a place `Unanswered` names, or is a whole
  answer to the one exchange (`Answered`); once it is gone, a part of an answer; and once the session is closed, the
  start of one or the error the backend died of (`Stale`). What was scanned is whole messages, none the end of the reply (`Scanned`). From
  it `ReplyIntegrityHolds` (`ReplyIntegrity`) and `NothingLeftOverHolds` (`NothingLeftOver`). Neither is inductive: a reply is its
  own only because nothing was left over before it, and that only because a reply ends at the one unit `endsReplyTo` names (`ReplyShape`).

No caller is assumed to wait for another: the invariant is `TurnBased`, that `Sound` holds as long as no exchange has begun during the
other caller's call, and `overlapped` never goes back to FALSE. After an overlap `Sound` is false (see [findings](#findings)).

The filter of notifications, the scan and the walk of the pump are recursive functions on positions. What they compute for every buffer is
proved by the least position, or the shortest sequence, at which a claim would fail (`LeastOf`, `BySequence`, from `WFMin`): `OnlyConcat`,
`NotesConcat`, `WalkStep`, `LeadingIs`. With these a buffer that grows read by read is reasoned about part by part.

What stays with TLC: liveness (`PipeDrains`, `EveryWaitEnds`, `SessionEnds`,
`EveryCallEnds`, `StartsRun`, `HandlesComeBack`, `SuiteEnds`, `ALaneEnds`), which is
out of the prover's reach. Every safety property and action property a run checks is stated by a theorem, but for
the four that the findings show violated.

## What is not modelled

* COPY, `onNotification` and the extensions' hooks of `PgrustPGlite`. They run above the exchange
  that is modelled, with the query mutex held; what a notification calls is `callbacks` of its channel.
* Of the host: clocks beyond a timeout, random numbers, directories, the poll of a single
  descriptor, the early wake of a clock, the serial variant of the host. A wake ring never
  fills (64 KiB). Words are flags, so a wait that misses exactly 2^32 bumps is not seen.
* The coordinator's mounts, its memory and file ports; the repacked store library below the
  port, and the broker's framing of payloads into pieces of a channel.
* The format of a prepared store and its digests; the dump of a data directory.
* Of the engine workers: what single-threaded WebAssembly runs inside a cycle; `AbortSignal`.
  One fault of a guest happens at a time, and after a worker's error event it does nothing more.
* Of the asset scripts: `--commit`, `--store-commit`, another base address.
* Client factories, configurations and their selection, statistics, result formatting,
  `pgrust-wasi.js`, `io-stats.js`, the wire codecs of values: they keep no state that another part of the system
  could find changed, and unit tests reach what a model would.
* `pgrust-repro.ts` and `run-pgxsinkit-on-pgrust.ts`: straight-line programs on the client.
* Postgres itself, the repacked store library, browsers, adb and GitHub: external. They
  appear as what the code relies on.
* Time: deadlines race, they are not measured. `strictSync()` and other calls that
  may block an agent for a while are steps.

## Plan

1. Every module of the table: modelled, checked, and its safety proved.
2. Not modelled yet, in the files the models touch least: the browser engine's own boot of the server
   (`pgrust-browser-engine.ts`), the factory scenario, and the dump of a data directory.
3. Not begun: percentiles, selection of configurations and the prepared-store format as operators
   against their definitions.
